-------------------------- MODULE MultiDeviceProofs --------------------------
(***************************************************************************)
(* Proofs about MultiDevice, for any number of devices and cases, any      *)
(* scripts, starts, timeouts, hangs and failing writes, with or without a  *)
(* reset: no signal is lost or used twice, a case passes only if each      *)
(* device has passed its part, a case is reported as ignored for a reason, *)
(* and a wait is passed only for what the other devices have sent.         *)
(***************************************************************************)
EXTENDS MultiDevice, FiniteSetTheorems, NumberLemmas, TLAPS

\* The results that let a case end without a failure.
Harmless == {"PASS", "IGNORE"}

USE DEF Outcomes, Harmless

-----------------------------------------------------------------------------
(* Types. *)

Value == Signals \cup Outcomes \cup {""}

LineType ==
    [t : {"ready", "name", "send", "wait", "passed", "result", "end"},
     c : 0..NCase, i : 0..NDut, v : Value]

DeviceType ==
    [st : {"boot", "menu", "sub", "run", "blocked", "ended", "hung"},
     case : 0..NCase, sub : 0..NDut, ip : Nat]

TesterTypes ==
    /\ at \in {"gather", "between", "raised"}
    /\ case \in Case
    /\ wpc \in [Dut -> {"ready", "name", "run", "wait", "done", "raised"}]
    /\ data \in [Dut -> Outcomes \cup {"none", "PRE_RUN_FAILURE"}]
    /\ waitSig \in [Dut -> Value]
    /\ report \in [Case -> Outcomes \cup {"none"}]

QueueTypes ==
    /\ query \in [Dut -> Seq(Value)]
    /\ handed \in [Dut -> Seq(Value)]
    /\ taken \in [Dut -> Seq(Value)]

DeviceTypes ==
    /\ dev \in [Dut -> DeviceType]
    /\ in \in [Dut -> Seq(Nat)]
    /\ out \in [Dut -> Seq(LineType)]
    /\ did \in [Dut -> Seq(LineType)]
    /\ \A d \in Dut : \A i \in DOMAIN out[d] :
         out[d][i].t = "result" => out[d][i].c # 0 /\ out[d][i].v \in Outcomes
    /\ \A d \in Dut : dev[d].st \in {"sub", "run", "blocked", "ended"} => dev[d].case # 0
    /\ \A d \in Dut : dev[d].st \in {"run", "blocked", "ended"} => dev[d].sub = d /\ dev[d].ip # 0
    /\ \A d \in Dut : dev[d].st = "blocked" => dev[d].ip <= Len(Script[dev[d].case][dev[d].sub])

MultiTypes == TesterTypes /\ QueueTypes /\ DeviceTypes

-----------------------------------------------------------------------------
(* The invariant. *)

\* No index of the menu is the number of a sub-case.
IndicesApart == \A k \in Case : CaseIndex[k] \notin Dut

\* What is written to d for the present case.
Own(d) == {CaseIndex[case], d, 0}

\* What is written for a case follows the index of the case.
InputInv(d) ==
    /\ \A i \in DOMAIN in[d] : in[d][i] \in {0, d} \/ \E k \in 1..case : in[d][i] = CaseIndex[k]
    /\ \A i, j \in DOMAIN in[d] : i < j /\ in[d][i] = CaseIndex[case] => in[d][j] \in Own(d)
    /\ dev[d].case <= case
    /\ dev[d].case = case => \A i \in DOMAIN in[d] : in[d][i] \in Own(d)

\* Output of the present case is followed by output of that case only.
OutputInv(d) ==
    /\ \A i \in DOMAIN out[d] :
         /\ out[d][i].c <= case
         /\ out[d][i].c = case => dev[d].case = case
         /\ out[d][i].t = "result" => Did(d, Concluded(out[d][i].c, d, out[d][i].v))
    /\ \A i, j \in DOMAIN out[d] : i < j /\ out[d][i].c = case => out[d][j].c \in {0, case}
    /\ \A i \in DOMAIN did[d] : did[d][i].c <= case

\* Device d does not run, and will not run, any sub-case of k, unless it is told so.
Barred(d, k) ==
    /\ \A i \in DOMAIN did[d] : ~(did[d][i].t = "result" /\ did[d][i].c = k)
    /\ dev[d].case = k => dev[d].st \notin {"run", "blocked", "ended"}
    /\ dev[d].case = k /\ dev[d].st = "sub" /\ in[d] # <<>> => in[d][1] # d
    /\ \A i, j \in DOMAIN in[d] : j = i + 1 /\ in[d][i] = CaseIndex[k] => in[d][j] # d

WorkerInv(d) ==
    /\ wpc[d] \in {"run", "wait"} => dev[d].case = case /\ \A i \in DOMAIN out[d] : out[d][i].c \in {0, case}
    /\ \A r \in Harmless : data[d] = r => Did(d, Concluded(case, d, r))
    /\ data[d] # "none" <=> wpc[d] = "done"
    /\ wpc[d] \in {"ready", "name"} \/ data[d] = "PRE_RUN_FAILURE" => Barred(d, case)

\* All devices have ended their own sub-case of k without a failure, one with IGNORE.
EndedBy(k) ==
    /\ \A d \in Dut : \E r \in Harmless : Did(d, Concluded(k, d, r))
    /\ \E d \in Dut : Did(d, Concluded(k, d, "IGNORE"))

LaneInv == \A d \in Dut : InputInv(d) /\ OutputInv(d) /\ WorkerInv(d)

VerdictInv ==
    \A k \in Case :
      /\ report[k] # "none" => k < case \/ (k = case /\ at = "between")
      /\ report[k] = "PASS" => \A d \in Dut : Did(d, Concluded(k, d, "PASS"))
      /\ report[k] = "IGNORE" => (\E d \in Dut : Barred(d, k)) \/ EndedBy(k)

\* What was done stays done.
LEMMA EndStays ==
    ASSUME NEW k, \A d \in Dut : \A l : Did(d, l) => Did(d, l)', EndedBy(k)
    PROVE  EndedBy(k)'
<1>1. \A d \in Dut, r \in Harmless : Did(d, Concluded(k, d, r)) => Did(d, Concluded(k, d, r))'
  BY DEF Did
<1>2. QED
  BY <1>1 DEF EndedBy

LEMMA SameDeeds ==
    ASSUME did' = did
    PROVE  /\ \A d \in Dut : \A l : Did(d, l) => Did(d, l)'
           /\ \A k : EndedBy(k) => EndedBy(k)'
<1>1. \A d \in Dut : \A l : Did(d, l) => Did(d, l)'
  BY DEF Did
<1>2. QED
  BY <1>1, EndStays

-----------------------------------------------------------------------------
(* What the tester's operators find. *)

\* A found line matches the pattern.
LEMMA FindFacts ==
    ASSUME MultiTypes, NEW d \in Dut, NEW pattern, Find(d, pattern) # 0
    PROVE  /\ Find(d, pattern) \in 1..Len(out[d])
           /\ out[d][Find(d, pattern)].t \in pattern
           /\ pattern = NamePattern => out[d][Find(d, pattern)].c = case
<1> DEFINE T(l) == l.t \in pattern /\ (pattern = NamePattern => l.c = case)
           I == {i \in 1..Len(out[d]) : T(out[d][i])}
<1>1. Find(d, pattern) = IF I # {} THEN CHOOSE i \in I : \A j \in I : i <= j ELSE 0
  BY DEF Find, SelectInSeq, Min
<1>2. I \in SUBSET Nat /\ I # {}
  BY <1>1
<1>3. \E i \in I : \A j \in I : i <= j
  <2> HIDE DEF I
  <2> QED BY <1>2, LeastNatural
<1>4. Find(d, pattern) \in I
  <2> HIDE DEF I
  <2> QED BY <1>1, <1>2, <1>3
<1>5. QED
  BY <1>4

\* A result is the one of a line of the text.
LEMMA ParsedFacts ==
    ASSUME NEW lines \in Seq(LineType)
    PROVE  \/ ParsedResult(lines) = "FAIL"
           \/ \E i \in 1..Len(lines) : lines[i].t = "result" /\ ParsedResult(lines) = lines[i].v
<1> DEFINE R == {i \in DOMAIN lines : lines[i].t = "result"}
<1>1. Len(lines) \in Nat /\ DOMAIN lines = 1..Len(lines)
  OBVIOUS
<1>2. ParsedResult(lines) = IF R = {} THEN "FAIL" ELSE lines[CHOOSE i \in R : \A j \in R : j <= i].v
  BY DEF ParsedResult
<1>3. R \in SUBSET (1..Len(lines))
  BY <1>1
<1>4. CASE R # {}
  <2>1. \E i \in R : \A j \in R : j <= i
    <3> HIDE DEF R
    <3> QED BY <1>1, <1>3, <1>4, GreatestUpTo
  <2>2. PICK i \in R : i = CHOOSE k \in R : \A j \in R : j <= k
    <3> HIDE DEF R
    <3> QED BY <2>1
  <2>3. ParsedResult(lines) = lines[i].v
    <3> HIDE DEF R
    <3> QED BY <1>2, <1>4, <2>2
  <2>4. QED
    BY <2>2, <2>3, <1>3
<1>5. QED
  BY <1>2, <1>4

-----------------------------------------------------------------------------
(* What a turn of a worker does to its DUT. *)

\* Output of d is taken out of the buffer.
Shift(d) == out' = out \/ \E n \in Nat : Consume(d, n)

\* At most one of the numbers in X is written to d.
Fed(d, X) == in' = in \/ \E x \in X : in' = [in EXCEPT ![d] = Append(@, x)]

\* Before the start of the case is seen only its index is written.
Starting(d) ==
    /\ wpc[d] \in {"ready", "name"}
    /\ Shift(d) /\ Fed(d, {CaseIndex[case]})
    /\ \/ wpc'[d] \in {"ready", "name"} /\ data'[d] = data[d]
       \/ wpc'[d] = "done" /\ data'[d] = "PRE_RUN_FAILURE"

\* The case was seen to start.
Started(d) ==
    /\ wpc[d] = "name"
    /\ \E n \in DOMAIN out[d] : out[d][n].c = case /\ Consume(d, n)
    /\ Fed(d, {d})
    /\ wpc'[d] \in {"run", "raised"} /\ data'[d] = data[d]

\* The result is one that the device has printed, or FAIL.
Proceeding(d) ==
    /\ wpc[d] \in {"run", "wait"}
    /\ Shift(d) /\ Fed(d, {0})
    /\ \/ wpc'[d] \in {"run", "wait", "raised"} /\ data'[d] = data[d]
       \/ /\ wpc'[d] = "done"
          /\ \/ data'[d] = "FAIL"
             \/ \E i \in DOMAIN out[d] : out[d][i].t = "result" /\ data'[d] = out[d][i].v

WorkerEffect(d) ==
    /\ at = "gather"
    /\ UNCHANGED <<at, case, dev, did, report>>
    /\ \A e \in Dut : e # d => wpc'[e] = wpc[e] /\ data'[e] = data[e]
    /\ \/ Starting(d)
       \/ Started(d)
       \/ Proceeding(d)
       \/ UNCHANGED <<wpc, data, in, out>>

LEMMA ParsedIsPrinted ==
    ASSUME MultiTypes, NEW d \in Dut, NEW n \in 1..Len(out[d])
    PROVE  \/ ParsedResult(SubSeq(out[d], 1, n)) = "FAIL"
           \/ \E i \in DOMAIN out[d] : out[d][i].t = "result" /\ ParsedResult(SubSeq(out[d], 1, n)) = out[d][i].v
<1> DEFINE s == SubSeq(out[d], 1, n)
<1>1. out[d] \in Seq(LineType)
  BY DEF MultiTypes, DeviceTypes
<1>2. s \in Seq(LineType) /\ Len(s) = n /\ \A i \in 1..n : i \in DOMAIN out[d] /\ s[i] = out[d][i]
  BY <1>1
<1> HIDE DEF s
<1>3. QED
  BY <1>2, ParsedFacts DEF s

LEMMA WriteFacts ==
    ASSUME MultiTypes, NEW d \in Dut, NEW x, Write(d, x)
    PROVE  Fed(d, {x})
  BY DEF Write, Fed

LEMMA WorkerHasEffect ==
    ASSUME MultiTypes, NEW d \in Dut, Worker(d)
    PROVE  WorkerEffect(d)
<1> USE DEF WorkerEffect, Starting, Started, Proceeding, MyTurn, Outside, Complete, RunOn, Shift
<1>1. wpc \in [Dut -> {"ready", "name", "run", "wait", "done", "raised"}]
      /\ data \in [Dut -> Outcomes \cup {"none", "PRE_RUN_FAILURE"}]
      /\ out[d] \in Seq(LineType) /\ DOMAIN out[d] = 1..Len(out[d]) /\ Len(out[d]) \in Nat
  BY DEF MultiTypes, TesterTypes, DeviceTypes
<1>2. CASE SkipDone(d)
  BY <1>2 DEF SkipDone, workerVars
<1>3. CASE SeeReady(d)
  <2>1. Find(d, ReadyPattern) \in Nat
    BY <1>3, <1>1, FindFacts DEF SeeReady
  <2>2. Shift(d)
    BY <2>1, <1>3 DEF SeeReady
  <2>3. CASE Write(d, CaseIndex[case]) /\ wpc' = [wpc EXCEPT ![d] = "name"] /\ UNCHANGED data
    BY <2>2, <2>3, <1>1, <1>3, WriteFacts DEF SeeReady
  <2>4. CASE Complete(d, "PRE_RUN_FAILURE") /\ UNCHANGED in
    BY <2>2, <2>4, <1>1, <1>3 DEF SeeReady, Fed
  <2>5. QED
    BY <2>3, <2>4, <1>3 DEF SeeReady
<1>4. CASE SeeName(d)
  <2>1. PICK n : n = Find(d, NamePattern)
    OBVIOUS
  <2>2. n \in DOMAIN out[d] /\ out[d][n].c = case /\ Consume(d, n)
    BY <2>1, <1>1, <1>4, FindFacts DEF SeeName
  <2>3. Fed(d, {d})
    BY <1>4, WriteFacts DEF SeeName, Fed
  <2>4. wpc[d] = "name" /\ wpc'[d] \in {"run", "raised"} /\ data' = data
        /\ \A e \in Dut : e # d => wpc'[e] = wpc[e]
    BY <1>1, <1>4 DEF SeeName
  <2>5. QED
    BY <2>2, <2>3, <2>4, <1>4 DEF SeeName
<1>5. CASE SeeSend(d)
  <2>1. Find(d, SignalPattern) \in Nat
    BY <1>5, <1>1, FindFacts DEF SeeSend
  <2>2. Shift(d) /\ Fed(d, {0})
    BY <2>1, <1>5 DEF SeeSend, Fed
  <2>3. QED
    BY <2>2, <1>1, <1>5 DEF SeeSend
<1>6. CASE SeeWait(d)
  <2>1. Find(d, SignalPattern) \in Nat
    BY <1>6, <1>1, FindFacts DEF SeeWait
  <2>2. Shift(d) /\ Fed(d, {0})
    BY <2>1, <1>6 DEF SeeWait, Fed
  <2>3. QED
    BY <2>2, <1>1, <1>6 DEF SeeWait
<1>7. CASE SeeEnd(d)
  <2>1. PICK n : n = Find(d, SignalPattern)
    OBVIOUS
  <2>2. n \in 1..Len(out[d])
    BY <2>1, <1>7, <1>1, FindFacts DEF SeeEnd
  <2>3. Shift(d) /\ Fed(d, {0})
    BY <2>1, <2>2, <1>1, <1>7 DEF SeeEnd, Fed
  <2>4. PICK r : r = ParsedResult(SubSeq(out[d], 1, n))
    OBVIOUS
  <2>5. r = "FAIL" \/ \E i \in DOMAIN out[d] : out[d][i].t = "result" /\ r = out[d][i].v
    BY <2>2, <2>4, ParsedIsPrinted
  <2>6. wpc[d] = "run" /\ Complete(d, r) /\ UNCHANGED <<at, case, dev, did, report>> /\ at = "gather"
    BY <2>1, <2>4, <1>7 DEF SeeEnd
  <2>7. QED
    BY <2>3, <2>5, <2>6, <1>1
<1>8. CASE TakeSignal(d)
  <2>1. Fed(d, {0}) /\ out' = out
    BY <1>8, WriteFacts DEF TakeSignal, Fed
  <2>2. QED
    BY <2>1, <1>1, <1>8 DEF TakeSignal
<1>9. CASE PollAgain(d)
  BY <1>9 DEF PollAgain
<1>10. CASE RetryStart(d)
  <2>1. Fed(d, {CaseIndex[case]}) /\ out' = out
    BY <1>10, WriteFacts DEF RetryStart, Fed
  <2>2. QED
    BY <2>1, <1>1, <1>10 DEF RetryStart
<1>11. CASE GiveUpStart(d)
  BY <1>1, <1>11 DEF GiveUpStart, Fed
<1>12. CASE RunTimeout(d)
  <2>1. PICK r : r = ParsedResult(out[d])
    OBVIOUS
  <2>2. r = "FAIL" \/ \E i \in DOMAIN out[d] : out[d][i].t = "result" /\ r = out[d][i].v
    BY <2>1, <1>1, ParsedFacts
  <2>3. wpc[d] = "run" /\ Complete(d, r) /\ UNCHANGED <<at, case, dev, did, report, in, out>> /\ at = "gather"
    BY <2>1, <1>12 DEF RunTimeout
  <2>4. QED
    BY <2>2, <2>3, <1>1 DEF Fed
<1>13. CASE WaitTimeout(d)
  BY <1>1, <1>13 DEF WaitTimeout, Fed
<1>14. QED
  BY <1>2, <1>3, <1>4, <1>5, <1>6, <1>7, <1>8, <1>9, <1>10, <1>11, <1>12, <1>13 DEF Worker

\* What is left of the output is a part of it, in its order.
LEMMA ShiftFacts ==
    ASSUME MultiTypes, NEW d \in Dut, Shift(d)
    PROVE  /\ out' \in [Dut -> Seq(LineType)]
           /\ \A e \in Dut : e # d => out'[e] = out[e]
           /\ \E m \in Nat : \A i \in DOMAIN out'[d] : i + m \in DOMAIN out[d] /\ out'[d][i] = out[d][i + m]
<1>1. out \in [Dut -> Seq(LineType)]
  BY DEF MultiTypes, DeviceTypes
<1>2. CASE out' = out
  <2>1. \A i \in DOMAIN out[d] : i + 0 = i
    BY <1>1
  <2>2. QED
    BY <2>1, <1>1, <1>2
<1>3. ASSUME NEW n \in Nat, Consume(d, n)
      PROVE  /\ out' \in [Dut -> Seq(LineType)]
             /\ \A e \in Dut : e # d => out'[e] = out[e]
             /\ \A i \in DOMAIN out'[d] : i + n \in DOMAIN out[d] /\ out'[d][i] = out[d][i + n]
  <2>1. PICK q \in Seq(LineType) : q = out[d]
    BY <1>1
  <2>2. PICK r : r = SubSeq(q, n + 1, Len(q))
    OBVIOUS
  <2>3. r \in Seq(LineType) /\ \A i \in 1..Len(r) : i + n \in 1..Len(q) /\ r[i] = q[i + n]
    BY <2>2, SuffixFacts
  <2>4. out' = [out EXCEPT ![d] = r]
    BY <2>1, <2>2, <1>3 DEF Consume
  <2>5. out'[d] = r /\ DOMAIN r = 1..Len(r) /\ DOMAIN q = 1..Len(q)
    BY <2>3, <2>4, <1>1
  <2>6. QED
    BY <2>1, <2>3, <2>4, <2>5, <1>1
<1>4. QED
  BY <1>2, <1>3 DEF Shift

LEMMA FedFacts ==
    ASSUME MultiTypes, NEW d \in Dut, NEW X \in SUBSET Nat, Fed(d, X)
    PROVE  /\ in' \in [Dut -> Seq(Nat)]
           /\ \A e \in Dut : e # d => in'[e] = in[e]
           /\ \/ in'[d] = in[d]
              \/ \E x \in X :
                   /\ in'[d] # <<>>
                   /\ DOMAIN in[d] = 1..Len(in[d]) /\ Len(in[d]) \in Nat
                   /\ DOMAIN in'[d] = 1..(Len(in[d]) + 1)
                   /\ \A i \in DOMAIN in[d] : in'[d][i] = in[d][i]
                   /\ in'[d][Len(in[d]) + 1] = x
<1>1. in \in [Dut -> Seq(Nat)]
  BY DEF MultiTypes, DeviceTypes
<1>2. CASE in' = in
  BY <1>1, <1>2
<1>3. ASSUME NEW x \in X, in' = [in EXCEPT ![d] = Append(@, x)]
      PROVE  /\ in' \in [Dut -> Seq(Nat)]
             /\ \A e \in Dut : e # d => in'[e] = in[e]
             /\ in'[d] # <<>>
             /\ DOMAIN in[d] = 1..Len(in[d]) /\ Len(in[d]) \in Nat
             /\ DOMAIN in'[d] = 1..(Len(in[d]) + 1)
             /\ \A i \in DOMAIN in[d] : in'[d][i] = in[d][i]
             /\ in'[d][Len(in[d]) + 1] = x
  <2>1. x \in Nat
    OBVIOUS
  <2>2. in'[d] = Append(in[d], x)
    BY <1>1, <1>3
  <2>3. QED
    BY <2>1, <2>2, <1>1, <1>3
<1>4. QED
  BY <1>2, <1>3 DEF Fed

LEMMA OwnNumbers ==
    ASSUME MultiTypes, NEW d \in Dut
    PROVE  Own(d) \in SUBSET Nat /\ CaseIndex[case] \in Nat \ {0} /\ d \in Nat
  BY MenuAssumption, SizeAssumption DEF Own, MultiTypes, TesterTypes, Dut

\* A turn of a worker keeps what was said about the lines of its device.
LEMMA TurnKeepsLane ==
    ASSUME MultiTypes, NEW d \in Dut, InputInv(d), OutputInv(d),
           UNCHANGED <<case, dev, did>>, Shift(d), NEW X \in SUBSET Own(d), Fed(d, X)
    PROVE  /\ InputInv(d)' /\ OutputInv(d)'
           /\ (\A i \in DOMAIN out[d] : out[d][i].c \in {0, case})
                => \A i \in DOMAIN out'[d] : out'[d][i].c \in {0, case}
<1>1. /\ out[d] \in Seq(LineType) /\ in[d] \in Seq(Nat)
      /\ DOMAIN out[d] = 1..Len(out[d]) /\ DOMAIN in[d] = 1..Len(in[d])
  BY DEF MultiTypes, DeviceTypes
<1>2. PICK m \in Nat : \A i \in DOMAIN out'[d] : i + m \in DOMAIN out[d] /\ out'[d][i] = out[d][i + m]
  BY ShiftFacts
<1>3. out'[d] \in Seq(LineType) /\ DOMAIN out'[d] = 1..Len(out'[d])
  <2>1. out' \in [Dut -> Seq(LineType)]
    BY ShiftFacts
  <2>2. QED
    BY <2>1
<1>4. OutputInv(d)'
  <2>1. \A i \in DOMAIN out'[d] :
         /\ out'[d][i].c <= case
         /\ out'[d][i].c = case => dev[d].case = case
         /\ out'[d][i].t = "result" => Did(d, Concluded(out'[d][i].c, d, out'[d][i].v))
    BY <1>2 DEF OutputInv
  <2>2. ASSUME NEW i \in DOMAIN out'[d], NEW j \in DOMAIN out'[d], i < j, out'[d][i].c = case
        PROVE  out'[d][j].c \in {0, case}
    <3>1. i \in Nat /\ j \in Nat
      BY <1>3
    <3>2. i + m < j + m
      BY <2>2, <3>1
    <3>3. QED
      BY <2>2, <3>2, <1>2 DEF OutputInv
  <2>3. QED
    BY <2>1, <2>2 DEF OutputInv, Did
<1>5. InputInv(d)'
  <2>1. Own(d) \in SUBSET Nat /\ X \in SUBSET Nat
    BY OwnNumbers
  <2>2. CASE in'[d] = in[d]
    BY <2>2 DEF InputInv, Own
  <2>3. ASSUME NEW x \in X,
               /\ DOMAIN in[d] = 1..Len(in[d]) /\ Len(in[d]) \in Nat
               /\ DOMAIN in'[d] = 1..(Len(in[d]) + 1)
               /\ \A i \in DOMAIN in[d] : in'[d][i] = in[d][i]
               /\ in'[d][Len(in[d]) + 1] = x
        PROVE  InputInv(d)'
    <3>1. \A i \in DOMAIN in'[d] : i \in DOMAIN in[d] \/ i = Len(in[d]) + 1
      BY <2>3
    <3>2. x \in {0, d} \/ x = CaseIndex[case]
      BY DEF Own
    <3>3. case \in 1..case
      BY DEF MultiTypes, TesterTypes, Case
    <3>4. \A i \in DOMAIN in'[d] : in'[d][i] \in {0, d} \/ \E k \in 1..case : in'[d][i] = CaseIndex[k]
      BY <3>1, <3>2, <3>3, <2>3 DEF InputInv
    <3>5. ASSUME NEW i \in DOMAIN in'[d], NEW j \in DOMAIN in'[d], i < j, in'[d][i] = CaseIndex[case]
          PROVE  in'[d][j] \in Own(d)
      <4>1. CASE j \in DOMAIN in[d]
        BY <4>1, <3>5, <2>3 DEF InputInv
      <4>2. CASE j = Len(in[d]) + 1
        BY <4>2, <2>3
      <4>3. QED
        BY <4>1, <4>2, <3>1
    <3>6. dev[d].case = case => \A i \in DOMAIN in'[d] : in'[d][i] \in Own(d)
      BY <3>1, <2>3 DEF InputInv
    <3>7. QED
      BY <3>4, <3>5, <3>6 DEF InputInv, Own
  <2>4. QED
    BY <2>1, <2>2, <2>3, FedFacts
<1>6. QED
  BY <1>2, <1>4, <1>5

\* A device stays barred from a case unless the number of its sub-case is written to it.
LEMMA TurnKeepsBarred ==
    ASSUME MultiTypes, IndicesApart, NEW d \in Dut, NEW k \in Case, Barred(d, k),
           UNCHANGED <<case, dev, did>>, NEW X \in SUBSET Own(d), Fed(d, X), InputInv(d),
           d \notin X \/ (k # case /\ dev[d].case = case)
    PROVE  Barred(d, k)'
<1>1. Own(d) \in SUBSET Nat /\ X \in SUBSET Nat
  BY OwnNumbers
<1>2. CASE in'[d] = in[d]
  BY <1>2 DEF Barred
<1>3. ASSUME NEW x \in X,
             /\ DOMAIN in[d] = 1..Len(in[d]) /\ Len(in[d]) \in Nat
             /\ DOMAIN in'[d] = 1..(Len(in[d]) + 1)
             /\ \A i \in DOMAIN in[d] : in'[d][i] = in[d][i]
             /\ in'[d][Len(in[d]) + 1] = x
      PROVE  Barred(d, k)'
  <2>1. \A i \in DOMAIN in'[d] : i \in DOMAIN in[d] \/ i = Len(in[d]) + 1
    BY <1>3
  <2>2. \A i \in DOMAIN in[d] : k # case /\ dev[d].case = case => in[d][i] # CaseIndex[k]
    BY MenuAssumption DEF InputInv, Own, IndicesApart, MultiTypes, TesterTypes
  <2>3. in[d] = <<>> \/ 1 \in DOMAIN in[d]
    BY <1>3 DEF MultiTypes, DeviceTypes
  <2>4. in[d] = <<>> => Len(in[d]) = 0
    OBVIOUS
  <2>5. dev[d].case = k /\ dev[d].st = "sub" => in'[d][1] # d
    BY <2>3, <2>4, <1>3 DEF Barred
  <2>6. ASSUME NEW i \in DOMAIN in'[d], NEW j \in DOMAIN in'[d], j = i + 1, in'[d][i] = CaseIndex[k]
        PROVE  in'[d][j] # d
    <3>1. i \in DOMAIN in[d]
      BY <2>6, <1>3
    <3>2. CASE j \in DOMAIN in[d]
      BY <3>1, <3>2, <2>6, <1>3 DEF Barred
    <3>3. CASE j = Len(in[d]) + 1
      BY <3>1, <3>3, <2>2, <2>6, <1>3
    <3>4. QED
      BY <3>2, <3>3, <2>1
  <2>7. QED
    BY <2>5, <2>6 DEF Barred
<1>4. QED
  BY <1>1, <1>2, <1>3, FedFacts

-----------------------------------------------------------------------------
(* What a step of the firmware does. *)

\* The device reads the index of case k at its menu.
Chooses(d, k) ==
    /\ k \in Case /\ dev[d].st = "menu" /\ in[d] # <<>> /\ in[d][1] = CaseIndex[k]

\* The device that goes to x stays at its case, or begins the one it was told to.
GoesTo(d, x, r) ==
    /\ x \in DeviceType
    /\ x.case = dev[d].case \/ (r /\ x.st = "sub" /\ Chooses(d, x.case))
    /\ x.st \in {"sub", "run", "blocked", "ended"} => x.case # 0
    /\ x.st = "sub" => r /\ Chooses(d, x.case)
    /\ x.st \in {"run", "blocked", "ended"} =>
         /\ x.sub = d /\ x.ip # 0 /\ x.case = dev[d].case
         /\ dev[d].st \in {"run", "blocked", "ended"} \/ (dev[d].st = "sub" /\ in[d] # <<>> /\ in[d][1] = d)
    /\ x.st = "blocked" => x.ip <= Len(Script[x.case][x.sub])

\* What it prints is about its case, and a result is one that it had.
Prints(d, x, ls, es) ==
    /\ ls \in Seq(LineType) /\ es \in Seq(LineType)
    /\ \A i \in DOMAIN ls :
         /\ ls[i].c \in {0, x.case}
         /\ ls[i].t = "result" => ls[i].c # 0 /\ ls[i].v \in Outcomes
         /\ ls[i].t = "result" =>
              \E j \in 1..Len(es) : es[j] = Concluded(ls[i].c, d, ls[i].v)
    /\ \A i \in DOMAIN es :
         /\ es[i].c = x.case
         /\ es[i].t = "result" => dev[d].st = "run" /\ x.case = dev[d].case

DeviceEffect(d) ==
    \E x, ls, es : \E r \in BOOLEAN : Device(d, x, r, ls, es) /\ GoesTo(d, x, r) /\ Prints(d, x, ls, es)

\* What the present step of a script is.
LEMMA StepIsTyped ==
    ASSUME MultiTypes, NEW d \in Dut, dev[d].st \in {"run", "blocked"}, dev[d].ip <= Len(Steps(d))
    PROVE  Steps(d)[dev[d].ip].sig \in Value
<1>1. dev[d].case \in Case /\ dev[d].sub \in Dut /\ dev[d].ip \in Nat \ {0}
  BY DEF MultiTypes, DeviceTypes, DeviceType, Case
<1>2. Steps(d) \in Seq([op : {"send", "wait"}, sig : Signals])
  BY <1>1, MenuAssumption DEF Steps
<1>3. PICK S : S = [op : {"send", "wait"}, sig : Signals]
  OBVIOUS
<1>30. PICK q \in Seq(S) : q = Steps(d)
  BY <1>2, <1>3
<1>4. PICK i \in 1..Len(q) : i = dev[d].ip
  BY <1>1, <1>30
<1>5. q[i] \in S
  OBVIOUS
<1>6. q[i].sig \in Signals
  <2> HIDE DEF Signals
  <2> QED BY <1>3, <1>5
<1>7. QED
  BY <1>30, <1>4, <1>6 DEF Value

LEMMA LineFacts ==
    ASSUME NEW t \in {"ready", "name", "send", "wait", "passed", "result", "end"}, NEW c \in 0..NCase,
           NEW v \in Value
    PROVE  /\ Line(t, c, v) \in LineType /\ Line(t, c, v).t = t /\ Line(t, c, v).c = c /\ Line(t, c, v).v = v
           /\ Ready \in LineType /\ Ready.t = "ready" /\ Ready.c = 0
<1>1. 0 \in 0..NDut /\ 0 \in 0..NCase
  BY SizeAssumption
<1>2. QED
  BY <1>1 DEF Line, Ready, LineType, Value

LEMMA BareLine ==
    ASSUME NEW t \in {"name", "end"}, NEW c \in 0..NCase
    PROVE  Line(t, c, "") \in LineType /\ Line(t, c, "").t = t /\ Line(t, c, "").c = c
<1>1. PICK l : l = Line(t, c, "")
  OBVIOUS
<1>2. l = [t |-> t, c |-> c, i |-> 0, v |-> ""]
  BY <1>1 DEF Line
<1>3. "" \in Value /\ 0 \in 0..NDut
  BY SizeAssumption DEF Value
<1>4. l \in LineType
  BY <1>2, <1>3 DEF LineType
<1>5. l.t = t /\ l.c = c
  BY <1>2
<1>6. QED
  BY <1>1, <1>4, <1>5

LEMMA ConcludedFacts ==
    ASSUME NEW c \in 0..NCase, NEW i \in 0..NDut, NEW r \in Outcomes
    PROVE  /\ Concluded(c, i, r) \in LineType
           /\ Concluded(c, i, r).t = "result" /\ Concluded(c, i, r).c = c
<1>1. PICK l : l = Line("result", c, r)
  OBVIOUS
<1>2. l = [t |-> "result", c |-> c, i |-> 0, v |-> r]
  BY <1>1 DEF Line
<1>3. PICK m : m = [l EXCEPT !.i = i]
  OBVIOUS
<1>4. m = [t |-> "result", c |-> c, i |-> i, v |-> r]
  BY <1>2, <1>3
<1>5. r \in Value
  BY DEF Value
<1>6. m \in LineType /\ m.t = "result" /\ m.c = c
  BY <1>4, <1>5 DEF LineType
<1>7. QED
  BY <1>1, <1>3, <1>6 DEF Concluded

\* The only number of a sub-case that comes to d at the menu of a case is d.
ReadsItsOwn(d) == dev[d].st = "sub" /\ in[d] # <<>> /\ in[d][1] \in Dut => in[d][1] = d

LEMMA ApartMeansOwn ==
    ASSUME MultiTypes, IndicesApart, NEW d \in Dut, InputInv(d)
    PROVE  ReadsItsOwn(d)
<1> SUFFICES ASSUME in[d] # <<>>, in[d][1] \in Dut
             PROVE  in[d][1] = d
  BY DEF ReadsItsOwn
<1>1. in[d] \in Seq(Nat)
  BY DEF MultiTypes, DeviceTypes
<1>2. 1 \in DOMAIN in[d]
  BY <1>1
<1>3. in[d][1] \in {0, d} \/ \E k \in 1..case : in[d][1] = CaseIndex[k]
  BY <1>2 DEF InputInv
<1>4. \A k \in 1..case : k \in Case
  BY SizeAssumption DEF MultiTypes, TesterTypes, Case
<1>5. QED
  BY <1>3, <1>4 DEF IndicesApart, Dut

LEMMA DeviceHasEffect ==
    ASSUME MultiTypes, NEW d \in Dut, ReadsItsOwn(d), Firmware(d) \/ Hang(d)
    PROVE  DeviceEffect(d)
<1>1. PICK o : o = dev[d]
  OBVIOUS
<1>2. o \in DeviceType /\ in[d] \in Seq(Nat) /\ d \in 0..NDut /\ d \in Dut /\ "" \in Value
  BY <1>1 DEF MultiTypes, DeviceTypes, Dut, Value
<1>3. o = [st |-> o.st, case |-> o.case, sub |-> o.sub, ip |-> o.ip]
      /\ o.case \in 0..NCase /\ o.sub \in 0..NDut /\ o.ip \in Nat
  BY <1>2 DEF DeviceType
<1>4. /\ o.st \in {"sub", "run", "blocked", "ended"} => o.case # 0
      /\ o.st \in {"run", "blocked", "ended"} => o.sub = d /\ o.ip # 0
  BY <1>1 DEF MultiTypes, DeviceTypes
<1>5. in[d] # <<>> => Head(in[d]) = in[d][1] /\ 1 \in DOMAIN in[d]
  <2>1. PICK q \in Seq(Nat) : q = in[d]
    BY <1>2
  <2>2. q # <<>> => Head(q) = q[1] /\ 1 \in 1..Len(q) /\ DOMAIN q = 1..Len(q)
    OBVIOUS
  <2>3. QED
    BY <2>1, <2>2
<1>6. <<>> \in Seq(LineType) /\ DOMAIN <<>> = {}
  OBVIOUS
<1>7. ASSUME NEW st \in {"boot", "menu", "sub", "run", "blocked", "ended", "hung"}
      PROVE  /\ [o EXCEPT !.st = st] \in DeviceType
             /\ [o EXCEPT !.st = st].st = st /\ [o EXCEPT !.st = st].case = o.case
             /\ [o EXCEPT !.st = st].sub = o.sub /\ [o EXCEPT !.st = st].ip = o.ip
  BY <1>2 DEF DeviceType
<1>8. ASSUME NEW l \in LineType
      PROVE  <<l>> \in Seq(LineType) /\ DOMAIN <<l>> = {1} /\ <<l>>[1] = l /\ Len(<<l>>) = 1 /\ 1..1 = {1}
  OBVIOUS
<1>9. ASSUME NEW l \in LineType, NEW m \in LineType
      PROVE  <<l, m>> \in Seq(LineType) /\ DOMAIN <<l, m>> = {1, 2} /\ <<l, m>>[1] = l /\ <<l, m>>[2] = m
  OBVIOUS
<1>10. PICK z : z = Ready
  OBVIOUS
<1>11. z \in LineType /\ z.t = "ready" /\ z.c = 0
  BY <1>10, <1>2, <1>3, LineFacts
<1>12. CASE Boot(d)
  <2>1. PICK x : x = [o EXCEPT !.st = "menu"]
    OBVIOUS
  <2>2. Device(d, x, FALSE, <<z>>, <<>>)
    BY <1>1, <1>10, <1>12, <2>1 DEF Boot, AtMenu
  <2>3. GoesTo(d, x, FALSE)
    BY <1>1, <1>7, <2>1 DEF GoesTo
  <2>4. Prints(d, x, <<z>>, <<>>)
    BY <1>6, <1>8, <1>11 DEF Prints
  <2>5. QED
    BY <2>2, <2>3, <2>4 DEF DeviceEffect
<1>13. ASSUME NEW k \in Case, CaseIndex[k] = Head(in[d]), dev[d].st = "menu", in[d] # <<>>,
              Device(d, [st |-> "sub", case |-> k, sub |-> 0, ip |-> 0], TRUE, <<Line("name", k, "")>>, <<>>)
       PROVE  DeviceEffect(d)
  <2>1. PICK x : x = [st |-> "sub", case |-> k, sub |-> 0, ip |-> 0]
    OBVIOUS
  <2>2. x \in DeviceType /\ x.st = "sub" /\ x.case = k /\ k # 0 /\ k \in 0..NCase
    BY <2>1, SizeAssumption DEF DeviceType, Case
  <2>3. PICK l : l = Line("name", k, "")
    OBVIOUS
  <2>4. l \in LineType /\ l.t = "name" /\ l.c = k
    BY <2>2, <2>3, BareLine
  <2>5. Device(d, x, TRUE, <<l>>, <<>>)
    BY <2>1, <2>3, <1>13
  <2>6. GoesTo(d, x, TRUE)
    BY <2>2, <1>5, <1>13 DEF GoesTo, Chooses
  <2>7. Prints(d, x, <<l>>, <<>>)
    BY <2>2, <2>4, <1>6, <1>8 DEF Prints
  <2>8. QED
    BY <2>5, <2>6, <2>7 DEF DeviceEffect
<1>14. CASE dev[d].st = "menu" /\ Device(d, dev[d], TRUE, <<Ready>>, <<>>)
  <2>1. Device(d, o, TRUE, <<z>>, <<>>) /\ o.st = "menu"
    BY <1>1, <1>10, <1>14
  <2>2. GoesTo(d, o, TRUE)
    BY <2>1, <1>1, <1>2 DEF GoesTo
  <2>3. Prints(d, o, <<z>>, <<>>)
    BY <1>6, <1>8, <1>11 DEF Prints
  <2>4. QED
    BY <2>1, <2>2, <2>3 DEF DeviceEffect
<1>15. CASE ReadIndex(d)
  BY <1>13, <1>14, <1>15 DEF ReadIndex
<1>16. CASE ReadSubCase(d)
  <2>1. o.st = "sub" /\ in[d] # <<>>
    BY <1>1, <1>16 DEF ReadSubCase
  <2>2. CASE Head(in[d]) \in Dut
    <3>1. in[d][1] = d
      BY <2>1, <2>2, <1>1, <1>5 DEF ReadsItsOwn
    <3>2. PICK x : x = [[[o EXCEPT !.st = "run"] EXCEPT !.sub = d] EXCEPT !.ip = 1]
      OBVIOUS
    <3>3. x = [st |-> "run", case |-> o.case, sub |-> d, ip |-> 1]
      BY <3>2, <1>3
    <3>4. x = [o EXCEPT !.st = "run", !.sub = d, !.ip = 1]
      BY <3>2
    <3>5. Device(d, x, TRUE, <<>>, <<>>)
      BY <3>1, <3>4, <2>1, <2>2, <1>1, <1>5, <1>16 DEF ReadSubCase
    <3>6. x \in DeviceType /\ x.st = "run" /\ x.sub = d /\ x.ip = 1 /\ x.case = o.case
      BY <3>3, <1>2, <1>3 DEF DeviceType
    <3>7. GoesTo(d, x, TRUE)
      BY <3>1, <3>6, <2>1, <1>1, <1>4 DEF GoesTo
    <3>8. Prints(d, x, <<>>, <<>>)
      BY <1>6 DEF Prints
    <3>9. QED
      BY <3>5, <3>7, <3>8 DEF DeviceEffect
  <2>3. CASE Head(in[d]) \notin Dut
    <3>1. PICK x : x = [o EXCEPT !.st = "menu"]
      OBVIOUS
    <3>2. PICK l : l = Line("end", o.case, "")
      OBVIOUS
    <3>3. l \in LineType /\ l.t = "end" /\ l.c = o.case
      BY <3>2, <1>3, BareLine
    <3>4. Device(d, x, TRUE, <<l, z>>, <<>>)
      BY <3>1, <3>2, <1>1, <1>10, <1>16, <2>3 DEF ReadSubCase, AtMenu
    <3>5. GoesTo(d, x, TRUE)
      BY <3>1, <1>1, <1>7 DEF GoesTo
    <3>6. x.case = o.case
      BY <3>1, <1>7
    <3>7. Prints(d, x, <<l, z>>, <<>>)
      BY <3>3, <3>6, <1>6, <1>9, <1>11 DEF Prints
    <3>8. QED
      BY <3>4, <3>5, <3>7 DEF DeviceEffect
  <2>4. QED
    BY <2>2, <2>3
<1>17. CASE SendSignal(d)
  <2>1. PICK l : l = Line("send", o.case, Steps(d)[o.ip].sig)
    OBVIOUS
  <2>2. o.st = "run" /\ o.ip <= Len(Steps(d))
    BY <1>1, <1>17 DEF SendSignal
  <2>3. l \in LineType /\ l.t = "send" /\ l.c = o.case
    BY <2>1, <2>2, <1>1, <1>3, StepIsTyped, LineFacts
  <2>4. PICK x : x = [o EXCEPT !.ip = @ + 1]
    OBVIOUS
  <2>5. x \in DeviceType /\ x.st = o.st /\ x.case = o.case /\ x.sub = o.sub /\ x.ip = o.ip + 1
    <3>1. x = [st |-> o.st, case |-> o.case, sub |-> o.sub, ip |-> o.ip + 1]
      BY <2>4, <1>3
    <3>2. o.st \in {"boot", "menu", "sub", "run", "blocked", "ended", "hung"}
      BY <1>2 DEF DeviceType
    <3>3. o.ip + 1 \in Nat
      BY <1>3
    <3>4. QED
      BY <3>1, <3>2, <3>3, <1>3 DEF DeviceType
  <2>6. Device(d, x, FALSE, <<l>>, <<l>>)
    BY <2>1, <2>4, <1>1, <1>17 DEF SendSignal
  <2>7. GoesTo(d, x, FALSE)
    <3>1. x \in DeviceType /\ x.st = "run" /\ dev[d].st = "run" /\ x.ip # 0
      BY <2>2, <2>5, <1>1, <1>3
    <3>2. x.case = dev[d].case /\ x.case # 0 /\ x.sub = d
      BY <2>2, <2>5, <1>1, <1>4
    <3>3. QED
      BY <3>1, <3>2 DEF GoesTo
  <2>8. Prints(d, x, <<l>>, <<l>>)
    BY <2>3, <2>5, <1>1, <1>8 DEF Prints
  <2>9. QED
    BY <2>6, <2>7, <2>8 DEF DeviceEffect
<1>18. CASE WaitForSignal(d)
  <2>1. PICK l : l = Line("wait", o.case, Steps(d)[o.ip].sig)
    OBVIOUS
  <2>2. o.st = "run" /\ o.ip <= Len(Steps(d))
    BY <1>1, <1>18 DEF WaitForSignal
  <2>3. l \in LineType /\ l.t = "wait" /\ l.c = o.case
    BY <2>1, <2>2, <1>1, <1>3, StepIsTyped, LineFacts
  <2>4. PICK x : x = [o EXCEPT !.st = "blocked"]
    OBVIOUS
  <2>5. Device(d, x, FALSE, <<l>>, <<>>)
    BY <2>1, <2>4, <1>1, <1>18 DEF WaitForSignal
  <2>6. GoesTo(d, x, FALSE)
    <3>1. x \in DeviceType /\ x.st = "blocked" /\ dev[d].st = "run" /\ x.ip = o.ip /\ o.ip # 0
      BY <2>2, <2>4, <1>1, <1>4, <1>7
    <3>2. x.case = dev[d].case /\ x.case # 0 /\ x.sub = d /\ x.sub = dev[d].sub
      BY <2>2, <2>4, <1>1, <1>4, <1>7
    <3>3. QED
      BY <3>1, <3>2, <2>2 DEF GoesTo, Steps
  <2>7. x.case = o.case
    BY <2>4, <1>7
  <2>8. Prints(d, x, <<l>>, <<>>)
    BY <2>3, <2>7, <1>6, <1>8 DEF Prints
  <2>9. QED
    BY <2>5, <2>6, <2>8 DEF DeviceEffect
<1>19. CASE Released(d)
  <2>1. PICK l : l = Line("passed", o.case, Steps(d)[o.ip].sig)
    OBVIOUS
  <2>2. o.st = "blocked" /\ o.ip <= Len(Steps(d))
    BY <1>1, <1>19 DEF Released, MultiTypes, DeviceTypes, Steps
  <2>3. l \in LineType /\ l.t = "passed" /\ l.c = o.case
    BY <2>1, <2>2, <1>1, <1>3, StepIsTyped, LineFacts
  <2>4. PICK x : x = [[o EXCEPT !.st = "run"] EXCEPT !.ip = o.ip + 1]
    OBVIOUS
  <2>5. x = [st |-> "run", case |-> o.case, sub |-> o.sub, ip |-> o.ip + 1]
    BY <2>4, <1>3
  <2>6. x = [o EXCEPT !.st = "run", !.ip = @ + 1]
    BY <2>4
  <2>7. x \in DeviceType /\ x.st = "run" /\ x.case = o.case /\ x.sub = o.sub /\ x.ip = o.ip + 1
    BY <2>5, <1>3 DEF DeviceType
  <2>8. Device(d, x, TRUE, <<>>, <<l>>)
    BY <2>1, <2>6, <1>1, <1>19 DEF Released
  <2>9. GoesTo(d, x, TRUE)
    BY <2>2, <2>7, <1>1, <1>3, <1>4 DEF GoesTo
  <2>10. Prints(d, x, <<>>, <<l>>)
    BY <2>3, <2>7, <1>6, <1>8 DEF Prints
  <2>11. QED
    BY <2>8, <2>9, <2>10 DEF DeviceEffect
<1>20. ASSUME NEW r \in Outcomes, dev[d].st = "run",
              Device(d, [dev[d] EXCEPT !.st = "ended"], FALSE, <<Line("result", dev[d].case, r)>>,
                     <<Concluded(dev[d].case, dev[d].sub, r)>>)
       PROVE  DeviceEffect(d)
  <2>1. PICK l : l = Line("result", o.case, r)
    OBVIOUS
  <2>2. PICK e : e = Concluded(o.case, o.sub, r)
    OBVIOUS
  <2>3. l \in LineType /\ l.t = "result" /\ l.c = o.case /\ l.v = r
    <3>1. l = [t |-> "result", c |-> o.case, i |-> 0, v |-> r]
      BY <2>1 DEF Line
    <3>2. r \in Value
      BY DEF Value
    <3>3. 0 \in 0..NDut
      BY SizeAssumption
    <3>4. QED
      BY <3>1, <3>2, <3>3, <1>3 DEF LineType
  <2>4. e \in LineType /\ e.t = "result" /\ e.c = o.case
    BY <2>2, <1>3, ConcludedFacts
  <2>5. o.sub = d /\ o.case # 0 /\ o.st = "run" /\ o.ip # 0
    BY <1>1, <1>4, <1>20
  <2>6. e = Concluded(l.c, d, l.v)
    BY <2>2, <2>3, <2>5
  <2>7. PICK x : x = [o EXCEPT !.st = "ended"]
    OBVIOUS
  <2>8. Device(d, x, FALSE, <<l>>, <<e>>)
    BY <2>1, <2>2, <2>7, <1>1, <1>20
  <2>9. GoesTo(d, x, FALSE)
    BY <2>5, <2>7, <1>1, <1>7 DEF GoesTo
  <2>10. x.case = o.case
    BY <2>7, <1>7
  <2>11. Prints(d, x, <<l>>, <<e>>)
    BY <2>3, <2>4, <2>5, <2>6, <2>10, <1>1, <1>8 DEF Prints
  <2>12. QED
    BY <2>8, <2>9, <2>11 DEF DeviceEffect
<1>21. CASE Conclude(d)
  BY <1>20, <1>21 DEF Conclude
<1>22. CASE Summary(d)
  <2>1. PICK x : x = [o EXCEPT !.st = "menu"]
    OBVIOUS
  <2>2. PICK l : l = Line("end", o.case, "")
    OBVIOUS
  <2>3. l \in LineType /\ l.t = "end" /\ l.c = o.case
    BY <2>2, <1>3, BareLine
  <2>4. Device(d, x, FALSE, <<l, z>>, <<l>>)
    BY <2>1, <2>2, <1>1, <1>10, <1>22 DEF Summary, AtMenu
  <2>5. GoesTo(d, x, FALSE)
    BY <2>1, <1>1, <1>7 DEF GoesTo
  <2>6. x.case = o.case
    BY <2>1, <1>7
  <2>7. Prints(d, x, <<l, z>>, <<l>>)
    BY <2>3, <2>6, <1>8, <1>9, <1>11 DEF Prints
  <2>8. QED
    BY <2>4, <2>5, <2>7 DEF DeviceEffect
<1>23. CASE Hang(d)
  <2>1. PICK x : x = [o EXCEPT !.st = "hung"]
    OBVIOUS
  <2>2. Device(d, x, FALSE, <<>>, <<>>)
    BY <2>1, <1>1, <1>23 DEF Hang
  <2>3. GoesTo(d, x, FALSE)
    BY <2>1, <1>1, <1>7 DEF GoesTo
  <2>4. Prints(d, x, <<>>, <<>>)
    BY <1>6 DEF Prints
  <2>5. QED
    BY <2>2, <2>3, <2>4 DEF DeviceEffect
<1>24. QED
  BY <1>12, <1>15, <1>16, <1>17, <1>18, <1>19, <1>21, <1>22, <1>23 DEF Firmware

\* The lines of d after a step of the firmware, and everything else as it was.
LEMMA DeviceFacts ==
    ASSUME MultiTypes, NEW d \in Dut, NEW x \in DeviceType, NEW r \in BOOLEAN, NEW ls \in Seq(LineType), NEW es \in Seq(LineType),
           Device(d, x, r, ls, es)
    PROVE  /\ dev' \in [Dut -> DeviceType] /\ in' \in [Dut -> Seq(Nat)]
           /\ out' \in [Dut -> Seq(LineType)] /\ did' \in [Dut -> Seq(LineType)]
           /\ dev'[d] = x
           /\ \A e \in Dut : e # d => dev'[e] = dev[e] /\ in'[e] = in[e] /\ out'[e] = out[e] /\ did'[e] = did[e]
           /\ ~r => in'[d] = in[d]
           /\ r => 1 \in DOMAIN in[d] /\ \A i \in DOMAIN in'[d] : i + 1 \in DOMAIN in[d] /\ in'[d][i] = in[d][i + 1]
           /\ \A i \in DOMAIN out'[d] :
                \/ i \in DOMAIN out[d] /\ out'[d][i] = out[d][i]
                \/ i > Len(out[d]) /\ \E j \in DOMAIN ls : out'[d][i] = ls[j]
           /\ \A i \in DOMAIN did'[d] :
                (i \in DOMAIN did[d] /\ did'[d][i] = did[d][i]) \/ \E j \in DOMAIN es : did'[d][i] = es[j]
           /\ \A i \in DOMAIN did[d] : i \in DOMAIN did'[d] /\ did'[d][i] = did[d][i]
           /\ \A j \in DOMAIN es : \E i \in DOMAIN did'[d] : did'[d][i] = es[j]
<1>1. /\ dev \in [Dut -> DeviceType] /\ in \in [Dut -> Seq(Nat)]
      /\ out \in [Dut -> Seq(LineType)] /\ did \in [Dut -> Seq(LineType)]
  BY DEF MultiTypes, DeviceTypes
<1>2. /\ dev' = [dev EXCEPT ![d] = x]
      /\ r => in[d] # <<>>
      /\ in' = IF r THEN [in EXCEPT ![d] = Tail(in[d])] ELSE in
      /\ out' = [out EXCEPT ![d] = out[d] \o ls]
      /\ did' = [did EXCEPT ![d] = did[d] \o es]
  BY DEF Device
<1>3. PICK q \in Seq(LineType) : q = out[d]
  BY <1>1
<1>4. PICK h \in Seq(LineType) : h = did[d]
  BY <1>1
<1>5. PICK n \in Seq(Nat) : n = in[d]
  BY <1>1
<1>6. PICK o : o = q \o ls
  OBVIOUS
<1>7. /\ o \in Seq(LineType) /\ Len(o) = Len(q) + Len(ls)
      /\ \A i \in 1..Len(q) : o[i] = q[i]
      /\ \A i \in 1..Len(o) : i > Len(q) => i - Len(q) \in 1..Len(ls) /\ o[i] = ls[i - Len(q)]
  BY <1>6, ConcatFacts
<1>8. PICK g : g = h \o es
  OBVIOUS
<1>9. /\ g \in Seq(LineType) /\ Len(g) = Len(h) + Len(es)
      /\ \A i \in 1..Len(h) : g[i] = h[i]
      /\ \A i \in 1..Len(g) : i > Len(h) => i - Len(h) \in 1..Len(es) /\ g[i] = es[i - Len(h)]
  BY <1>8, ConcatFacts
<1>10. /\ Len(q) \in Nat /\ Len(ls) \in Nat /\ Len(h) \in Nat /\ Len(es) \in Nat
       /\ DOMAIN q = 1..Len(q) /\ DOMAIN ls = 1..Len(ls) /\ DOMAIN h = 1..Len(h) /\ DOMAIN es = 1..Len(es)
       /\ DOMAIN o = 1..Len(o) /\ DOMAIN g = 1..Len(g) /\ DOMAIN n = 1..Len(n) /\ Len(n) \in Nat
  BY <1>7, <1>9
<1>11. out' = [out EXCEPT ![d] = o] /\ did' = [did EXCEPT ![d] = g]
  BY <1>2, <1>3, <1>4, <1>6, <1>8
<1>12. out'[d] = o /\ did'[d] = g
  BY <1>1, <1>11
<1>13. dev' \in [Dut -> DeviceType] /\ out' \in [Dut -> Seq(LineType)] /\ did' \in [Dut -> Seq(LineType)]
  BY <1>1, <1>2, <1>7, <1>9, <1>11
<1>14. dev'[d] = x /\ \A e \in Dut : e # d => dev'[e] = dev[e] /\ out'[e] = out[e] /\ did'[e] = did[e]
  BY <1>1, <1>2
<1>15. /\ in' \in [Dut -> Seq(Nat)] /\ (~r => in'[d] = in[d])
       /\ \A e \in Dut : e # d => in'[e] = in[e]
       /\ r => 1 \in DOMAIN n /\ \A i \in DOMAIN in'[d] : i + 1 \in DOMAIN n /\ in'[d][i] = n[i + 1]
  <2>1. CASE r
    <3>1. n # <<>> /\ in' = [in EXCEPT ![d] = Tail(n)]
      BY <2>1, <1>2, <1>5
    <3>2. /\ Tail(n) \in Seq(Nat) /\ DOMAIN Tail(n) = 1..Len(Tail(n)) /\ Len(Tail(n)) = Len(n) - 1 /\ Len(n) > 0
          /\ \A i \in 1..Len(Tail(n)) : Tail(n)[i] = n[i + 1]
      BY <3>1
    <3>3. in'[d] = Tail(n)
      BY <3>1, <1>1
    <3>4. \A i \in 1..Len(Tail(n)) : i + 1 \in DOMAIN n
      BY <3>2, <1>10
    <3>5. in' \in [Dut -> Seq(Nat)] /\ \A e \in Dut : e # d => in'[e] = in[e]
      BY <3>1, <3>2, <1>1
    <3>6. 1 \in DOMAIN n
      BY <3>2, <1>10
    <3>7. \A i \in DOMAIN in'[d] : i + 1 \in DOMAIN n /\ in'[d][i] = n[i + 1]
      BY <3>2, <3>3, <3>4
    <3>8. QED
      BY <2>1, <3>5, <3>6, <3>7
  <2>2. CASE ~r
    BY <2>2, <1>1, <1>2
  <2>3. QED
    BY <2>1, <2>2
<1>16. ASSUME NEW i \in DOMAIN o
       PROVE  (i \in DOMAIN q /\ o[i] = q[i]) \/ (i > Len(q) /\ \E j \in DOMAIN ls : o[i] = ls[j])
  <2>1. i \in 1..Len(o) /\ i \in Nat
    BY <1>10
  <2>2. CASE i <= Len(q)
    BY <2>1, <2>2, <1>7, <1>10
  <2>3. CASE i > Len(q)
    BY <2>1, <2>3, <1>7, <1>10
  <2>4. QED
    BY <2>1, <2>2, <2>3, <1>10
<1>17. ASSUME NEW i \in DOMAIN g
       PROVE  (i \in DOMAIN h /\ g[i] = h[i]) \/ \E j \in DOMAIN es : g[i] = es[j]
  <2>1. i \in 1..Len(g) /\ i \in Nat
    BY <1>10
  <2>2. CASE i <= Len(h)
    BY <2>1, <2>2, <1>9, <1>10
  <2>3. CASE i > Len(h)
    BY <2>1, <2>3, <1>9, <1>10
  <2>4. QED
    BY <2>1, <2>2, <2>3, <1>10
<1>18. \A i \in DOMAIN h : i \in DOMAIN g /\ g[i] = h[i]
  BY <1>9, <1>10
<1>19. ASSUME NEW j \in DOMAIN es
       PROVE  \E i \in DOMAIN g : g[i] = es[j]
  <2>1. PICK i : i = Len(h) + j
    OBVIOUS
  <2>2. i \in 1..Len(g) /\ i > Len(h) /\ i - Len(h) = j
    BY <2>1, <1>9, <1>10
  <2>3. QED
    BY <2>2, <1>9, <1>10
<1>20. QED
  BY <1>3, <1>4, <1>5, <1>12, <1>13, <1>14, <1>15, <1>16, <1>17, <1>18, <1>19

\* What a device has done stays done.
LEMMA DeedsStay ==
    ASSUME MultiTypes, did' \in [Dut -> Seq(LineType)], NEW d \in Dut, NEW l, Did(d, l),
           \A i \in DOMAIN did[d] : i \in DOMAIN did'[d] /\ did'[d][i] = did[d][i]
    PROVE  Did(d, l)'
<1>1. did[d] \in Seq(LineType) /\ did'[d] \in Seq(LineType)
  BY DEF MultiTypes, DeviceTypes
<1>2. DOMAIN did[d] = 1..Len(did[d]) /\ DOMAIN did'[d] = 1..Len(did'[d])
  BY <1>1
<1>3. QED
  BY <1>2 DEF Did, Contains

\* The case a device goes to is one that has begun; from the present case it does not leave.
LEMMA CaseFacts ==
    ASSUME MultiTypes, IndicesApart, NEW d \in Dut, InputInv(d), NEW x, NEW r \in BOOLEAN, GoesTo(d, x, r)
    PROVE  /\ x.case <= case
           /\ dev[d].case = case => x.case = case
           /\ x.case = case /\ dev[d].case # case => r /\ Chooses(d, case)
<1>1. case \in Case /\ dev[d].case \in Nat /\ case \in Nat /\ case # 0
  BY DEF MultiTypes, TesterTypes, DeviceTypes, DeviceType, Case
<1>2. CASE x.case = dev[d].case
  BY <1>1, <1>2 DEF InputInv
<1>3. CASE r /\ Chooses(d, x.case)
  <2>1. PICK k \in Case : k = x.case
    BY <1>3 DEF Chooses
  <2>2. in[d][1] = CaseIndex[k] /\ 1 \in DOMAIN in[d]
    <3>1. in[d] \in Seq(Nat) /\ in[d] # <<>>
      BY <1>3 DEF Chooses, MultiTypes, DeviceTypes
    <3>2. 1 \in DOMAIN in[d]
      BY <3>1
    <3>3. QED
      BY <3>2, <1>3, <2>1 DEF Chooses
  <2>3. CaseIndex[k] # 0 /\ CaseIndex[k] # d
    BY MenuAssumption DEF IndicesApart
  <2>4. k <= case
    <3>1. PICK j \in 1..case : in[d][1] = CaseIndex[j]
      BY <2>2, <2>3 DEF InputInv
    <3>2. j \in Case
      BY SizeAssumption, <1>1 DEF Case
    <3>3. j = k
      BY <3>1, <3>2, <2>2, MenuAssumption
    <3>4. QED
      BY <3>1, <3>3, <1>1
  <2>5. dev[d].case = case => k = case
    BY <1>1, <2>2, <2>3, MenuAssumption DEF InputInv, Own
  <2>6. QED
    BY <1>3, <2>1, <2>4, <2>5
<1>4. QED
  BY <1>2, <1>3 DEF GoesTo

\* A step of the firmware keeps what was said about the lines of the device.
LEMMA StepKeepsLane ==
    ASSUME MultiTypes, IndicesApart, NEW d \in Dut, InputInv(d), OutputInv(d),
           NEW x, NEW r \in BOOLEAN, NEW ls, NEW es, Device(d, x, r, ls, es), GoesTo(d, x, r), Prints(d, x, ls, es)
    PROVE  /\ InputInv(d)' /\ OutputInv(d)'
           /\ dev[d].case = case /\ (\A i \in DOMAIN out[d] : out[d][i].c \in {0, case})
                => dev'[d].case = case /\ \A i \in DOMAIN out'[d] : out'[d][i].c \in {0, case}
<1>1. x \in DeviceType /\ ls \in Seq(LineType) /\ es \in Seq(LineType)
  BY DEF GoesTo, Prints
<1>2. /\ dev'[d] = x /\ (~r => in'[d] = in[d])
      /\ r => 1 \in DOMAIN in[d] /\ \A i \in DOMAIN in'[d] : i + 1 \in DOMAIN in[d] /\ in'[d][i] = in[d][i + 1]
      /\ \A i \in DOMAIN out'[d] :
           \/ i \in DOMAIN out[d] /\ out'[d][i] = out[d][i]
           \/ i > Len(out[d]) /\ \E j \in DOMAIN ls : out'[d][i] = ls[j]
      /\ \A i \in DOMAIN did'[d] :
           (i \in DOMAIN did[d] /\ did'[d][i] = did[d][i]) \/ \E j \in DOMAIN es : did'[d][i] = es[j]
  BY <1>1, DeviceFacts
<1>3. /\ did' \in [Dut -> Seq(LineType)] /\ out' \in [Dut -> Seq(LineType)] /\ in' \in [Dut -> Seq(Nat)]
      /\ \A i \in DOMAIN did[d] : i \in DOMAIN did'[d] /\ did'[d][i] = did[d][i]
      /\ \A j \in DOMAIN es : \E i \in DOMAIN did'[d] : did'[d][i] = es[j]
  BY <1>1, DeviceFacts
<1>4. /\ x.case <= case
      /\ dev[d].case = case => x.case = case
      /\ x.case = case /\ dev[d].case # case => r /\ Chooses(d, case)
  BY CaseFacts
<1>5. /\ case' = case /\ case \in Case /\ case \in Nat /\ case # 0 /\ x.case \in Nat
      /\ in[d] \in Seq(Nat) /\ out[d] \in Seq(LineType) /\ did[d] \in Seq(LineType)
  BY <1>1 DEF Device, MultiTypes, TesterTypes, DeviceTypes, DeviceType, Case
<1>6. /\ DOMAIN in[d] = 1..Len(in[d]) /\ DOMAIN out[d] = 1..Len(out[d]) /\ Len(out[d]) \in Nat
      /\ DOMAIN in'[d] = 1..Len(in'[d]) /\ DOMAIN out'[d] = 1..Len(out'[d]) /\ DOMAIN did'[d] = 1..Len(did'[d])
      /\ DOMAIN es = 1..Len(es)
  BY <1>1, <1>3, <1>5
<1>7. InputInv(d)'
  <2>1. CASE ~r
    <3>1. in'[d] = in[d] /\ x.case = case => dev[d].case = case
      BY <2>1, <1>2, <1>4
    <3>2. in'[d] = in[d]
      BY <2>1, <1>2
    <3>3. x.case = case => dev[d].case = case
      BY <2>1, <1>4
    <3>4. QED
      BY <3>2, <3>3, <1>2, <1>4, <1>5 DEF InputInv, Own
  <2>2. CASE r
    <3>1. 1 \in DOMAIN in[d] /\ \A i \in DOMAIN in'[d] : i + 1 \in DOMAIN in[d] /\ in'[d][i] = in[d][i + 1] /\ i \in Nat /\ 1 < i + 1
      BY <2>2, <1>2, <1>6
    <3>2. \A i, j \in DOMAIN in'[d] : i < j => i + 1 < j + 1
      BY <3>1
    <3>3. \A i \in DOMAIN in'[d] : in'[d][i] \in {0, d} \/ \E k \in 1..case : in'[d][i] = CaseIndex[k]
      BY <3>1 DEF InputInv
    <3>4. \A i, j \in DOMAIN in'[d] : i < j /\ in'[d][i] = CaseIndex[case] => in'[d][j] \in Own(d)
      BY <3>1, <3>2 DEF InputInv
    <3>5. x.case = case => \A i \in DOMAIN in'[d] : in'[d][i] \in Own(d)
      <4>1. CASE dev[d].case = case
        BY <4>1, <3>1 DEF InputInv
      <4>2. CASE x.case = case /\ dev[d].case # case
        <5>1. in[d][1] = CaseIndex[case]
          BY <4>2, <1>4 DEF Chooses
        <5>2. QED
          BY <5>1, <3>1 DEF InputInv
      <4>3. QED
        BY <4>1, <4>2
    <3>6. QED
      BY <3>3, <3>4, <3>5, <1>2, <1>4, <1>5 DEF InputInv, Own
  <2>3. QED
    BY <2>1, <2>2
<1>8. \A l : Contains(did[d], l) => Contains(did'[d], l)
  BY <1>3, DeedsStay DEF Did
<1>9. ASSUME NEW i \in DOMAIN out'[d]
      PROVE  /\ out'[d][i].c <= case
             /\ out'[d][i].c = case => x.case = case
             /\ out'[d][i].t = "result" => Contains(did'[d], Concluded(out'[d][i].c, d, out'[d][i].v))
  <2>1. CASE i \in DOMAIN out[d] /\ out'[d][i] = out[d][i]
    <3>1. PICK c : c = out[d][i].c
      OBVIOUS
    <3>2. /\ c <= case /\ (c = case => dev[d].case = case)
          /\ out[d][i].t = "result" => Contains(did[d], Concluded(c, d, out[d][i].v))
      BY <3>1, <2>1 DEF OutputInv, Did
    <3>3. QED
      BY <3>1, <3>2, <2>1, <1>4, <1>8
  <2>2. ASSUME NEW j \in DOMAIN ls, out'[d][i] = ls[j]
        PROVE  /\ ls[j].c <= case
               /\ ls[j].c = case => x.case = case
               /\ ls[j].t = "result" => Contains(did'[d], Concluded(ls[j].c, d, ls[j].v))
    <3>1. ls[j].c \in {0, x.case}
      BY DEF Prints
    <3>2. ASSUME ls[j].t = "result"
          PROVE  Contains(did'[d], Concluded(ls[j].c, d, ls[j].v))
      <4>1. PICK l : l = Concluded(ls[j].c, d, ls[j].v)
        OBVIOUS
      <4>2. \E k \in DOMAIN es : es[k] = l
        BY <3>2, <4>1, <1>6 DEF Prints
      <4>3. \E k \in 1..Len(did'[d]) : did'[d][k] = l
        BY <4>2, <1>3, <1>6
      <4>4. Contains(did'[d], l)
        BY <4>3 DEF Contains
      <4>5. QED
        BY <4>1, <4>4
    <3>3. QED
      BY <3>1, <3>2, <1>4, <1>5
  <2>3. QED
    BY <2>1, <2>2, <1>2
<1>10. ASSUME NEW i \in DOMAIN out'[d], NEW j \in DOMAIN out'[d], i < j, out'[d][i].c = case
       PROVE  out'[d][j].c \in {0, case}
  <2>1. x.case = case
    BY <1>9, <1>10
  <2>2. CASE \E k \in DOMAIN ls : out'[d][j] = ls[k]
    BY <2>1, <2>2 DEF Prints
  <2>3. CASE i \in DOMAIN out[d] /\ out'[d][i] = out[d][i] /\ j \in DOMAIN out[d] /\ out'[d][j] = out[d][j]
    BY <2>3, <1>10 DEF OutputInv
  <2>4. CASE i > Len(out[d]) /\ j \in DOMAIN out[d]
    BY <2>4, <1>6, <1>10
  <2>5. QED
    BY <2>2, <2>3, <2>4, <1>2
<1>11. \A i \in DOMAIN did'[d] : did'[d][i].c <= case
  BY <1>2, <1>4 DEF OutputInv, Prints
<1>12. OutputInv(d)'
  BY <1>2, <1>5, <1>9, <1>10, <1>11 DEF OutputInv, Did
<1>13. dev[d].case = case /\ (\A i \in DOMAIN out[d] : out[d][i].c \in {0, case})
          => dev'[d].case = case /\ \A i \in DOMAIN out'[d] : out'[d][i].c \in {0, case}
  BY <1>2, <1>4 DEF Prints
<1>14. QED
  BY <1>7, <1>12, <1>13

\* A step of the firmware leaves the device barred from the cases it is barred from.
LEMMA StepKeepsBarred ==
    ASSUME MultiTypes, NEW d \in Dut, NEW k \in Case, Barred(d, k),
           NEW x, NEW r \in BOOLEAN, NEW ls, NEW es, Device(d, x, r, ls, es), GoesTo(d, x, r), Prints(d, x, ls, es)
    PROVE  Barred(d, k)'
<1>1. x \in DeviceType /\ ls \in Seq(LineType) /\ es \in Seq(LineType)
  BY DEF GoesTo, Prints
<1>2. /\ dev'[d] = x /\ (~r => in'[d] = in[d])
      /\ r => 1 \in DOMAIN in[d] /\ \A i \in DOMAIN in'[d] : i + 1 \in DOMAIN in[d] /\ in'[d][i] = in[d][i + 1]
      /\ \A i \in DOMAIN did'[d] :
           (i \in DOMAIN did[d] /\ did'[d][i] = did[d][i]) \/ \E j \in DOMAIN es : did'[d][i] = es[j]
      /\ in' \in [Dut -> Seq(Nat)]
  BY <1>1, DeviceFacts
<1>3. DOMAIN in'[d] = 1..Len(in'[d]) /\ (in'[d] # <<>> => 1 \in DOMAIN in'[d])
  BY <1>2
<1>4. \A i \in DOMAIN did'[d] : ~(did'[d][i].t = "result" /\ did'[d][i].c = k)
  BY <1>2 DEF Barred, Prints
<1>5. x.case = k => x.st \notin {"run", "blocked", "ended"}
  BY DEF Barred, GoesTo
<1>6. ASSUME x.case = k, x.st = "sub", in'[d] # <<>>
      PROVE  in'[d][1] # d
  <2>1. r /\ in[d][1] = CaseIndex[k]
    BY <1>6 DEF GoesTo, Chooses
  <2>2. 1 \in DOMAIN in[d] /\ 1 + 1 \in DOMAIN in[d] /\ in'[d][1] = in[d][1 + 1]
    BY <2>1, <1>2, <1>3, <1>6
  <2>3. QED
    BY <2>1, <2>2 DEF Barred
<1>7. ASSUME NEW i \in DOMAIN in'[d], NEW j \in DOMAIN in'[d], j = i + 1, in'[d][i] = CaseIndex[k]
      PROVE  in'[d][j] # d
  <2>1. CASE ~r
    BY <2>1, <1>2, <1>7 DEF Barred
  <2>2. CASE r
    <3>1. i + 1 \in DOMAIN in[d] /\ in'[d][i] = in[d][i + 1] /\ j + 1 \in DOMAIN in[d] /\ in'[d][j] = in[d][j + 1]
      BY <2>2, <1>2
    <3>2. j + 1 = (i + 1) + 1
      BY <1>7
    <3>3. QED
      BY <3>1, <3>2, <1>7 DEF Barred
  <2>3. QED
    BY <2>1, <2>2
<1>8. QED
  BY <1>2, <1>4, <1>5, <1>6, <1>7 DEF Barred

LEMMA StepKeepsTypes ==
    ASSUME MultiTypes, NEW d \in Dut,
           NEW x, NEW r \in BOOLEAN, NEW ls, NEW es, Device(d, x, r, ls, es), GoesTo(d, x, r), Prints(d, x, ls, es)
    PROVE  MultiTypes'
<1>1. x \in DeviceType /\ ls \in Seq(LineType) /\ es \in Seq(LineType)
  BY DEF GoesTo, Prints
<1>2. /\ dev' \in [Dut -> DeviceType] /\ in' \in [Dut -> Seq(Nat)]
      /\ out' \in [Dut -> Seq(LineType)] /\ did' \in [Dut -> Seq(LineType)]
      /\ dev'[d] = x
      /\ \A e \in Dut : e # d => dev'[e] = dev[e] /\ in'[e] = in[e] /\ out'[e] = out[e] /\ did'[e] = did[e]
      /\ \A i \in DOMAIN out'[d] :
           \/ i \in DOMAIN out[d] /\ out'[d][i] = out[d][i]
           \/ i > Len(out[d]) /\ \E j \in DOMAIN ls : out'[d][i] = ls[j]
  BY <1>1, DeviceFacts
<1>3. TesterTypes'
  BY DEF MultiTypes, TesterTypes, Device, workerVars
<1>4. QueueTypes'
  BY DEF MultiTypes, QueueTypes, Device
<1>5. ASSUME NEW e \in Dut, NEW i \in DOMAIN out'[e], out'[e][i].t = "result"
      PROVE  out'[e][i].c # 0 /\ out'[e][i].v \in Outcomes
  <2>1. CASE e # d
    BY <2>1, <1>2, <1>5 DEF MultiTypes, DeviceTypes
  <2>2. CASE e = d
    <3>1. CASE i \in DOMAIN out[d] /\ out'[d][i] = out[d][i]
      BY <3>1, <2>2, <1>5 DEF MultiTypes, DeviceTypes
    <3>2. CASE \E j \in DOMAIN ls : out'[d][i] = ls[j]
      BY <3>2, <2>2, <1>5 DEF Prints
    <3>3. QED
      BY <3>1, <3>2, <2>2, <1>2
  <2>3. QED
    BY <2>1, <2>2
<1>6. ASSUME NEW e \in Dut
      PROVE  /\ dev'[e].st \in {"sub", "run", "blocked", "ended"} => dev'[e].case # 0
             /\ dev'[e].st \in {"run", "blocked", "ended"} => dev'[e].sub = e /\ dev'[e].ip # 0
             /\ dev'[e].st = "blocked" => dev'[e].ip <= Len(Script[dev'[e].case][dev'[e].sub])
  <2>1. CASE e # d
    BY <2>1, <1>2 DEF MultiTypes, DeviceTypes
  <2>2. CASE e = d
    BY <2>2, <1>2 DEF GoesTo
  <2>3. QED
    BY <2>1, <2>2
<1>7. DeviceTypes'
  BY <1>2, <1>5, <1>6 DEF DeviceTypes
<1>8. QED
  BY <1>3, <1>4, <1>7 DEF MultiTypes

-----------------------------------------------------------------------------
(* A turn of a worker. *)

\* What is said about a device holds as long as its lines and its worker do not change.
LEMMA SameLane ==
    ASSUME NEW d \in Dut, UNCHANGED <<case, dev[d], in[d], out[d], did[d], wpc[d], data[d]>>
    PROVE  /\ InputInv(d) => InputInv(d)'
           /\ OutputInv(d) => OutputInv(d)'
           /\ WorkerInv(d) => WorkerInv(d)'
           /\ \A k \in Case : Barred(d, k) => Barred(d, k)'
<1>1. \A k \in Case : Barred(d, k) => Barred(d, k)'
  BY DEF Barred
<1>2. InputInv(d) => InputInv(d)'
  BY DEF InputInv, Own
<1>3. OutputInv(d) => OutputInv(d)'
  BY DEF OutputInv, Did
<1>4. Barred(d, case) => Barred(d, case)'
  BY DEF Barred
<1>5. WorkerInv(d) => WorkerInv(d)'
  BY <1>4 DEF WorkerInv, Did
<1>6. QED
  BY <1>1, <1>2, <1>3, <1>5

\* Whatever the turn, output is taken out and a number of the case may be written.
LEMMA EffectOnLines ==
    ASSUME MultiTypes, NEW d \in Dut, WorkerEffect(d)
    PROVE  Shift(d) /\ \E X \in SUBSET Own(d) : Fed(d, X)
<1>1. case \in Case /\ DOMAIN out[d] \in SUBSET Nat
  <2>1. out[d] \in Seq(LineType)
    BY DEF MultiTypes, DeviceTypes
  <2>2. QED
    BY <2>1 DEF MultiTypes, TesterTypes
<1>2. CASE Starting(d)
  BY <1>2 DEF Starting, Own
<1>3. CASE Started(d)
  BY <1>1, <1>3 DEF Started, Shift, Own
<1>4. CASE Proceeding(d)
  BY <1>4 DEF Proceeding, Own
<1>5. CASE UNCHANGED <<wpc, data, in, out>>
  BY <1>5 DEF Shift, Fed
<1>6. QED
  BY <1>2, <1>3, <1>4, <1>5 DEF WorkerEffect

LEMMA TurnKeepsWorker ==
    ASSUME MultiTypes, IndicesApart, NEW d \in Dut, WorkerEffect(d), InputInv(d), OutputInv(d), WorkerInv(d)
    PROVE  /\ InputInv(d)' /\ OutputInv(d)' /\ WorkerInv(d)'
           /\ \A k \in Case : k # case /\ Barred(d, k) => Barred(d, k)'
<1>1. /\ case \in Case /\ d \in Nat /\ d # 0 /\ CaseIndex[case] # d /\ UNCHANGED <<case, dev, did>>
      /\ data[d] \in {"none", "PRE_RUN_FAILURE"} \cup Outcomes
  BY SizeAssumption DEF IndicesApart, MultiTypes, TesterTypes, WorkerEffect, Dut
<1>2. Shift(d)
  BY EffectOnLines
<1>3. InputInv(d)' /\ OutputInv(d)'
  <2>1. PICK X \in SUBSET Own(d) : Fed(d, X)
    BY EffectOnLines
  <2>2. QED
    BY <2>1, <1>1, <1>2, TurnKeepsLane
<1>4. CASE Starting(d)
  <2>1. PICK X \in SUBSET Own(d) : X = {CaseIndex[case]}
    BY DEF Own
  <2>2. Fed(d, X) /\ d \notin X
    BY <2>1, <1>1, <1>4 DEF Starting
  <2>3. \A k \in Case : Barred(d, k) => Barred(d, k)'
    BY <2>2, <1>1, TurnKeepsBarred
  <2>4. Barred(d, case)'
    <3>1. Barred(d, case)
      BY <1>4 DEF WorkerInv, Starting
    <3>2. QED
      BY <3>1, <2>2, <1>1, TurnKeepsBarred
  <2>5. data[d] = "none"
    BY <1>4 DEF WorkerInv, Starting
  <2>6. WorkerInv(d)'
    BY <2>4, <2>5, <1>4 DEF WorkerInv, Starting
  <2>7. QED
    BY <2>3, <2>6, <1>3
<1>5. CASE Started(d)
  <2>1. PICK n \in DOMAIN out[d] : out[d][n].c = case /\ Consume(d, n)
    BY <1>5 DEF Started
  <2>2. dev[d].case = case
    BY <2>1 DEF OutputInv
  <2>3. PICK X \in SUBSET Own(d) : X = {d}
    BY DEF Own
  <2>4. Fed(d, X)
    BY <2>3, <1>5 DEF Started
  <2>5. \A k \in Case : k # case /\ Barred(d, k) => Barred(d, k)'
    BY <2>2, <2>4, <1>1, TurnKeepsBarred
  <2>6. PICK q \in Seq(LineType) : q = out[d]
    BY DEF MultiTypes, DeviceTypes
  <2>7. PICK r : r = SubSeq(q, n + 1, Len(q))
    OBVIOUS
  <2>8. n \in Nat /\ n \in 1..Len(q) /\ DOMAIN q = 1..Len(q)
    BY <2>1, <2>6
  <2>9. r \in Seq(LineType) /\ \A i \in 1..Len(r) : i + n \in 1..Len(q) /\ r[i] = q[i + n]
    BY <2>7, <2>8, SuffixFacts
  <2>10. out'[d] = r
    BY <2>1, <2>6, <2>7 DEF Consume, MultiTypes, DeviceTypes
  <2>11. ASSUME NEW i \in DOMAIN r
         PROVE  r[i].c \in {0, case}
    <3>1. i \in 1..Len(r) /\ i \in Nat /\ i > 0
      BY <2>9
    <3>2. n < i + n /\ i + n \in DOMAIN out[d] /\ r[i] = out[d][i + n]
      BY <3>1, <2>6, <2>8, <2>9
    <3>3. QED
      BY <3>2, <2>1 DEF OutputInv
  <2>12. data'[d] = "none"
    BY <1>5 DEF WorkerInv, Started
  <2>13. WorkerInv(d)'
    BY <2>2, <2>10, <2>11, <2>12, <1>1, <1>5 DEF WorkerInv, Started
  <2>14. QED
    BY <2>5, <2>13, <1>3
<1>6. CASE Proceeding(d)
  <2>1. PICK X \in SUBSET Own(d) : X = {0}
    BY DEF Own
  <2>2. Fed(d, X) /\ d \notin X
    BY <2>1, <1>1, <1>6 DEF Proceeding
  <2>3. \A k \in Case : Barred(d, k) => Barred(d, k)'
    BY <2>2, <1>1, TurnKeepsBarred
  <2>4. dev[d].case = case /\ \A i \in DOMAIN out[d] : out[d][i].c \in {0, case}
    BY <1>6 DEF WorkerInv, Proceeding
  <2>5. \A i \in DOMAIN out'[d] : out'[d][i].c \in {0, case}
    BY <2>2, <2>4, <1>1, <1>2, TurnKeepsLane
  <2>6. data[d] = "none"
    BY <1>6 DEF WorkerInv, Proceeding
  <2>7. \A r \in Harmless : data'[d] = r => Did(d, Concluded(case, d, r))
    <3>1. ASSUME NEW i \in DOMAIN out[d], out[d][i].t = "result"
          PROVE  Did(d, Concluded(case, d, out[d][i].v))
      <4>1. out[d][i].c = case
        BY <3>1, <2>4 DEF MultiTypes, DeviceTypes
      <4>2. QED
        BY <4>1, <3>1 DEF OutputInv
    <3>2. QED
      BY <3>1, <2>6, <1>6 DEF Proceeding
  <2>8. data'[d] # "PRE_RUN_FAILURE"
    BY <2>6, <1>6 DEF Proceeding, MultiTypes, DeviceTypes
  <2>9. data'[d] # "none" <=> wpc'[d] = "done"
    BY <2>6, <1>6 DEF Proceeding, MultiTypes, DeviceTypes
  <2>10. wpc'[d] \notin {"ready", "name"}
    BY <1>6 DEF Proceeding
  <2>11. WorkerInv(d)'
    BY <2>4, <2>5, <2>7, <2>8, <2>9, <2>10, <1>1 DEF WorkerInv, Did
  <2>12. QED
    BY <2>3, <2>11, <1>3
<1>7. CASE UNCHANGED <<wpc, data, in, out>>
  <2>1. UNCHANGED <<case, dev[d], in[d], out[d], did[d], wpc[d], data[d]>>
    BY <1>1, <1>7
  <2>2. QED
    BY <2>1, SameLane
<1>8. QED
  BY <1>4, <1>5, <1>6, <1>7 DEF WorkerEffect

LEMMA TurnKeepsLanes ==
    ASSUME MultiTypes, IndicesApart, LaneInv, VerdictInv, NEW d \in Dut, WorkerEffect(d)
    PROVE  LaneInv' /\ VerdictInv'
<1>1. InputInv(d)' /\ OutputInv(d)' /\ WorkerInv(d)' /\ \A k \in Case : k # case /\ Barred(d, k) => Barred(d, k)'
  BY TurnKeepsWorker DEF LaneInv
<1>2. ASSUME NEW e \in Dut, e # d
      PROVE  UNCHANGED <<case, dev[e], in[e], out[e], did[e], wpc[e], data[e]>>
  <2>1. out'[e] = out[e]
    BY <1>2, EffectOnLines, ShiftFacts
  <2>2. in'[e] = in[e]
    <3>1. PICK X \in SUBSET Own(d) : Fed(d, X)
      BY EffectOnLines
    <3>2. X \in SUBSET Nat
      BY OwnNumbers
    <3>3. QED
      BY <3>1, <3>2, <1>2, FedFacts
  <2>3. QED
    BY <2>1, <2>2, <1>2 DEF WorkerEffect
<1>3. LaneInv'
  <2>1. ASSUME NEW e \in Dut
        PROVE  InputInv(e)' /\ OutputInv(e)' /\ WorkerInv(e)'
    BY <1>1, <1>2, SameLane DEF LaneInv
  <2>2. QED
    BY <2>1 DEF LaneInv
<1>4. ASSUME NEW k \in Case
      PROVE  /\ report'[k] # "none" => k < case' \/ (k = case' /\ at' = "between")
             /\ report'[k] = "PASS" => \A e \in Dut : Did(e, Concluded(k, e, "PASS"))'
             /\ report'[k] = "IGNORE" => (\E e \in Dut : Barred(e, k)') \/ EndedBy(k)'
  <2>1. /\ report' = report /\ case' = case /\ at' = at /\ at = "gather" /\ did' = did
        /\ case \in Nat /\ k \in Nat
    BY DEF WorkerEffect, MultiTypes, TesterTypes, Case
  <2>2. report[k] # "none" => k < case
    BY <2>1 DEF VerdictInv
  <2>3. report[k] = "PASS" => \A e \in Dut : Did(e, Concluded(k, e, "PASS"))
    BY DEF VerdictInv
  <2>4. ASSUME report[k] = "IGNORE", ~EndedBy(k)
        PROVE  \E e \in Dut : Barred(e, k)'
    <3>1. PICK e \in Dut : Barred(e, k)
      BY <2>4 DEF VerdictInv
    <3>2. k # case
      BY <2>1, <2>2, <2>4
    <3>3. Barred(e, k)'
      BY <3>1, <3>2, <1>1, <1>2, SameLane
    <3>4. QED
      BY <3>3
  <2>5. EndedBy(k) => EndedBy(k)'
    BY <2>1, SameDeeds
  <2>6. QED
    BY <2>1, <2>2, <2>3, <2>4, <2>5 DEF Did
<1>5. QED
  BY <1>3, <1>4 DEF VerdictInv

\* What is left of a queue after its first e was taken out.
LEMMA RemoveFacts ==
    ASSUME NEW T, NEW q \in Seq(T), NEW e, Contains(q, e)
    PROVE  /\ RemoveFirst(q, e) \in Seq(T)
           /\ \E p \in 1..Len(q) :
                /\ q[p] = e
                /\ Len(RemoveFirst(q, e)) = Len(q) - 1
                /\ \A i \in 1..(Len(q) - 1) : RemoveFirst(q, e)[i] = IF i < p THEN q[i] ELSE q[i + 1]
<1> DEFINE I == {i \in 1..Len(q) : q[i] = e}
<1>1. Len(q) \in Nat /\ I \in SUBSET Nat /\ I # {} /\ \E i \in 1..Len(q) : q[i] = e
  BY DEF Contains
<1>2. SelectInSeq(q, LAMBDA v : v = e) = IF I # {} THEN CHOOSE i \in I : \A j \in I : i <= j ELSE 0
  BY DEF SelectInSeq, Min
<1>3. \E i \in I : \A j \in I : i <= j
  <2> HIDE DEF I
  <2> QED BY <1>1, LeastNatural
<1>4. SelectInSeq(q, LAMBDA v : v = e) \in I
  <2> HIDE DEF I
  <2> QED BY <1>1, <1>2, <1>3
<1>5. PICK p \in 1..Len(q) : p = SelectInSeq(q, LAMBDA v : v = e) /\ q[p] = e
  BY <1>4
<1>6. PICK r : r = RemoveFirst(q, e)
  OBVIOUS
<1>7. r = SubSeq(q, 1, p - 1) \o SubSeq(q, p + 1, Len(q))
  BY <1>1, <1>5, <1>6 DEF RemoveFirst, RemoveAt
<1>8. PICK a : a = SubSeq(q, 1, p - 1)
  OBVIOUS
<1>9. PICK b : b = SubSeq(q, p + 1, Len(q))
  OBVIOUS
<1>10. p \in Nat /\ p > 0 /\ p <= Len(q) /\ \A i \in 1..Len(q) : q[i] \in T
  BY <1>1
<1>11. a \in Seq(T) /\ Len(a) = p - 1 /\ \A i \in 1..(p - 1) : a[i] = q[i]
  <2>1. p - 1 \in Nat /\ 1 \in Nat /\ 1 <= (p - 1) + 1 /\ \A i \in 1..(p - 1) : i \in 1..Len(q)
    BY <1>10, <1>1
  <2>2. a \in Seq(T)
    BY <1>8, <1>10, <2>1, SubSeqProperties
  <2>3. Len(a) = p - 1
    BY <1>8, <1>10, <2>1
  <2>4. \A i \in 1..(p - 1) : a[i] = q[i]
    BY <1>8, <1>10, <2>1
  <2>5. QED
    BY <2>2, <2>3, <2>4
<1>12. b \in Seq(T) /\ \A i \in 1..Len(b) : i + p \in 1..Len(q) /\ b[i] = q[i + p]
  BY <1>9, <1>10, SuffixFacts
<1>13. Len(b) = Len(q) - p
  BY <1>9, <1>10, <1>1
<1>14. /\ r \in Seq(T) /\ Len(r) = Len(a) + Len(b)
       /\ \A i \in 1..Len(a) : r[i] = a[i]
       /\ \A i \in 1..Len(r) : i > Len(a) => i - Len(a) \in 1..Len(b) /\ r[i] = b[i - Len(a)]
  <2>1. r = a \o b /\ a \in Seq(T) /\ b \in Seq(T)
    BY <1>7, <1>8, <1>9, <1>11, <1>12
  <2>2. QED
    BY <2>1, ConcatFacts
<1>15. Len(r) = Len(q) - 1
  BY <1>10, <1>11, <1>13, <1>14, <1>1
<1>16. ASSUME NEW i \in 1..(Len(q) - 1)
       PROVE  r[i] = IF i < p THEN q[i] ELSE q[i + 1]
  <2>1. i \in Nat /\ i \in 1..Len(r)
    BY <1>15, <1>1
  <2>2. CASE i < p
    BY <2>1, <2>2, <1>10, <1>11, <1>14
  <2>3. CASE ~(i < p)
    <3>1. i > Len(a) /\ i - Len(a) \in 1..Len(b) /\ r[i] = b[i - Len(a)]
      BY <2>1, <2>3, <1>10, <1>11, <1>14
    <3>2. (i - Len(a)) + p = i + 1
      BY <2>1, <1>10, <1>11
    <3>3. QED
      BY <3>1, <3>2, <2>3, <1>12
  <2>4. QED
    BY <2>2, <2>3
<1>17. QED
  BY <1>5, <1>6, <1>14, <1>15, <1>16

LEMMA WorkerKeepsDeviceTypes ==
    ASSUME MultiTypes, NEW d \in Dut, WorkerEffect(d)
    PROVE  DeviceTypes'
<1>1. Shift(d)
  BY EffectOnLines
<1>2. /\ out' \in [Dut -> Seq(LineType)]
      /\ \A e \in Dut : e # d => out'[e] = out[e]
  BY <1>1, ShiftFacts
<1>3. PICK m \in Nat : \A i \in DOMAIN out'[d] : i + m \in DOMAIN out[d] /\ out'[d][i] = out[d][i + m]
  BY <1>1, ShiftFacts
<1>4. in' \in [Dut -> Seq(Nat)]
  <2>1. PICK X \in SUBSET Own(d) : Fed(d, X)
    BY EffectOnLines
  <2>2. X \in SUBSET Nat
    BY OwnNumbers
  <2>3. QED
    BY <2>1, <2>2, FedFacts
<1>5. dev' = dev /\ did' = did
  BY DEF WorkerEffect
<1>6. \A e \in Dut : \A i \in DOMAIN out'[e] :
        out'[e][i].t = "result" => out'[e][i].c # 0 /\ out'[e][i].v \in Outcomes
  <2>1. ASSUME NEW e \in Dut, NEW i \in DOMAIN out'[e], out'[e][i].t = "result"
        PROVE  out'[e][i].c # 0 /\ out'[e][i].v \in Outcomes
    <3>1. CASE e # d
      BY <3>1, <2>1, <1>2 DEF MultiTypes, DeviceTypes
    <3>2. CASE e = d
      BY <3>2, <2>1, <1>3 DEF MultiTypes, DeviceTypes
    <3>3. QED
      BY <3>1, <3>2
  <2>2. QED
    BY <2>1
<1>7. QED
  BY <1>2, <1>4, <1>5, <1>6 DEF MultiTypes, DeviceTypes

LEMMA WorkerKeepsTypes ==
    ASSUME MultiTypes, NEW d \in Dut, Worker(d)
    PROVE  MultiTypes'
<1> USE DEF MyTurn, Outside, Complete, RunOn
<1>1. DeviceTypes'
  BY WorkerHasEffect, WorkerKeepsDeviceTypes
<1>2. TesterTypes /\ QueueTypes
  BY DEF MultiTypes
<1>3. out[d] \in Seq(LineType) /\ DOMAIN out[d] = 1..Len(out[d]) /\ Len(out[d]) \in Nat
  BY DEF MultiTypes, DeviceTypes
<1>4. \A i \in DOMAIN out[d] : out[d][i].v \in Value
  <2>1. \A i \in DOMAIN out[d] : out[d][i] \in LineType
    BY <1>3
  <2>2. QED
    BY <2>1 DEF LineType
<1>5. CASE SkipDone(d)
  BY <1>1, <1>2, <1>5 DEF SkipDone, workerVars, TesterTypes, QueueTypes, MultiTypes
<1>6. CASE SeeReady(d)
  BY <1>1, <1>2, <1>6 DEF SeeReady, TesterTypes, QueueTypes, MultiTypes
<1>7. CASE SeeName(d)
  BY <1>1, <1>2, <1>7 DEF SeeName, TesterTypes, QueueTypes, MultiTypes
<1>8. CASE SeeSend(d)
  <2>1. PICK i : i = Find(d, SignalPattern)
    OBVIOUS
  <2>2. i \in DOMAIN out[d]
    BY <2>1, <1>3, <1>8, FindFacts DEF SeeSend
  <2>3. PICK v \in Value : v = out[d][i].v
    BY <2>2, <1>4
  <2>4. /\ query' = [e \in Dut |-> IF e = d THEN query[e] ELSE Append(query[e], v)]
        /\ handed' = [handed EXCEPT ![d] = Append(handed[d], v)] /\ taken' = taken
    BY <2>1, <2>3, <1>8 DEF SeeSend, HandOn
  <2>5. QueueTypes'
    BY <2>4, <1>2 DEF QueueTypes
  <2>6. TesterTypes'
    BY <1>2, <1>8 DEF SeeSend, TesterTypes
  <2>7. QED
    BY <2>5, <2>6, <1>1 DEF MultiTypes
<1>9. CASE SeeWait(d)
  <2>1. PICK i : i = Find(d, SignalPattern)
    OBVIOUS
  <2>2. i \in DOMAIN out[d]
    BY <2>1, <1>3, <1>9, FindFacts DEF SeeWait
  <2>3. PICK v \in Value : v = out[d][i].v
    BY <2>2, <1>4
  <2>4. waitSig' = [waitSig EXCEPT ![d] = v]
    BY <2>1, <2>3, <1>9 DEF SeeWait
  <2>5. QED
    BY <2>4, <1>1, <1>2, <1>9 DEF SeeWait, TesterTypes, QueueTypes, MultiTypes
<1>10. ASSUME NEW r, Complete(d, r), r = "FAIL" \/ \E i \in DOMAIN out[d] : out[d][i].t = "result" /\ r = out[d][i].v,
              UNCHANGED <<at, case, waitSig, report, query, handed, taken>>
       PROVE  MultiTypes'
  <2>1. r \in Outcomes
    BY <1>10 DEF MultiTypes, DeviceTypes
  <2>2. QED
    BY <2>1, <1>1, <1>2, <1>10 DEF TesterTypes, QueueTypes, MultiTypes
<1>11. CASE SeeEnd(d)
  <2>1. PICK n : n = Find(d, SignalPattern)
    OBVIOUS
  <2>2. n \in 1..Len(out[d])
    BY <2>1, <1>3, <1>11, FindFacts DEF SeeEnd
  <2>3. PICK r : r = ParsedResult(SubSeq(out[d], 1, n))
    OBVIOUS
  <2>4. r = "FAIL" \/ \E i \in DOMAIN out[d] : out[d][i].t = "result" /\ r = out[d][i].v
    BY <2>2, <2>3, ParsedIsPrinted
  <2>5. Complete(d, r) /\ UNCHANGED <<at, case, waitSig, report, query, handed, taken>>
    BY <2>1, <2>3, <1>11 DEF SeeEnd
  <2>6. QED
    BY <2>4, <2>5, <1>10
<1>12. CASE TakeSignal(d)
  <2>1. waitSig[d] \in Value /\ query[d] \in Seq(Value) /\ Contains(query[d], waitSig[d])
    BY <1>2, <1>12 DEF TesterTypes, QueueTypes, TakeSignal
  <2>2. PICK q : q = RemoveFirst(query[d], waitSig[d])
    OBVIOUS
  <2>3. q \in Seq(Value)
    BY <2>1, <2>2, RemoveFacts
  <2>4. /\ query' = [query EXCEPT ![d] = q]
        /\ taken' = [taken EXCEPT ![d] = Append(taken[d], waitSig[d])] /\ handed' = handed
    BY <2>2, <1>12 DEF TakeSignal, Unqueue
  <2>5. QueueTypes'
    BY <2>1, <2>3, <2>4, <1>2 DEF QueueTypes
  <2>6. TesterTypes'
    BY <1>2, <1>12 DEF TakeSignal, TesterTypes
  <2>7. QED
    BY <2>5, <2>6, <1>1 DEF MultiTypes
<1>13. CASE PollAgain(d)
  BY <1>1, <1>2, <1>13 DEF PollAgain, TesterTypes, QueueTypes, MultiTypes
<1>14. CASE RetryStart(d)
  BY <1>1, <1>2, <1>14 DEF RetryStart, TesterTypes, QueueTypes, MultiTypes
<1>15. CASE GiveUpStart(d)
  BY <1>1, <1>2, <1>15 DEF GiveUpStart, TesterTypes, QueueTypes, MultiTypes
<1>16. CASE RunTimeout(d)
  <2>1. PICK r : r = ParsedResult(out[d])
    OBVIOUS
  <2>2. r = "FAIL" \/ \E i \in DOMAIN out[d] : out[d][i].t = "result" /\ r = out[d][i].v
    BY <2>1, <1>3, ParsedFacts
  <2>3. Complete(d, r) /\ UNCHANGED <<at, case, waitSig, report, query, handed, taken>>
    BY <2>1, <1>16 DEF RunTimeout
  <2>4. QED
    BY <2>2, <2>3, <1>10
<1>17. CASE WaitTimeout(d)
  BY <1>1, <1>2, <1>17 DEF WaitTimeout, TesterTypes, QueueTypes, MultiTypes
<1>18. QED
  BY <1>5, <1>6, <1>7, <1>8, <1>9, <1>11, <1>12, <1>13, <1>14, <1>15, <1>16, <1>17 DEF Worker

-----------------------------------------------------------------------------
(* The steps, and the theorems. *)

MultiInv == MultiTypes /\ LaneInv /\ VerdictInv

LEMMA StepKeepsLanes ==
    ASSUME MultiInv, IndicesApart, NEW d \in Dut, Firmware(d) \/ Hang(d)
    PROVE  MultiInv'
<1>1. MultiTypes /\ InputInv(d) /\ OutputInv(d) /\ WorkerInv(d)
  BY DEF MultiInv, LaneInv
<1>2. PICK x, ls, es : \E r \in BOOLEAN : Device(d, x, r, ls, es) /\ GoesTo(d, x, r) /\ Prints(d, x, ls, es)
  BY <1>1, ApartMeansOwn, DeviceHasEffect DEF DeviceEffect
<1>3. PICK r \in BOOLEAN : Device(d, x, r, ls, es) /\ GoesTo(d, x, r) /\ Prints(d, x, ls, es)
  BY <1>2
<1>4. MultiTypes'
  BY <1>1, <1>3, StepKeepsTypes
<1>5. x \in DeviceType /\ ls \in Seq(LineType) /\ es \in Seq(LineType)
  BY <1>3 DEF GoesTo, Prints
<1>6. /\ \A e \in Dut : e # d => dev'[e] = dev[e] /\ in'[e] = in[e] /\ out'[e] = out[e] /\ did'[e] = did[e]
      /\ did' \in [Dut -> Seq(LineType)]
      /\ \A i \in DOMAIN did[d] : i \in DOMAIN did'[d] /\ did'[d][i] = did[d][i]
  BY <1>1, <1>3, <1>5, DeviceFacts
<1>7. UNCHANGED <<at, case, wpc, data, report>>
  BY <1>3 DEF Device, workerVars
<1>8. \A e \in Dut : e # d => UNCHANGED <<case, dev[e], in[e], out[e], did[e], wpc[e], data[e]>>
  BY <1>6, <1>7
<1>9. \A k \in Case : Barred(d, k) => Barred(d, k)'
  BY <1>1, <1>3, StepKeepsBarred
<1>10. \A e \in Dut, k \in Case : Barred(e, k) => Barred(e, k)'
  BY <1>8, <1>9, SameLane
<1>11. \A l : Did(d, l) => Did(d, l)'
  BY <1>1, <1>6, DeedsStay
<1>12. \A e \in Dut : \A l : Did(e, l) => Did(e, l)'
  BY <1>6, <1>11 DEF Did
<1>13. InputInv(d)' /\ OutputInv(d)' /\ WorkerInv(d)'
  <2>1. /\ InputInv(d)' /\ OutputInv(d)'
        /\ dev[d].case = case /\ (\A i \in DOMAIN out[d] : out[d][i].c \in {0, case})
             => dev'[d].case = case /\ \A i \in DOMAIN out'[d] : out'[d][i].c \in {0, case}
    BY <1>1, <1>3, StepKeepsLane
  <2>2. case \in Case
    BY <1>1 DEF MultiTypes, TesterTypes
  <2>3. Barred(d, case) => Barred(d, case)'
    BY <2>2, <1>7, <1>9
  <2>4. ASSUME NEW v
        PROVE  Did(d, Concluded(case, d, v)) => Did(d, Concluded(case, d, v))'
    <3>1. PICK l : l = Concluded(case, d, v)
      OBVIOUS
    <3>2. l = Concluded(case, d, v)'
      BY <3>1, <1>7 DEF Concluded, Line
    <3>3. QED
      BY <3>1, <3>2, <1>11 DEF Did
  <2>5. WorkerInv(d)'
    BY <2>1, <2>3, <2>4, <1>1, <1>7 DEF WorkerInv
  <2>6. QED
    BY <2>1, <2>5
<1>14. LaneInv'
  <2>1. ASSUME NEW e \in Dut
        PROVE  InputInv(e)' /\ OutputInv(e)' /\ WorkerInv(e)'
    BY <1>8, <1>13, SameLane DEF MultiInv, LaneInv
  <2>2. QED
    BY <2>1 DEF LaneInv
<1>15. ASSUME NEW k \in Case
       PROVE  /\ report'[k] # "none" => k < case' \/ (k = case' /\ at' = "between")
              /\ report'[k] = "PASS" => \A e \in Dut : Did(e, Concluded(k, e, "PASS"))'
              /\ report'[k] = "IGNORE" => (\E e \in Dut : Barred(e, k)') \/ EndedBy(k)'
  <2>1. /\ report[k] # "none" => k < case \/ (k = case /\ at = "between")
        /\ report[k] = "PASS" => \A e \in Dut : Did(e, Concluded(k, e, "PASS"))
        /\ report[k] = "IGNORE" => (\E e \in Dut : Barred(e, k)) \/ EndedBy(k)
    BY DEF MultiInv, VerdictInv
  <2>2. \A e \in Dut : Did(e, Concluded(k, e, "PASS")) => Did(e, Concluded(k, e, "PASS"))'
    BY <1>12
  <2>3. EndedBy(k) => EndedBy(k)'
    BY <1>12, EndStays
  <2>4. QED
    BY <2>1, <2>2, <2>3, <1>7, <1>10
<1>16. QED
  BY <1>4, <1>14, <1>15 DEF MultiInv, VerdictInv

LEMMA MergedFacts ==
    ASSUME NEW results
    PROVE  Merged(results) \in Outcomes
  BY DEF Merged

LEMMA MergedMeans ==
    ASSUME NEW results, \A d \in Dut : results[d] \in Outcomes \cup {"PRE_RUN_FAILURE"}
    PROVE  /\ Merged(results) = "PASS" => \A d \in Dut : results[d] = "PASS"
           /\ Merged(results) = "IGNORE" =>
                \/ \E d \in Dut : results[d] = "PRE_RUN_FAILURE"
                \/ /\ \A d \in Dut : results[d] \in Harmless
                   /\ \E d \in Dut : results[d] = "IGNORE"
  BY DEF Merged

\* Where nothing of a device changes, the lanes stay.
LEMMA LanesStay ==
    ASSUME LaneInv, UNCHANGED <<case, dev, in, out, did, wpc, data>>
    PROVE  LaneInv' /\ \A d \in Dut, k \in Case : Barred(d, k) => Barred(d, k)'
<1>1. \A d \in Dut : UNCHANGED <<case, dev[d], in[d], out[d], did[d], wpc[d], data[d]>>
  OBVIOUS
<1>2. QED
  BY <1>1, SameLane DEF LaneInv

LEMMA ReturnKeepsInv ==
    ASSUME MultiInv, GatherReturns
    PROVE  MultiInv'
<1>1. /\ at = "gather" /\ at' = "between" /\ report' = [report EXCEPT ![case] = Merged(data)]
      /\ UNCHANGED <<case, dev, in, out, did, wpc, data, waitSig, query, handed, taken>>
  BY DEF GatherReturns, EndOfRound, workerVars, deviceVars
<1>2. /\ case \in Case /\ case \in Nat /\ report \in [Case -> Outcomes \cup {"none"}]
      /\ MultiTypes /\ LaneInv /\ VerdictInv
  BY DEF MultiInv, MultiTypes, TesterTypes, Case
<1>3. PICK m \in Outcomes : m = Merged(data)
  BY MergedFacts
<1>4. MultiTypes'
  BY <1>1, <1>2, <1>3 DEF MultiTypes, TesterTypes, QueueTypes, DeviceTypes
<1>5. LaneInv' /\ \A d \in Dut, k \in Case : Barred(d, k) => Barred(d, k)'
  BY <1>1, <1>2, LanesStay
<1>6. /\ m = "PASS" => \A d \in Dut : Did(d, Concluded(case, d, "PASS"))
      /\ m = "IGNORE" => (\E d \in Dut : Barred(d, case)) \/ EndedBy(case)
  <2>1. \A d \in Dut : data[d] \in Outcomes \cup {"PRE_RUN_FAILURE"}
    BY <1>2, <1>1 DEF GatherReturns, LaneInv, WorkerInv, MultiTypes, TesterTypes
  <2>2. QED
    BY <2>1, <1>2, <1>3, MergedMeans DEF LaneInv, WorkerInv, EndedBy
<1>61. \A k : EndedBy(k) => EndedBy(k)'
  BY <1>1, SameDeeds
<1>7. ASSUME NEW k \in Case
      PROVE  /\ report'[k] # "none" => k < case' \/ (k = case' /\ at' = "between")
             /\ report'[k] = "PASS" => \A e \in Dut : Did(e, Concluded(k, e, "PASS"))'
             /\ report'[k] = "IGNORE" => (\E e \in Dut : Barred(e, k)') \/ EndedBy(k)'
  <2>1. CASE k = case
    BY <2>1, <1>1, <1>2, <1>3, <1>5, <1>6, <1>61 DEF Did
  <2>2. CASE k # case
    BY <2>2, <1>1, <1>2, <1>5, <1>61 DEF Did, VerdictInv
  <2>3. QED
    BY <2>1, <2>2
<1>8. QED
  BY <1>4, <1>5, <1>7 DEF MultiInv, VerdictInv

LEMMA RaiseKeepsInv ==
    ASSUME MultiInv, GatherRaises
    PROVE  MultiInv'
<1>1. /\ at = "gather" /\ at' = "raised" /\ report' = report
      /\ UNCHANGED <<case, dev, in, out, did, wpc, data, waitSig, query, handed, taken>>
  BY DEF GatherRaises, EndOfRound, workerVars, deviceVars
<1>2. MultiTypes'
  BY <1>1 DEF MultiInv, MultiTypes, TesterTypes, QueueTypes, DeviceTypes
<1>3. LaneInv' /\ \A d \in Dut, k \in Case : Barred(d, k) => Barred(d, k)'
  BY <1>1, LanesStay DEF MultiInv
<1>4. VerdictInv'
  BY <1>1, <1>3, SameDeeds DEF MultiInv, VerdictInv, Did
<1>5. QED
  BY <1>2, <1>3, <1>4 DEF MultiInv

LEMMA RoundKeepsInv ==
    ASSUME MultiInv, NextRound
    PROVE  MultiInv'
<1>1. UNCHANGED <<at, case, report, dev, in, out, did, waitSig, query, handed, taken>>
  BY DEF NextRound, deviceVars
<1>2. /\ case \in Case /\ data \in [Dut -> Outcomes \cup {"none", "PRE_RUN_FAILURE"}]
      /\ MultiTypes /\ LaneInv /\ VerdictInv
  BY DEF MultiInv, MultiTypes, TesterTypes
<1>3. CASE UNCHANGED <<wpc, data>>
  <2>1. LaneInv' /\ \A d \in Dut, k \in Case : Barred(d, k) => Barred(d, k)'
    BY <1>1, <1>2, <1>3, LanesStay
  <2>2. MultiTypes'
    BY <1>1, <1>2, <1>3 DEF MultiTypes, TesterTypes, QueueTypes, DeviceTypes
  <2>3. VerdictInv'
    BY <2>1, <1>1, <1>2, SameDeeds DEF VerdictInv, Did
  <2>4. QED
    BY <2>1, <2>2, <2>3 DEF MultiInv
<1>4. CASE wpc' = Each("done") /\ data' = [d \in Dut |-> IF wpc[d] = "done" THEN data[d] ELSE "FAIL"]
  <2>1. MultiTypes'
    BY <1>1, <1>2, <1>4 DEF MultiTypes, TesterTypes, QueueTypes, DeviceTypes, Each
  <2>2. \A d \in Dut, k \in Case : Barred(d, k) => Barred(d, k)'
    BY <1>1 DEF Barred
  <2>3. ASSUME NEW d \in Dut
        PROVE  InputInv(d)' /\ OutputInv(d)' /\ WorkerInv(d)'
    <3>1. InputInv(d) /\ OutputInv(d) /\ WorkerInv(d)
      BY <1>2 DEF LaneInv
    <3>2. InputInv(d)'
      BY <3>1, <1>1 DEF InputInv, Own
    <3>3. OutputInv(d)'
      BY <3>1, <1>1 DEF OutputInv, Did
    <3>4. wpc'[d] = "done" /\ (data'[d] = "FAIL" \/ (wpc[d] = "done" /\ data'[d] = data[d]))
      BY <1>4 DEF Each
    <3>5. Barred(d, case) => Barred(d, case)'
      BY <1>1 DEF Barred
    <3>6. WorkerInv(d)'
      BY <3>1, <3>4, <3>5, <1>1 DEF WorkerInv, Did
    <3>7. QED
      BY <3>2, <3>3, <3>6
  <2>4. VerdictInv'
    BY <2>2, <1>1, <1>2, SameDeeds DEF VerdictInv, Did
  <2>5. QED
    BY <2>1, <2>3, <2>4 DEF MultiInv, LaneInv
<1>5. QED
  BY <1>3, <1>4 DEF NextRound

LEMMA CaseKeepsTypes ==
    ASSUME MultiTypes, NextCase
    PROVE  MultiTypes'
<1>1. /\ at = "between" /\ at' = "gather" /\ case < NCase /\ case' = case + 1
      /\ wpc' = Each("ready") /\ data' = Each("none") /\ waitSig' = Each("")
      /\ handed' = Each(<<>>) /\ taken' = Each(<<>>) /\ query' = Each(<<>>)
      /\ UNCHANGED <<report, out, did>>
  BY DEF NextCase, FreshWorkers, FreshQuery
<1>2. (dev' = Each(Booting) /\ in' = Each(<<>>)) \/ UNCHANGED <<dev, in>>
  BY DEF NextCase
<1>3. case' \in Case
  <2>1. case \in 1..NCase
    BY DEF MultiTypes, TesterTypes, Case
  <2>2. NCase \in Nat
    BY SizeAssumption
  <2>3. case < NCase /\ case' = case + 1
    BY <1>1
  <2>4. case' \in 1..NCase
    BY <2>1, <2>2, <2>3
  <2>5. QED
    BY <2>4 DEF Case
<1>4. ASSUME NEW d \in Dut
      PROVE  \/ dev'[d] = Booting /\ in'[d] = <<>> /\ DOMAIN in'[d] = {}
             \/ dev'[d] = dev[d] /\ in'[d] = in[d]
  BY <1>2 DEF Each
<1>5. Booting \in DeviceType /\ Booting.st = "boot" /\ Booting.case = 0
  BY SizeAssumption DEF Booting, DeviceType
<1>6. TesterTypes'
  BY <1>1, <1>3 DEF MultiTypes, TesterTypes, Each, Value
<1>7. QueueTypes'
  <2>1. <<>> \in Seq(Value')
    OBVIOUS
  <2>2. QED
    BY <2>1, <1>1 DEF QueueTypes, Each
<1>8. dev' \in [Dut -> DeviceType] /\ in' \in [Dut -> Seq(Nat)]
  <2>1. CASE dev' = Each(Booting) /\ in' = Each(<<>>)
    BY <2>1, <1>5 DEF Each
  <2>2. CASE UNCHANGED <<dev, in>>
    BY <2>2, <1>3 DEF MultiTypes, DeviceTypes
  <2>3. QED
    BY <2>1, <2>2, <1>2
<1>9. DeviceTypes'
  BY <1>8, <1>1, <1>3, <1>4, <1>5 DEF MultiTypes, DeviceTypes
<1>10. QED
  BY <1>6, <1>7, <1>9 DEF MultiTypes

LEMMA CaseKeepsInv ==
    ASSUME MultiInv, IndicesApart, NextCase
    PROVE  MultiInv'
<1>1. /\ at = "between" /\ at' = "gather" /\ case < NCase /\ case' = case + 1
      /\ wpc' = Each("ready") /\ data' = Each("none") /\ waitSig' = Each("")
      /\ handed' = Each(<<>>) /\ taken' = Each(<<>>) /\ query' = Each(<<>>)
      /\ UNCHANGED <<report, out, did>>
  BY DEF NextCase, FreshWorkers, FreshQuery
<1>2. (dev' = Each(Booting) /\ in' = Each(<<>>)) \/ UNCHANGED <<dev, in>>
  BY DEF NextCase
<1>3. /\ MultiTypes /\ LaneInv /\ VerdictInv /\ case \in Case /\ case \in Nat /\ NCase \in Nat
      /\ case' \in Case /\ case' # case /\ \A n \in Nat : n <= case => n <= case' /\ n < case' /\ n # case'
  <2>0. case' = case + 1 /\ case < NCase
    BY <1>1
  <2>1. MultiTypes /\ LaneInv /\ VerdictInv
    BY DEF MultiInv
  <2>2. NCase \in Nat
    BY SizeAssumption
  <2>3. case \in 1..NCase
    BY <2>1 DEF MultiTypes, TesterTypes, Case
  <2>4. /\ case' \in 1..NCase /\ case' # case /\ case \in Nat
        /\ \A n \in Nat : n <= case => n <= case' /\ n < case' /\ n # case'
    BY <2>0, <2>2, <2>3
  <2>5. QED
    BY <2>1, <2>2, <2>3, <2>4 DEF Case
<1>4. ASSUME NEW d \in Dut
      PROVE  \/ dev'[d] = Booting /\ in'[d] = <<>> /\ DOMAIN in'[d] = {}
             \/ dev'[d] = dev[d] /\ in'[d] = in[d]
  BY <1>2 DEF Each
<1>5. Booting \in DeviceType /\ Booting.st = "boot" /\ Booting.case = 0
  BY SizeAssumption DEF Booting, DeviceType
<1>6. MultiTypes'
  BY <1>3, CaseKeepsTypes
<1>7. ASSUME NEW d \in Dut, NEW k \in Case, Barred(d, k)
      PROVE  Barred(d, k)'
  <2>1. CASE dev'[d] = Booting /\ in'[d] = <<>> /\ DOMAIN in'[d] = {}
    <3>1. k # 0
      BY SizeAssumption DEF Case
    <3>2. dev'[d].case # k
      BY <3>1, <2>1, <1>5
    <3>3. QED
      BY <3>2, <2>1, <1>1, <1>7 DEF Barred
  <2>2. CASE dev'[d] = dev[d] /\ in'[d] = in[d]
    BY <2>2, <1>1, <1>7 DEF Barred
  <2>3. QED
    BY <2>1, <2>2, <1>4
<1>8. ASSUME NEW d \in Dut
      PROVE  InputInv(d)' /\ OutputInv(d)' /\ WorkerInv(d)'
  <2>1. /\ InputInv(d) /\ OutputInv(d) /\ dev[d].case \in Nat
        /\ out[d] \in Seq(LineType) /\ did[d] \in Seq(LineType)
    BY <1>3 DEF LaneInv, MultiTypes, DeviceTypes, DeviceType
  <2>2. \A l \in LineType : l.c \in Nat
    BY DEF LineType
  <2>3. ASSUME NEW i \in DOMAIN out[d]
        PROVE  out[d][i].c \in Nat /\ out[d][i].c <= case /\ out[d][i].c <= case' /\ out[d][i].c # case'
    <3>1. out[d][i] \in LineType
      BY <2>1
    <3>2. out[d][i].c \in Nat /\ out[d][i].c <= case
      BY <3>1, <2>1, <2>2 DEF OutputInv
    <3>3. QED
      BY <3>2, <1>3
  <2>4. ASSUME NEW i \in DOMAIN did[d]
        PROVE  did[d][i].c \in Nat /\ did[d][i].c <= case' /\ did[d][i].c # case'
    <3>1. did[d][i] \in LineType
      BY <2>1
    <3>2. did[d][i].c \in Nat /\ did[d][i].c <= case
      BY <3>1, <2>1, <2>2 DEF OutputInv
    <3>3. QED
      BY <3>2, <1>3
  <2>5. dev'[d].case \in Nat /\ dev'[d].case <= case' /\ dev'[d].case # case'
    <3>1. dev'[d].case \in Nat /\ dev'[d].case <= case
      BY <2>1, <1>3, <1>4, <1>5 DEF InputInv
    <3>2. QED
      BY <3>1, <1>3
  <2>6. ASSUME NEW i \in DOMAIN in'[d]
        PROVE  /\ in'[d][i] \in {0, d} \/ \E k \in 1..case' : in'[d][i] = CaseIndex[k]
               /\ in'[d][i] # CaseIndex[case']
    <3>1. in'[d][i] \in {0, d} \/ \E k \in 1..case : in'[d][i] = CaseIndex[k]
      BY <2>1, <1>4 DEF InputInv
    <3>2. CaseIndex[case'] # 0 /\ CaseIndex[case'] # d
      BY <1>3, MenuAssumption DEF IndicesApart
    <3>3. ASSUME NEW k \in 1..case
          PROVE  k \in 1..case' /\ k \in Case /\ k # case'
      <4>1. k \in Nat /\ k >= 1 /\ k <= case
        BY <1>3
      <4>2. k <= case' /\ k # case'
        BY <4>1, <1>3
      <4>3. case' \in 1..NCase /\ NCase \in Nat
        BY <1>3 DEF Case
      <4>4. QED
        BY <4>1, <4>2, <4>3 DEF Case
    <3>4. \A k \in 1..case : CaseIndex[k] # CaseIndex[case']
      BY <3>3, <1>3, MenuAssumption
    <3>5. QED
      BY <3>1, <3>2, <3>3, <3>4
  <2>7. InputInv(d)'
    BY <2>5, <2>6 DEF InputInv, Own
  <2>8. OutputInv(d)'
    BY <2>1, <2>3, <2>4, <1>1 DEF OutputInv, Did
  <2>9. Barred(d, case)'
    BY <2>4, <2>5, <2>6, <1>1 DEF Barred
  <2>10. WorkerInv(d)'
    BY <2>9, <1>1 DEF WorkerInv, Each
  <2>11. QED
    BY <2>7, <2>8, <2>10
<1>9. VerdictInv'
  <2>1. ASSUME NEW k \in Case
        PROVE  /\ report'[k] # "none" => k < case' \/ (k = case' /\ at' = "between")
               /\ report'[k] = "PASS" => \A e \in Dut : Did(e, Concluded(k, e, "PASS"))'
               /\ report'[k] = "IGNORE" => (\E e \in Dut : Barred(e, k)') \/ EndedBy(k)'
    <3>1. /\ report[k] # "none" => k < case \/ k = case
          /\ report[k] = "PASS" => \A e \in Dut : Did(e, Concluded(k, e, "PASS"))
          /\ report[k] = "IGNORE" => (\E e \in Dut : Barred(e, k)) \/ EndedBy(k)
      BY <1>3 DEF VerdictInv
    <3>2. k < case \/ k = case => k < case'
      BY <1>3 DEF Case
    <3>3. QED
      BY <3>1, <3>2, <1>1, <1>7, SameDeeds DEF Did
  <2>2. QED
    BY <2>1 DEF VerdictInv
<1>10. QED
  BY <1>6, <1>8, <1>9 DEF MultiInv, LaneInv

LEMMA InitHasTypes ==
    ASSUME Init
    PROVE  MultiTypes
<1>1. /\ at = "gather" /\ case = 1 /\ wpc = Each("ready") /\ data = Each("none") /\ waitSig = Each("")
      /\ query = Each(<<>>) /\ report = [k \in Case |-> "none"] /\ dev = Each(Booting)
      /\ in = Each(<<>>) /\ out = Each(<<>>) /\ did = Each(<<>>) /\ handed = Each(<<>>) /\ taken = Each(<<>>)
  BY DEF Init
<1>2. Booting \in DeviceType /\ Booting.st = "boot" /\ Booting.case = 0
  BY SizeAssumption DEF Booting, DeviceType
<1>3. case \in Case /\ case # 0
  <2>1. NCase \in Nat /\ NCase # 0
    BY SizeAssumption
  <2>2. case = 1
    BY <1>1
  <2>3. QED
    BY <2>1, <2>2 DEF Case
<1>4. TesterTypes
  BY <1>1, <1>3 DEF TesterTypes, Each, Value
<1>5. <<>> \in Seq(Value) /\ <<>> \in Seq(LineType) /\ <<>> \in Seq(Nat)
  OBVIOUS
<1>6. QueueTypes
  BY <1>1, <1>5 DEF QueueTypes, Each
<1>7. ASSUME NEW d \in Dut
      PROVE  /\ dev[d] = Booting /\ in[d] = <<>> /\ DOMAIN in[d] = {}
             /\ DOMAIN out[d] = {} /\ DOMAIN did[d] = {}
             /\ wpc[d] = "ready" /\ data[d] = "none"
  <2>1. DOMAIN <<>> = {}
    OBVIOUS
  <2>2. dev[d] = Booting /\ in[d] = <<>> /\ out[d] = <<>> /\ did[d] = <<>> /\ wpc[d] = "ready" /\ data[d] = "none"
    BY <1>1 DEF Each
  <2>3. QED
    BY <2>1, <2>2
<1>8. DeviceTypes
  <2>1. /\ dev \in [Dut -> DeviceType] /\ in \in [Dut -> Seq(Nat)]
        /\ out \in [Dut -> Seq(LineType)] /\ did \in [Dut -> Seq(LineType)]
    BY <1>1, <1>2, <1>5 DEF Each
  <2>2. QED
    BY <2>1, <1>2, <1>7 DEF DeviceTypes
<1>9. QED
  BY <1>4, <1>6, <1>8 DEF MultiTypes

LEMMA InitHasInv ==
    ASSUME Init
    PROVE  MultiInv
<1>1. /\ at = "gather" /\ case = 1 /\ wpc = Each("ready") /\ data = Each("none") /\ waitSig = Each("")
      /\ query = Each(<<>>) /\ report = [k \in Case |-> "none"] /\ dev = Each(Booting)
      /\ in = Each(<<>>) /\ out = Each(<<>>) /\ did = Each(<<>>) /\ handed = Each(<<>>) /\ taken = Each(<<>>)
  BY DEF Init
<1>2. Booting \in DeviceType /\ Booting.st = "boot" /\ Booting.case = 0
  BY SizeAssumption DEF Booting, DeviceType
<1>3. case \in Case /\ case # 0
  <2>1. NCase \in Nat /\ NCase # 0
    BY SizeAssumption
  <2>2. case = 1
    BY <1>1
  <2>3. QED
    BY <2>1, <2>2 DEF Case
<1>4. MultiTypes
  BY InitHasTypes
<1>7. ASSUME NEW d \in Dut
      PROVE  /\ dev[d] = Booting /\ in[d] = <<>> /\ DOMAIN in[d] = {}
             /\ DOMAIN out[d] = {} /\ DOMAIN did[d] = {}
             /\ wpc[d] = "ready" /\ data[d] = "none"
  <2>1. DOMAIN <<>> = {}
    OBVIOUS
  <2>2. dev[d] = Booting /\ in[d] = <<>> /\ out[d] = <<>> /\ did[d] = <<>> /\ wpc[d] = "ready" /\ data[d] = "none"
    BY <1>1 DEF Each
  <2>3. QED
    BY <2>1, <2>2
<1>9. ASSUME NEW d \in Dut
      PROVE  InputInv(d) /\ OutputInv(d) /\ WorkerInv(d)
  <2>1. dev[d].case <= case /\ dev[d].case # case
    <3>1. dev[d].case = 0
      BY <1>2, <1>7
    <3>2. case = 1
      BY <1>1
    <3>3. QED
      BY <3>1, <3>2
  <2>11. InputInv(d)
    BY <2>1, <1>7 DEF InputInv
  <2>2. OutputInv(d)
    BY <1>7 DEF OutputInv
  <2>3. Barred(d, case)
    BY <1>2, <1>3, <1>7 DEF Barred
  <2>4. WorkerInv(d)
    BY <2>3, <1>7 DEF WorkerInv
  <2>5. QED
    BY <2>11, <2>2, <2>4
<1>10. VerdictInv
  BY <1>1 DEF VerdictInv
<1>11. QED
  BY <1>4, <1>9, <1>10 DEF MultiInv, LaneInv

LEMMA NextKeepsInv ==
    ASSUME MultiInv, IndicesApart, [Next]_vars
    PROVE  MultiInv'
<1>1. CASE \E d \in Dut : Worker(d)
  <2>1. PICK d \in Dut : Worker(d)
    BY <1>1
  <2>2. MultiTypes /\ LaneInv /\ VerdictInv
    BY DEF MultiInv
  <2>3. WorkerEffect(d) /\ MultiTypes'
    BY <2>1, <2>2, WorkerHasEffect, WorkerKeepsTypes
  <2>4. LaneInv' /\ VerdictInv'
    BY <2>2, <2>3, TurnKeepsLanes
  <2>5. QED
    BY <2>3, <2>4 DEF MultiInv
<1>2. CASE GatherRaises
  BY <1>2, RaiseKeepsInv
<1>3. CASE GatherReturns
  BY <1>3, ReturnKeepsInv
<1>4. CASE NextRound
  BY <1>4, RoundKeepsInv
<1>5. CASE NextCase
  BY <1>5, CaseKeepsInv
<1>6. CASE \E d \in Dut : Firmware(d) \/ Hang(d)
  BY <1>6, StepKeepsLanes
<1>7. CASE UNCHANGED vars
  <2>1. UNCHANGED <<at, case, dev, in, out, did, wpc, data, waitSig, query, report, handed, taken>>
    BY <1>7 DEF vars, workerVars, deviceVars
  <2>2. LaneInv' /\ \A d \in Dut, k \in Case : Barred(d, k) => Barred(d, k)'
    BY <2>1, LanesStay DEF MultiInv
  <2>3. MultiTypes'
    BY <2>1 DEF MultiInv, MultiTypes, TesterTypes, QueueTypes, DeviceTypes
  <2>4. VerdictInv'
    BY <2>1, <2>2, SameDeeds DEF MultiInv, VerdictInv, Did
  <2>5. QED
    BY <2>2, <2>3, <2>4 DEF MultiInv
<1>8. QED
  BY <1>1, <1>2, <1>3, <1>4, <1>5, <1>6, <1>7 DEF Next, Tester, Over

LEMMA MultiInvariant ==
    ASSUME IndicesApart
    PROVE  Spec => []MultiInv
<1>1. Init => MultiInv
  BY InitHasInv
<1>2. MultiInv /\ [Next]_vars => MultiInv'
  BY NextKeepsInv
<1>3. QED
  BY <1>1, <1>2, PTL DEF Spec

\* Without an event that says so, no sub-case of k was run.
LEMMA NotRun ==
    ASSUME MultiTypes, NEW d \in Dut, NEW k \in Case,
           \A i \in DOMAIN did[d] : ~(did[d][i].t = "result" /\ did[d][i].c = k)
    PROVE  \A i \in Dut, r \in Outcomes : ~Did(d, Concluded(k, i, r))
<1> SUFFICES ASSUME NEW i \in Dut, NEW r \in Outcomes, Did(d, Concluded(k, i, r))
             PROVE  FALSE
  OBVIOUS
<1>1. Concluded(k, i, r).t = "result" /\ Concluded(k, i, r).c = k
  BY DEF Concluded, Line
<1>2. PICK j \in 1..Len(did[d]) : did[d][j] = Concluded(k, i, r)
  BY DEF Did, Contains
<1>3. did[d] \in Seq(LineType)
  BY DEF MultiTypes, DeviceTypes
<1>4. j \in DOMAIN did[d]
  BY <1>3
<1>5. QED
  BY <1>1, <1>2, <1>4

\* The verdicts, when no index of a case is the number of a device.
LEMMA ApartVerdicts ==
    ASSUME IndicesApart
    PROVE  Spec => [](PassMeansPassed /\ IgnoredIsExplained)
<1>1. MultiInv => PassMeansPassed
  BY DEF MultiInv, VerdictInv, PassMeansPassed
<1>2. MultiInv => IgnoredIsExplained
  <2> SUFFICES ASSUME MultiInv, NEW k \in Case, report[k] = "IGNORE", ~EndedBy(k)
               PROVE  \E d \in Dut : \A i \in Dut, r \in Outcomes : ~Did(d, Concluded(k, i, r))
    BY DEF IgnoredIsExplained, EndedBy
  <2>1. PICK d \in Dut : Barred(d, k)
    BY DEF MultiInv, VerdictInv
  <2>2. \A i \in Dut, r \in Outcomes : ~Did(d, Concluded(k, i, r))
    BY <2>1, NotRun DEF Barred, MultiInv
  <2>3. QED
    BY <2>2
<1>3. QED
  BY <1>1, <1>2, MultiInvariant, PTL

-----------------------------------------------------------------------------
(* The signals. *)

\* Where x occurs in the sequences f[e] of the devices e in D.
Places(f, D, x) == UNION {{<<e, i>> : i \in {j \in DOMAIN f[e] : f[e][j] = x}} : e \in D}

LEMMA PlaceFacts ==
    ASSUME NEW f, NEW D, NEW x
    PROVE  /\ Occurrences(f, D, x) = Cardinality(Places(f, D, x))
           /\ \A p : p \in Places(f, D, x) <=> \E e \in D : \E i \in DOMAIN f[e] : f[e][i] = x /\ p = <<e, i>>
  BY DEF Occurrences, Places

\* Equal sequences have equal places.
LEMMA SamePlaces ==
    ASSUME NEW f, NEW g, NEW D, NEW x, \A e \in D : g[e] = f[e]
    PROVE  Places(g, D, x) = Places(f, D, x)
<1>1. \A p : p \in Places(g, D, x) <=> p \in Places(f, D, x)
  BY PlaceFacts
<1>2. QED
  BY <1>1

\* Among the sequences of D, g has one element more than f: v, at the end of d's.
HasAppended(f, g, D, d, v) ==
    /\ d \in D /\ \A e \in D : e # d => g[e] = f[e]
    /\ \E T : \E q \in Seq(T) : f[d] = q /\ g[d] = Append(q, v)

\* g[d] is f[d] without one w.
HasRemoved(f, g, d, w) ==
    \E T : \E q \in Seq(T) : f[d] = q /\ Contains(q, w) /\ g[d] = RemoveFirst(q, w)

\* One more element is one more place, if it is x.
LEMMA AppendedPlace ==
    ASSUME NEW f, NEW g, NEW D, NEW d, NEW v, NEW x, HasAppended(f, g, D, d, v), IsFiniteSet(Places(f, D, x))
    PROVE  /\ IsFiniteSet(Places(g, D, x))
           /\ Occurrences(f, D, x) \in Nat
           /\ Occurrences(g, D, x) = Occurrences(f, D, x) + (IF v = x THEN 1 ELSE 0)
<1>a. d \in D /\ \A e \in D : e # d => g[e] = f[e]
  BY DEF HasAppended
<1>b. PICK T : \E q \in Seq(T) : f[d] = q /\ g[d] = Append(q, v)
  BY DEF HasAppended
<1>c. PICK q \in Seq(T) : f[d] = q /\ g[d] = Append(q, v)
  BY <1>b
<1>1. PICK n \in Nat : n = Len(q) + 1
  OBVIOUS
<1>2. /\ DOMAIN q = 1..Len(q) /\ DOMAIN g[d] = 1..n /\ g[d][n] = v /\ n \notin DOMAIN q /\ n \in DOMAIN g[d]
      /\ \A i \in DOMAIN q : g[d][i] = q[i] /\ i \in DOMAIN g[d]
      /\ \A i \in DOMAIN g[d] : i \in DOMAIN q \/ i = n
  BY <1>1, <1>c
<1>3. PICK P : P = Places(f, D, x)
  OBVIOUS
<1>4. <<d, n>> \notin P
  BY <1>c, <1>2, <1>3, PlaceFacts
<1>5. CASE v = x
  <2>1. ASSUME NEW p \in Places(g, D, x)
        PROVE  p \in P \cup {<<d, n>>}
    <3>0. PICK e \in D : \E i \in DOMAIN g[e] : g[e][i] = x /\ p = <<e, i>>
      BY PlaceFacts
    <3>1. PICK i \in DOMAIN g[e] : g[e][i] = x /\ p = <<e, i>>
      BY <3>0
    <3>2. CASE e = d /\ i = n
      BY <3>1, <3>2
    <3>3. CASE ~(e = d /\ i = n)
      <4>1. i \in DOMAIN f[e] /\ f[e][i] = x
        BY <3>1, <3>3, <1>2, <1>a, <1>c
      <4>2. QED
        BY <3>1, <4>1, <1>3, PlaceFacts
    <3>4. QED
      BY <3>2, <3>3
  <2>2. ASSUME NEW p \in P
        PROVE  p \in Places(g, D, x)
    <3>0. PICK e \in D : \E i \in DOMAIN f[e] : f[e][i] = x /\ p = <<e, i>>
      BY <1>3, PlaceFacts
    <3>1. PICK i \in DOMAIN f[e] : f[e][i] = x /\ p = <<e, i>>
      BY <3>0
    <3>2. i \in DOMAIN g[e] /\ g[e][i] = x
      BY <3>1, <1>2, <1>a, <1>c
    <3>3. QED
      BY <3>1, <3>2, PlaceFacts
  <2>3. <<d, n>> \in Places(g, D, x)
    BY <1>a, <1>2, <1>5, PlaceFacts
  <2>4. Places(g, D, x) = P \cup {<<d, n>>}
    BY <2>1, <2>2, <2>3
  <2>5. IsFiniteSet(P \cup {<<d, n>>}) /\ Cardinality(P \cup {<<d, n>>}) = Cardinality(P) + 1
    BY <1>3, <1>4, FS_AddElement
  <2>6. Cardinality(P) \in Nat
    BY <1>3, FS_CardinalityType
  <2>7. QED
    BY <2>4, <2>5, <2>6, <1>3, <1>5, PlaceFacts
<1>6. CASE v # x
  <2>1. ASSUME NEW p \in Places(g, D, x)
        PROVE  p \in P
    <3>0. PICK e \in D : \E i \in DOMAIN g[e] : g[e][i] = x /\ p = <<e, i>>
      BY PlaceFacts
    <3>1. PICK i \in DOMAIN g[e] : g[e][i] = x /\ p = <<e, i>>
      BY <3>0
    <3>2. i \in DOMAIN f[e] /\ f[e][i] = x
      BY <3>1, <1>2, <1>6, <1>a, <1>c
    <3>3. QED
      BY <3>1, <3>2, <1>3, PlaceFacts
  <2>2. ASSUME NEW p \in P
        PROVE  p \in Places(g, D, x)
    <3>0. PICK e \in D : \E i \in DOMAIN f[e] : f[e][i] = x /\ p = <<e, i>>
      BY <1>3, PlaceFacts
    <3>1. PICK i \in DOMAIN f[e] : f[e][i] = x /\ p = <<e, i>>
      BY <3>0
    <3>2. i \in DOMAIN g[e] /\ g[e][i] = x
      BY <3>1, <1>2, <1>a, <1>c
    <3>3. QED
      BY <3>1, <3>2, PlaceFacts
  <2>3. Places(g, D, x) = P
    BY <2>1, <2>2
  <2>4. Cardinality(P) \in Nat
    BY <1>3, FS_CardinalityType
  <2>5. QED
    BY <2>3, <2>4, <1>3, <1>6, PlaceFacts
<1>7. QED
  BY <1>5, <1>6

\* A removed element is one place less, if it is x: the places behind it move up.
LEMMA RemovedPlace ==
    ASSUME NEW f, NEW g, NEW d, NEW w, NEW x, HasRemoved(f, g, d, w), IsFiniteSet(Places(f, {d}, x))
    PROVE  /\ IsFiniteSet(Places(g, {d}, x))
           /\ Occurrences(f, {d}, x) \in Nat
           /\ Occurrences(g, {d}, x) = Occurrences(f, {d}, x) - (IF w = x THEN 1 ELSE 0)
<1>a. PICK T : \E q \in Seq(T) : f[d] = q /\ Contains(q, w) /\ g[d] = RemoveFirst(q, w)
  BY DEF HasRemoved
<1>b. PICK q \in Seq(T) : f[d] = q /\ Contains(q, w) /\ g[d] = RemoveFirst(q, w)
  BY <1>a
<1>1. PICK r \in Seq(T) : r = RemoveFirst(q, w)
  BY <1>b, RemoveFacts
<1>2. PICK p \in 1..Len(q) : /\ q[p] = w /\ Len(r) = Len(q) - 1
                             /\ \A i \in 1..(Len(q) - 1) : r[i] = IF i < p THEN q[i] ELSE q[i + 1]
  BY <1>b, <1>1, RemoveFacts
<1>3. PICK n \in Nat : n = Len(q)
  OBVIOUS
<1>4. DOMAIN q = 1..n /\ DOMAIN r = 1..(n - 1) /\ p \in 1..n /\ p \in Nat
      /\ \A i \in 1..(n - 1) : r[i] = IF i < p THEN q[i] ELSE q[i + 1]
  BY <1>2, <1>3
<1>5. PICK P : P = Places(f, {d}, x)
  OBVIOUS
<1>6. PICK Q : Q = Places(g, {d}, x)
  OBVIOUS
<1>7. \A z : z \in P <=> \E i \in 1..n : q[i] = x /\ z = <<d, i>>
  BY <1>b, <1>4, <1>5, PlaceFacts
<1>8. \A z : z \in Q <=> \E i \in 1..(n - 1) : r[i] = x /\ z = <<d, i>>
  BY <1>b, <1>1, <1>4, <1>6, PlaceFacts
<1> DEFINE S == P \ {<<d, p>>}
           B == [z \in S |-> <<d, IF z[2] < p THEN z[2] ELSE z[2] - 1>>]
<1>9. ASSUME NEW z \in S
      PROVE  \E i \in 1..n : /\ q[i] = x /\ z = <<d, i>> /\ i # p
                             /\ B[z] = <<d, IF i < p THEN i ELSE i - 1>> /\ B[z] \in Q
  <2>1. PICK i \in 1..n : q[i] = x /\ z = <<d, i>>
    BY <1>7
  <2>2. i # p
    BY <2>1
  <2>3. PICK j : j = IF i < p THEN i ELSE i - 1
    OBVIOUS
  <2>4. B[z] = <<d, j>>
    BY <2>1, <2>3
  <2>5. j \in 1..(n - 1) /\ r[j] = x
    <3>1. CASE i < p
      BY <3>1, <2>1, <2>3, <1>4
    <3>2. CASE i > p
      <4>1. j \in 1..(n - 1) /\ ~(j < p) /\ j + 1 = i
        BY <3>2, <2>3, <1>4
      <4>2. QED
        BY <4>1, <2>1, <1>4
    <3>3. QED
      BY <3>1, <3>2, <2>2, <1>4
  <2>6. <<d, j>> \in Q
    BY <2>5, <1>8
  <2>7. QED
    BY <2>1, <2>2, <2>3, <2>4, <2>6
<1>10. B \in [S -> Q]
  BY <1>9
<1>11. ASSUME NEW y \in S, NEW z \in S, B[y] = B[z]
       PROVE  y = z
  <2>1. PICK i \in 1..n : y = <<d, i>> /\ i # p /\ B[y] = <<d, IF i < p THEN i ELSE i - 1>>
    BY <1>9
  <2>2. PICK j \in 1..n : z = <<d, j>> /\ j # p /\ B[z] = <<d, IF j < p THEN j ELSE j - 1>>
    BY <1>9
  <2>30. PICK a : a = IF i < p THEN i ELSE i - 1
    OBVIOUS
  <2>31. PICK b : b = IF j < p THEN j ELSE j - 1
    OBVIOUS
  <2>32. <<d, a>> = <<d, b>>
    <3> HIDE DEF B
    <3> QED BY <2>1, <2>2, <2>30, <2>31, <1>11
  <2>33. a = b
    BY <2>32
  <2>34. i \in Nat /\ j \in Nat /\ p \in Nat /\ i # p /\ j # p
    BY <2>1, <2>2, <1>4
  <2>4. i = j
    BY <2>30, <2>31, <2>33, <2>34
  <2>5. QED
    BY <2>1, <2>2, <2>4
<1>12. ASSUME NEW z \in Q
       PROVE  \E y \in S : B[y] = z
  <2>1. PICK j \in 1..(n - 1) : r[j] = x /\ z = <<d, j>>
    BY <1>8
  <2>2. PICK i : i = IF j < p THEN j ELSE j + 1
    OBVIOUS
  <2>3. i \in 1..n /\ q[i] = x /\ i # p
    <3>1. CASE j < p
      BY <3>1, <2>1, <2>2, <1>4
    <3>2. CASE ~(j < p)
      BY <3>2, <2>1, <2>2, <1>4
    <3>3. QED
      BY <3>1, <3>2
  <2>4. PICK y : y = <<d, i>>
    OBVIOUS
  <2>5. y \in S
    BY <2>3, <2>4, <1>7
  <2>6. (IF i < p THEN i ELSE i - 1) = j
    BY <2>1, <2>2, <1>4
  <2>7. B[y] = <<d, IF i < p THEN i ELSE i - 1>>
    BY <2>4, <2>5
  <2>8. QED
    BY <2>1, <2>5, <2>6, <2>7
<1>13. ExistsBijection(S, Q)
  <2> HIDE DEF S, B
  <2>0. \A y, z \in S : B[y] = B[z] => y = z
    BY <1>11
  <2>1. B \in Injection(S, Q)
    BY <2>0, <1>10 DEF Injection, IsInjective
  <2>2. B \in Surjection(S, Q)
    BY <1>10, <1>12 DEF Surjection
  <2>3. QED
    BY <2>1, <2>2 DEF ExistsBijection, Bijection
<1>14. IsFiniteSet(P)
  BY <1>5
<1>15. IsFiniteSet(S) /\ Cardinality(S) = IF <<d, p>> \in P THEN Cardinality(P) - 1 ELSE Cardinality(P)
  BY <1>14, FS_RemoveElement
<1>16. IsFiniteSet(Q) /\ Cardinality(Q) = Cardinality(S)
  <2> HIDE DEF S
  <2> QED BY <1>13, <1>15, FS_Bijection
<1>17. <<d, p>> \in P <=> w = x
  BY <1>2, <1>4, <1>7
<1>18. Cardinality(P) \in Nat
  BY <1>14, FS_CardinalityType
<1>19. Occurrences(f, {d}, x) = Cardinality(P) /\ Occurrences(g, {d}, x) = Cardinality(Q)
  BY <1>5, <1>6, PlaceFacts
<1>20. Cardinality(Q) = Cardinality(P) - (IF w = x THEN 1 ELSE 0)
  <2> HIDE DEF S
  <2> QED BY <1>15, <1>16, <1>17, <1>18
<1>21. QED
  BY <1>6, <1>16, <1>18, <1>19, <1>20

\* The queues are sequences, of whatever.
SignalTypes(T) ==
    /\ query \in [Dut -> Seq(T)]
    /\ handed \in [Dut -> Seq(T)]
    /\ taken \in [Dut -> Seq(T)]

\* What d has used is in so many places, and what is in its queue; the others have
\* handed on as much.
Balanced(d, s) ==
    /\ IsFiniteSet(Places(taken, {d}, s)) /\ IsFiniteSet(Places(query, {d}, s))
    /\ IsFiniteSet(Places(handed, Dut \ {d}, s))
    /\ Occurrences(taken, {d}, s) + Occurrences(query, {d}, s) = Occurrences(handed, Dut \ {d}, s)

SignalInv ==
    /\ \E T : SignalTypes(T)
    /\ \A d \in Dut, s \in Signals : Balanced(d, s)

LEMMA NoPlaces ==
    ASSUME NEW f, NEW D, NEW x, \A e \in D : f[e] = <<>>
    PROVE  IsFiniteSet(Places(f, D, x)) /\ Occurrences(f, D, x) = 0
<1>1. \A p : p \notin Places(f, D, x)
  <2>1. \A e \in D : DOMAIN f[e] = {}
    OBVIOUS
  <2>2. QED
    BY <2>1, PlaceFacts
<1>2. Places(f, D, x) = {}
  BY <1>1
<1>3. IsFiniteSet({}) /\ Cardinality({}) = 0
  BY FS_EmptySet
<1>4. QED
  BY <1>2, <1>3, PlaceFacts

LEMMA NothingHandedYet ==
    ASSUME NEW d \in Dut, NEW s, NEW q, NEW h, NEW t, q = Each(<<>>), h = Each(<<>>), t = Each(<<>>)
    PROVE  /\ IsFiniteSet(Places(t, {d}, s)) /\ IsFiniteSet(Places(q, {d}, s)) /\ IsFiniteSet(Places(h, Dut \ {d}, s))
           /\ Occurrences(t, {d}, s) + Occurrences(q, {d}, s) = Occurrences(h, Dut \ {d}, s)
<1>1. \A e \in Dut : q[e] = <<>> /\ h[e] = <<>> /\ t[e] = <<>>
  BY DEF Each
<1>2. \A e \in {d} : t[e] = <<>> /\ q[e] = <<>>
  BY <1>1
<1>3. \A e \in Dut \ {d} : h[e] = <<>>
  BY <1>1
<1>4. IsFiniteSet(Places(t, {d}, s)) /\ Occurrences(t, {d}, s) = 0
  BY <1>2, NoPlaces
<1>5. IsFiniteSet(Places(q, {d}, s)) /\ Occurrences(q, {d}, s) = 0
  BY <1>2, NoPlaces
<1>6. IsFiniteSet(Places(h, Dut \ {d}, s)) /\ Occurrences(h, Dut \ {d}, s) = 0
  BY <1>3, NoPlaces
<1>7. QED
  BY <1>4, <1>5, <1>6

\* A signal of d goes to the queue of every other worker.
LEMMA HandingOnBalances ==
    ASSUME NEW d \in Dut, NEW v
    PROVE  SignalInv /\ HandOn(d, v) /\ taken' = taken /\ handed' = [handed EXCEPT ![d] = Append(@, v)]
             => SignalInv'
<1>0. SUFFICES ASSUME SignalInv, HandOn(d, v), taken' = taken, handed' = [handed EXCEPT ![d] = Append(@, v)]
               PROVE  SignalInv'
  OBVIOUS
<1>1. PICK T : SignalTypes(T)
  BY <1>0 DEF SignalInv
<1>2. /\ query \in [Dut -> Seq(T)] /\ handed \in [Dut -> Seq(T)] /\ taken \in [Dut -> Seq(T)]
  BY <1>1 DEF SignalTypes
<1>3. \A q \in Seq(T) : q \in Seq(T \cup {v}) /\ Append(q, v) \in Seq(T \cup {v})
  OBVIOUS
<1>4. query' = [e \in Dut |-> IF e = d THEN query[e] ELSE Append(query[e], v)]
  BY <1>0 DEF HandOn
<1>5. SignalTypes(T \cup {v})'
  <2>1. query' \in [Dut -> Seq(T \cup {v})]
    BY <1>2, <1>3, <1>4
  <2>2. handed' \in [Dut -> Seq(T \cup {v})]
    BY <1>0, <1>2, <1>3
  <2>3. taken' \in [Dut -> Seq(T \cup {v})]
    BY <1>0, <1>2, <1>3
  <2>4. QED
    BY <2>1, <2>2, <2>3 DEF SignalTypes
<1>6. ASSUME NEW e \in Dut, NEW s \in Signals
      PROVE  Balanced(e, s)'
  <2>1. Balanced(e, s)
    BY <1>0 DEF SignalInv
  <2>2. /\ IsFiniteSet(Places(taken, {e}, s)) /\ IsFiniteSet(Places(query, {e}, s))
        /\ IsFiniteSet(Places(handed, Dut \ {e}, s))
        /\ Occurrences(taken, {e}, s) + Occurrences(query, {e}, s) = Occurrences(handed, Dut \ {e}, s)
    BY <2>1 DEF Balanced
  <2>3. CASE e = d
    <3>1. query'[d] = query[d] /\ \A a \in Dut \ {d} : handed'[a] = handed[a]
      BY <1>0, <1>2, <1>4
    <3>2. Places(query', {d}, s) = Places(query, {d}, s)
      BY <3>1, SamePlaces
    <3>3. Places(handed', Dut \ {d}, s) = Places(handed, Dut \ {d}, s)
      <4>1. \A f, g, D : (\A a \in D : g[a] = f[a]) => Places(g, D, s) = Places(f, D, s)
        BY SamePlaces
      <4>2. QED
        BY <3>1, <4>1
    <3>4. /\ Occurrences(query', {d}, s) = Occurrences(query, {d}, s)
          /\ Occurrences(handed', Dut \ {d}, s) = Occurrences(handed, Dut \ {d}, s)
      BY <3>2, <3>3, PlaceFacts
    <3>5. QED
      BY <3>2, <3>3, <3>4, <2>2, <2>3, <1>0 DEF Balanced
  <2>4. CASE e # d
    <3>1. PICK q \in Seq(T) : q = query[e]
      BY <1>2
    <3>2. PICK h \in Seq(T) : h = handed[d]
      BY <1>2
    <3>3. query'[e] = Append(q, v) /\ \A a \in {e} : a # e => query'[a] = query[a]
      BY <3>1, <2>4, <1>4
    <3>4. handed'[d] = Append(h, v) /\ (\A a \in Dut \ {e} : a # d => handed'[a] = handed[a]) /\ d \in Dut \ {e}
      BY <3>2, <2>4, <1>0, <1>2
    <3>5. /\ IsFiniteSet(Places(query', {e}, s)) /\ Occurrences(query, {e}, s) \in Nat
          /\ Occurrences(query', {e}, s) = Occurrences(query, {e}, s) + (IF v = s THEN 1 ELSE 0)
      <4>1. PICK D : D = {e}
        OBVIOUS
      <4>2. PICK f : f = query
        OBVIOUS
      <4>3. PICK g : g = query'
        OBVIOUS
      <4>4. e \in D /\ f[e] = q /\ g[e] = Append(q, v) /\ (\A a \in D : a # e => g[a] = f[a]) /\ IsFiniteSet(Places(f, D, s))
        BY <4>1, <4>2, <4>3, <3>1, <3>3, <2>2
      <4>5. /\ IsFiniteSet(Places(g, D, s)) /\ Occurrences(f, D, s) \in Nat
            /\ Occurrences(g, D, s) = Occurrences(f, D, s) + (IF v = s THEN 1 ELSE 0)
        <5>1. HasAppended(f, g, D, e, v)
          BY <3>1, <4>4 DEF HasAppended
        <5>2. QED
          BY <5>1, <4>4, AppendedPlace
      <4>6. QED
        BY <4>1, <4>2, <4>3, <4>5
    <3>6. /\ IsFiniteSet(Places(handed', Dut \ {e}, s)) /\ Occurrences(handed, Dut \ {e}, s) \in Nat
          /\ Occurrences(handed', Dut \ {e}, s) = Occurrences(handed, Dut \ {e}, s) + (IF v = s THEN 1 ELSE 0)
      <4>1. PICK D : D = Dut \ {e}
        OBVIOUS
      <4>2. PICK f : f = handed
        OBVIOUS
      <4>3. PICK g : g = handed'
        OBVIOUS
      <4>4. d \in D /\ f[d] = h /\ g[d] = Append(h, v) /\ (\A a \in D : a # d => g[a] = f[a]) /\ IsFiniteSet(Places(f, D, s))
        BY <4>1, <4>2, <4>3, <3>2, <3>4, <2>2
      <4>5. /\ IsFiniteSet(Places(g, D, s)) /\ Occurrences(f, D, s) \in Nat
            /\ Occurrences(g, D, s) = Occurrences(f, D, s) + (IF v = s THEN 1 ELSE 0)
        <5>1. HasAppended(f, g, D, d, v)
          BY <3>2, <4>4 DEF HasAppended
        <5>2. QED
          BY <5>1, <4>4, AppendedPlace
      <4>6. QED
        BY <4>1, <4>2, <4>3, <4>5
    <3>7. Occurrences(taken, {e}, s) \in Nat
      BY <2>2, PlaceFacts, FS_CardinalityType
    <3>8. Occurrences(taken, {e}, s) + Occurrences(query', {e}, s) = Occurrences(handed', Dut \ {e}, s)
      BY <3>5, <3>6, <3>7, <2>2
    <3>9. QED
      BY <3>5, <3>6, <3>8, <2>2, <1>0 DEF Balanced
  <2>5. QED
    BY <2>3, <2>4
<1>7. QED
  BY <1>5, <1>6 DEF SignalInv

\* A wait takes one signal out of the queue of d.
LEMMA TakingBalances ==
    ASSUME NEW d \in Dut, NEW w
    PROVE  /\ SignalInv /\ Contains(query[d], w) /\ handed' = handed
           /\ query' = [query EXCEPT ![d] = RemoveFirst(@, w)] /\ taken' = [taken EXCEPT ![d] = Append(@, w)]
           => SignalInv'
<1>0. SUFFICES ASSUME SignalInv, Contains(query[d], w), handed' = handed,
                      query' = [query EXCEPT ![d] = RemoveFirst(@, w)], taken' = [taken EXCEPT ![d] = Append(@, w)]
               PROVE  SignalInv'
  OBVIOUS
<1>1. PICK T : SignalTypes(T)
  BY <1>0 DEF SignalInv
<1>2. /\ query \in [Dut -> Seq(T)] /\ handed \in [Dut -> Seq(T)] /\ taken \in [Dut -> Seq(T)]
  BY <1>1 DEF SignalTypes
<1>3. \A q \in Seq(T) : q \in Seq(T \cup {w}) /\ Append(q, w) \in Seq(T \cup {w})
  OBVIOUS
<1>4. PICK q \in Seq(T) : q = query[d]
  BY <1>2
<1>5. PICK h \in Seq(T) : h = taken[d]
  BY <1>2
<1>6. PICK r \in Seq(T) : r = RemoveFirst(q, w)
  BY <1>0, <1>4, RemoveFacts
<1>7. query' = [query EXCEPT ![d] = r]
  BY <1>0, <1>4, <1>6
<1>8. SignalTypes(T \cup {w})'
  <2>1. query' \in [Dut -> Seq(T \cup {w})]
    BY <1>2, <1>3, <1>7
  <2>2. handed' \in [Dut -> Seq(T \cup {w})]
    BY <1>0, <1>2, <1>3
  <2>3. taken' \in [Dut -> Seq(T \cup {w})]
    BY <1>0, <1>2, <1>3
  <2>4. QED
    BY <2>1, <2>2, <2>3 DEF SignalTypes
<1>9. ASSUME NEW e \in Dut, NEW s \in Signals
      PROVE  Balanced(e, s)'
  <2>1. Balanced(e, s)
    BY <1>0 DEF SignalInv
  <2>2. /\ IsFiniteSet(Places(taken, {e}, s)) /\ IsFiniteSet(Places(query, {e}, s))
        /\ IsFiniteSet(Places(handed, Dut \ {e}, s))
        /\ Occurrences(taken, {e}, s) + Occurrences(query, {e}, s) = Occurrences(handed, Dut \ {e}, s)
    BY <2>1 DEF Balanced
  <2>3. CASE e # d
    <3>1. query'[e] = query[e] /\ taken'[e] = taken[e]
      BY <2>3, <1>0, <1>2, <1>7
    <3>2. Places(query', {e}, s) = Places(query, {e}, s) /\ Places(taken', {e}, s) = Places(taken, {e}, s)
      <4>1. \A f, g, D : (\A a \in D : g[a] = f[a]) => Places(g, D, s) = Places(f, D, s)
        BY SamePlaces
      <4>2. QED
        BY <3>1, <4>1
    <3>3. /\ Occurrences(query', {e}, s) = Occurrences(query, {e}, s)
          /\ Occurrences(taken', {e}, s) = Occurrences(taken, {e}, s)
      BY <3>2, PlaceFacts
    <3>4. QED
      BY <3>2, <3>3, <2>2, <1>0 DEF Balanced
  <2>4. CASE e = d
    <3>1. query'[d] = RemoveFirst(q, w) /\ taken'[d] = Append(h, w) /\ Contains(q, w)
      BY <1>0, <1>2, <1>4, <1>5, <1>6, <1>7
    <3>2. /\ IsFiniteSet(Places(query', {d}, s)) /\ Occurrences(query, {d}, s) \in Nat
          /\ Occurrences(query', {d}, s) = Occurrences(query, {d}, s) - (IF w = s THEN 1 ELSE 0)
      <4>1. PICK f : f = query
        OBVIOUS
      <4>2. PICK g : g = query'
        OBVIOUS
      <4>3. f[d] = q /\ g[d] = RemoveFirst(q, w) /\ Contains(q, w) /\ IsFiniteSet(Places(f, {d}, s))
        BY <4>1, <4>2, <3>1, <2>2, <2>4, <1>4
      <4>4. /\ IsFiniteSet(Places(g, {d}, s)) /\ Occurrences(f, {d}, s) \in Nat
            /\ Occurrences(g, {d}, s) = Occurrences(f, {d}, s) - (IF w = s THEN 1 ELSE 0)
        <5>1. HasRemoved(f, g, d, w)
          BY <1>4, <4>3 DEF HasRemoved
        <5>2. QED
          BY <5>1, <4>3, RemovedPlace
      <4>5. QED
        BY <4>1, <4>2, <4>4
    <3>3. /\ IsFiniteSet(Places(taken', {d}, s)) /\ Occurrences(taken, {d}, s) \in Nat
          /\ Occurrences(taken', {d}, s) = Occurrences(taken, {d}, s) + (IF w = s THEN 1 ELSE 0)
      <4>1. PICK D : D = {d}
        OBVIOUS
      <4>2. PICK f : f = taken
        OBVIOUS
      <4>3. PICK g : g = taken'
        OBVIOUS
      <4>4. d \in D /\ f[d] = h /\ g[d] = Append(h, w) /\ (\A a \in D : a # d => g[a] = f[a]) /\ IsFiniteSet(Places(f, D, s))
        BY <4>1, <4>2, <4>3, <3>1, <2>2, <2>4, <1>5
      <4>5. /\ IsFiniteSet(Places(g, D, s)) /\ Occurrences(f, D, s) \in Nat
            /\ Occurrences(g, D, s) = Occurrences(f, D, s) + (IF w = s THEN 1 ELSE 0)
        <5>1. HasAppended(f, g, D, d, w)
          BY <1>5, <4>4 DEF HasAppended
        <5>2. QED
          BY <5>1, <4>4, AppendedPlace
      <4>6. QED
        BY <4>1, <4>2, <4>3, <4>5
    <3>4. Occurrences(taken', {d}, s) + Occurrences(query', {d}, s) = Occurrences(taken, {d}, s) + Occurrences(query, {d}, s)
      BY <3>2, <3>3
    <3>5. QED
      BY <3>2, <3>3, <3>4, <2>2, <2>4, <1>0 DEF Balanced
  <2>5. QED
    BY <2>3, <2>4
<1>10. QED
  BY <1>8, <1>9 DEF SignalInv

LEMMA SignalInvariant == Spec => []SignalInv
<1>1. Init => SignalInv
  <2> SUFFICES ASSUME Init
               PROVE  SignalInv
    OBVIOUS
  <2>1. query = Each(<<>>) /\ handed = Each(<<>>) /\ taken = Each(<<>>)
    BY DEF Init
  <2>2. SignalTypes({})
    <3>1. <<>> \in Seq({})
      OBVIOUS
    <3>2. QED
      BY <2>1, <3>1 DEF SignalTypes, Each
  <2>3. QED
    BY <2>1, <2>2, NothingHandedYet DEF SignalInv, Balanced
<1>2. SignalInv /\ [Next]_vars => SignalInv'
  <2> SUFFICES ASSUME SignalInv, [Next]_vars
               PROVE  SignalInv'
    OBVIOUS
  <2>1. CASE UNCHANGED <<query, handed, taken>>
    <3>1. \A T : SignalTypes(T) => SignalTypes(T)'
      BY <2>1 DEF SignalTypes
    <3>2. \A d \in Dut, s \in Signals : Balanced(d, s) => Balanced(d, s)'
      BY <2>1 DEF Balanced
    <3>3. QED
      BY <3>1, <3>2 DEF SignalInv
  <2>2. ASSUME NEW d \in Dut, SeeSend(d)
        PROVE  SignalInv'
    <3>1. PICK v : v = out[d][Find(d, SignalPattern)].v
      OBVIOUS
    <3>2. HandOn(d, v) /\ taken' = taken /\ handed' = [handed EXCEPT ![d] = Append(@, v)]
      BY <3>1, <2>2 DEF SeeSend
    <3>3. QED
      BY <3>2, HandingOnBalances
  <2>3. ASSUME NEW d \in Dut, TakeSignal(d)
        PROVE  SignalInv'
    <3>1. PICK w : w = waitSig[d]
      OBVIOUS
    <3>2. /\ Contains(query[d], w) /\ handed' = handed
          /\ query' = [query EXCEPT ![d] = RemoveFirst(@, w)] /\ taken' = [taken EXCEPT ![d] = Append(@, w)]
      BY <3>1, <2>3 DEF TakeSignal, Unqueue
    <3>3. QED
      BY <3>2, TakingBalances
  <2>4. CASE NextCase
    <3>1. query' = Each(<<>>) /\ handed' = Each(<<>>) /\ taken' = Each(<<>>)
      BY <2>4 DEF NextCase, FreshWorkers, FreshQuery
    <3>2. SignalTypes({})'
      <4>1. <<>> \in Seq({})
        OBVIOUS
      <4>2. QED
        BY <3>1, <4>1 DEF SignalTypes, Each
    <3>3. \A d \in Dut, s \in Signals : Balanced(d, s)'
      BY <3>1, NothingHandedYet DEF Balanced
    <3>4. QED
      BY <3>2, <3>3 DEF SignalInv
  <2>5. ASSUME NEW d \in Dut, Worker(d)
        PROVE  SignalInv'
    <3>1. CASE SeeSend(d) \/ TakeSignal(d)
      BY <3>1, <2>2, <2>3
    <3>2. CASE ~(SeeSend(d) \/ TakeSignal(d))
      BY <3>2, <2>1, <2>5 DEF Worker, SkipDone, SeeReady, SeeName, SeeWait, SeeEnd, PollAgain, RetryStart,
         GiveUpStart, RunTimeout, WaitTimeout
    <3>3. QED
      BY <3>1, <3>2
  <2>6. CASE GatherRaises \/ GatherReturns \/ NextRound
    BY <2>1, <2>6 DEF GatherRaises, GatherReturns, NextRound
  <2>7. ASSUME NEW d \in Dut, Firmware(d) \/ Hang(d)
        PROVE  SignalInv'
    BY <2>1, <2>7 DEF Firmware, Hang, Device, Boot, ReadIndex, ReadSubCase, SendSignal, WaitForSignal, Released,
       Conclude, Summary
  <2>8. CASE UNCHANGED vars
    BY <2>1, <2>8 DEF vars
  <2>9. QED
    BY <2>4, <2>5, <2>6, <2>7, <2>8 DEF Next, Tester, Over
<1>3. QED
  BY <1>1, <1>2, PTL DEF Spec

\* A signal is handed on to every other worker and used up by one wait: none is lost,
\* none is used twice, and none is left over from another case.
THEOREM NoSignalIsLost == Spec => []SignalsConserved
<1>1. SignalInv => SignalsConserved
  BY DEF SignalInv, Balanced, SignalsConserved
<1>2. QED
  BY <1>1, SignalInvariant, PTL

-----------------------------------------------------------------------------
(* What a wait waits for. *)

\* The signal of the step that device v is at.
Signal(v) == Script[v.case][v.sub][v.ip].sig

\* What device v has printed (q) and done (h) when the tester is at case c: nothing
\* of a later case, and of this one only if it is at it.
OutputFits(c, v, q, h) ==
    /\ v.case <= c
    /\ \A i \in 1..Len(h) : h[i].c <= c
    /\ \A i \in 1..Len(q) :
         /\ q[i].c <= c
         /\ q[i].c = c => v.case = c
         /\ q[i].t = "send" => q[i].c # 0 /\ q[i] = Line("send", q[i].c, q[i].v)

\* What waits to be read (p) is what device v reads at this place: at the menu the
\* index of a case, then the number of the sub-case, then the end of a wait.
InputFits(c, d, v, p, w) ==
    /\ v.st \in {"boot", "run", "ended"} => p = <<>>
    /\ v.st = "menu" =>
         \/ p = <<>>
         \/ v.case # c /\ \E k \in 1..c : p = <<CaseIndex[k]>> /\ (w = "ready" => k # c)
    /\ v.st = "sub" => p \in {<<>>, <<d>>}
    /\ v.st = "blocked" => p \in {<<>>, <<0>>}

\* Without resets a prompt in the output says that the device is at the menu and has
\* nothing to read; with them that is so until the index of the case is written.
PromptFits(v, p, q, w) ==
    /\ Reset /\ w = "ready" => v.st = "hung" \/ (v.st \in {"boot", "menu"} /\ p = <<>>)
    /\ ~Reset => \A i \in 1..Len(q) : q[i].t = "ready" =>
         v.st = "hung" \/ (v.st = "menu" /\ p = <<>> /\ i = Len(q))

\* The name of case c, the last line of q, is the first about c.
JustNamed(c, q) ==
    \E n \in 1..Len(q) : /\ n = Len(q) /\ q[n].t = "name" /\ q[n].c = c
                         /\ \A i \in 1..(n - 1) : q[i].c # c

\* The output since the start of case c.
SinceStart(c, q) == \A i \in 1..Len(q) : q[i].c \in {0, c}

\* Worker and device are in step: w is the state of the worker, s its `wait_sig`.
InStep(c, v, p, q, w, s) ==
    /\ w = "ready" => v.case # c
    /\ w = "name" =>
         \/ /\ v.case # c
            /\ v.st = "hung" \/ (v.st \in {"boot", "menu"} /\ p \in {<<>>, <<CaseIndex[c]>>})
            /\ ~Reset => v.st # "boot" /\ \A i \in 1..Len(q) : v.st # "hung" => q[i].t # "ready"
         \/ /\ v.case = c
            /\ v.st = "hung" \/ (v.st = "sub" /\ p = <<>>)
            /\ JustNamed(c, q)
    /\ w = "run" =>
         /\ v.case = c /\ SinceStart(c, q)
         /\ \A i \in 1..Len(q) : q[i].t = "wait" =>
              i = Len(q) /\ q[i].v = Signal(v) /\ v.st = "blocked" /\ p = <<>>
    /\ w = "wait" =>
         /\ v.case = c /\ SinceStart(c, q)
         /\ v.st = "blocked" /\ p = <<>> /\ s = Signal(v)
         /\ \A i \in 1..Len(q) : q[i].t # "wait"

Lane(c, d, v, p, q, h, w, s) ==
    /\ OutputFits(c, v, q, h)
    /\ InputFits(c, d, v, p, w)
    /\ PromptFits(v, p, q, w)
    /\ InStep(c, v, p, q, w, s)

InLane(d) == Lane(case, d, dev[d], in[d], out[d], did[d], wpc[d], waitSig[d])

\* Device v has been told to go on from its wait for s in case k, and has not yet.
Freed(v, p, k, s) ==
    IF v.st = "blocked" /\ p # <<>> /\ v.case = k /\ Signal(v) = s THEN 1 ELSE 0

\* A device gets past no more waits for s in case k than the others have sent it there.
Earned(d, k, s) ==
    Occurrences(did, {d}, Line("passed", k, s)) + Freed(dev[d], in[d], k, s)
      <= Occurrences(did, Dut \ {d}, Line("send", k, s))

\* In the present case: no more than its worker has taken.
Allowed(d, s) ==
    Occurrences(did, {d}, Line("passed", case, s)) + Freed(dev[d], in[d], case, s)
      <= Occurrences(taken, {d}, s)

\* What was handed on, and what is still to be seen in the output, was sent.
Sent(d, s) ==
    Occurrences(handed, Dut \ {d}, s) + Occurrences(out, Dut \ {d}, Line("send", case, s))
      <= Occurrences(did, Dut \ {d}, Line("send", case, s))

\* g is q with the lines ls at its end.
Grows(q, g, ls) ==
    /\ Len(g) = Len(q) + Len(ls)
    /\ \A i \in 1..Len(q) : g[i] = q[i]
    /\ \A i \in 1..Len(g) : i <= Len(q) \/ \E j \in 1..Len(ls) : i = Len(q) + j /\ g[i] = ls[j]

LEMMA ConcatGrows ==
    ASSUME NEW T, NEW q \in Seq(T), NEW ls \in Seq(T)
    PROVE  q \o ls \in Seq(T) /\ Grows(q, q \o ls, ls)
<1>1. PICK g : g = q \o ls
  OBVIOUS
<1>2. /\ g \in Seq(T) /\ Len(g) = Len(q) + Len(ls) /\ Len(q) \in Nat /\ Len(ls) \in Nat
      /\ \A i \in 1..Len(q) : g[i] = q[i]
      /\ \A i \in 1..Len(g) : i > Len(q) => i - Len(q) \in 1..Len(ls) /\ g[i] = ls[i - Len(q)]
  BY <1>1, ConcatFacts
<1>3. ASSUME NEW i \in 1..Len(g), ~(i <= Len(q))
      PROVE  \E j \in 1..Len(ls) : i = Len(q) + j /\ g[i] = ls[j]
  <2>1. PICK j : j = i - Len(q)
    OBVIOUS
  <2>2. i \in Int /\ i > Len(q)
    BY <1>2, <1>3
  <2>3. j \in 1..Len(ls) /\ g[i] = ls[j] /\ i = Len(q) + j
    BY <2>1, <2>2, <1>2
  <2>4. QED
    BY <2>3
<1>4. QED
  BY <1>1, <1>2, <1>3 DEF Grows

\* What is said of the output stays true when lines of the device's case are added.
LEMMA OutputGrows ==
    ASSUME NEW c \in Nat, NEW v, NEW x, x.case \in Nat, x.case <= c, v.case = c => x.case = c,
           NEW q \in Seq(LineType), NEW g \in Seq(LineType), NEW ls \in Seq(LineType), Grows(q, g, ls),
           NEW h \in Seq(LineType), NEW f \in Seq(LineType), NEW es \in Seq(LineType), Grows(h, f, es),
           \A j \in 1..Len(ls) : /\ ls[j].c \in {0, x.case}
                                 /\ ls[j].t = "send" => ls[j].c # 0 /\ ls[j] = Line("send", ls[j].c, ls[j].v),
           \A j \in 1..Len(es) : es[j].c = x.case,
           c # 0, OutputFits(c, v, q, h)
    PROVE  OutputFits(c, x, g, f)
<1>1. Len(q) \in Nat /\ Len(g) \in Nat /\ Len(h) \in Nat /\ Len(f) \in Nat
  OBVIOUS
<1>2. ASSUME NEW i \in 1..Len(f)
      PROVE  f[i].c <= c
  <2>1. CASE i <= Len(h)
    <3>1. i \in 1..Len(h) /\ f[i] = h[i]
      BY <2>1, <1>1 DEF Grows
    <3>2. QED
      BY <3>1 DEF OutputFits
  <2>2. CASE \E j \in 1..Len(es) : f[i] = es[j]
    BY <2>2
  <2>3. QED
    BY <2>1, <2>2 DEF Grows
<1>3. ASSUME NEW i \in 1..Len(g)
      PROVE  /\ g[i].c <= c
             /\ g[i].c = c => x.case = c
             /\ g[i].t = "send" => g[i].c # 0 /\ g[i] = Line("send", g[i].c, g[i].v)
  <2>1. CASE i <= Len(q)
    <3>1. i \in 1..Len(q) /\ g[i] = q[i]
      BY <2>1, <1>1 DEF Grows
    <3>2. /\ q[i].c <= c
          /\ q[i].c = c => v.case = c
          /\ q[i].t = "send" => q[i].c # 0 /\ q[i] = Line("send", q[i].c, q[i].v)
      BY <3>1 DEF OutputFits
    <3>3. QED
      BY <3>1, <3>2
  <2>2. ASSUME NEW j \in 1..Len(ls), g[i] = ls[j]
        PROVE  /\ g[i].c <= c
               /\ g[i].c = c => x.case = c
               /\ g[i].t = "send" => g[i].c # 0 /\ g[i] = Line("send", g[i].c, g[i].v)
    <3>1. ls[j].c <= c /\ (ls[j].c = c => x.case = c)
      OBVIOUS
    <3>2. QED
      BY <3>1, <2>2
  <2>3. QED
    BY <2>1, <2>2 DEF Grows
<1>4. QED
  BY <1>2, <1>3 DEF OutputFits

\* The device comes to its menu: after booting, or at the end of a case.
LEMMA MenuInLane ==
    ASSUME NEW c \in Nat, c # 0, NEW d, NEW v, NEW x, NEW p, NEW w, NEW s,
           NEW q \in Seq(LineType), NEW g \in Seq(LineType), NEW ls \in Seq(LineType), Grows(q, g, ls),
           NEW h \in Seq(LineType), NEW f \in Seq(LineType),
           OutputFits(c, x, g, f), Lane(c, d, v, p, q, h, w, s),
           v.st \in {"boot", "ended"}, x.st = "menu", x.case = v.case,
           \A j \in 1..Len(ls) : /\ ls[j].c \in {0, v.case} /\ ls[j].t \in {"end", "ready"}
                                 /\ ls[j].t = "ready" => j = Len(ls)
    PROVE  Lane(c, d, x, p, g, f, w, s)
<1>1. /\ OutputFits(c, v, q, h) /\ InputFits(c, d, v, p, w) /\ PromptFits(v, p, q, w) /\ InStep(c, v, p, q, w, s)
      /\ Len(q) \in Nat /\ Len(g) \in Nat /\ Len(ls) \in Nat
  BY DEF Lane
<1>2. p = <<>>
  BY <1>1 DEF InputFits
<1>3. ASSUME NEW i \in 1..Len(g)
      PROVE  \/ i \in 1..Len(q) /\ g[i] = q[i]
             \/ g[i].t \in {"end", "ready"} /\ g[i].c \in {0, v.case} /\ (g[i].t = "ready" => i = Len(g))
  <2>1. CASE i <= Len(q)
    BY <2>1, <1>1 DEF Grows
  <2>2. CASE \E j \in 1..Len(ls) : i = Len(q) + j /\ g[i] = ls[j]
    BY <2>2, <1>1 DEF Grows
  <2>3. QED
    BY <2>1, <2>2 DEF Grows
<1>4. InputFits(c, d, x, p, w)
  BY <1>2 DEF InputFits
<1>5. PromptFits(x, p, g, w)
  <2>1. Reset /\ w = "ready" => x.st \in {"boot", "menu"} /\ p = <<>>
    BY <1>2
  <2>2. ASSUME ~Reset, NEW i \in 1..Len(g), g[i].t = "ready"
        PROVE  i = Len(g)
    <3>1. CASE i \in 1..Len(q) /\ g[i] = q[i]
      BY <3>1, <2>2, <1>1 DEF PromptFits
    <3>2. QED
      BY <3>1, <2>2, <1>3
  <2>3. QED
    BY <2>1, <2>2, <1>2 DEF PromptFits
<1>6. InStep(c, x, p, g, w, s)
  <2>1. w = "ready" => x.case # c
    BY <1>1 DEF InStep
  <2>2. ASSUME w = "name"
        PROVE  /\ x.case # c /\ p \in {<<>>, <<CaseIndex[c]>>}
               /\ ~Reset => x.st # "boot" /\ \A i \in 1..Len(g) : x.st # "hung" => g[i].t # "ready"
    <3>1. v.case # c /\ v.st = "boot" /\ Reset
      BY <2>2, <1>1 DEF InStep
    <3>2. QED
      BY <3>1, <1>2
  <2>3. ASSUME w = "run"
        PROVE  /\ x.case = c /\ SinceStart(c, g)
               /\ \A i \in 1..Len(g) : g[i].t # "wait"
    <3>1. v.case = c /\ SinceStart(c, q) /\ \A i \in 1..Len(q) : q[i].t # "wait"
      BY <2>3, <1>1 DEF InStep
    <3>2. QED
      BY <3>1, <1>3 DEF SinceStart
  <2>4. w # "wait"
    BY <1>1 DEF InStep
  <2>5. QED
    BY <2>1, <2>2, <2>3, <2>4 DEF InStep
<1>7. QED
  BY <1>4, <1>5, <1>6 DEF Lane

\* The device reads the index at its menu: it is of the case that the tester is at, or
\* of one that no worker of the present case has started.
LEMMA ChoiceInLane ==
    ASSUME NEW c \in Nat, c # 0, NEW d, NEW v, NEW x, NEW p, NEW w, NEW s,
           NEW q \in Seq(LineType), NEW g \in Seq(LineType), NEW l, Grows(q, g, <<l>>),
           NEW h \in Seq(LineType), NEW f \in Seq(LineType),
           OutputFits(c, x, g, f), Lane(c, d, v, p, q, h, w, s),
           v.st = "menu", p # <<>>, x.st = "sub", l.t = "name", l.c = x.case,
           w = "ready" => x.case # c, w = "name" => x.case = c
    PROVE  Lane(c, d, x, <<>>, g, f, w, s)
<1>1. /\ OutputFits(c, v, q, h) /\ InputFits(c, d, v, p, w) /\ PromptFits(v, p, q, w) /\ InStep(c, v, p, q, w, s)
      /\ Len(q) \in Nat /\ Len(g) \in Nat
  BY DEF Lane
<1>2. Len(g) = Len(q) + 1 /\ g[Len(q) + 1] = l /\ \A i \in 1..Len(q) : g[i] = q[i]
  <2>1. Len(<<l>>) = 1 /\ <<l>>[1] = l
    OBVIOUS
  <2>2. Len(g) = Len(q) + 1 /\ Len(q) + 1 \in 1..Len(g) /\ ~(Len(q) + 1 <= Len(q))
    BY <2>1, <1>1 DEF Grows
  <2>3. PICK j \in 1..Len(<<l>>) : Len(q) + 1 = Len(q) + j /\ g[Len(q) + 1] = <<l>>[j]
    BY <2>2 DEF Grows
  <2>4. j = 1
    BY <2>1, <2>3
  <2>5. QED
    BY <2>1, <2>2, <2>3, <2>4 DEF Grows
<1>3. v.case # c
  BY <1>1 DEF InputFits
<1>4. InputFits(c, d, x, <<>>, w)
  BY DEF InputFits
<1>5. PromptFits(x, <<>>, g, w)
  <2>1. ~(Reset /\ w = "ready")
    BY <1>1 DEF PromptFits
  <2>2. ASSUME ~Reset, NEW i \in 1..Len(g)
        PROVE  g[i].t # "ready"
    <3>1. CASE i \in 1..Len(q)
      BY <3>1, <2>2, <1>1, <1>2 DEF PromptFits
    <3>2. CASE i = Len(q) + 1
      BY <3>2, <1>2
    <3>3. QED
      BY <3>1, <3>2, <1>1, <1>2
  <2>3. QED
    BY <2>1, <2>2 DEF PromptFits
<1>6. w \notin {"run", "wait"}
  BY <1>1, <1>3 DEF InStep
<1>7. w = "name" => JustNamed(c, g)
  <2>1. \A i \in 1..Len(q) : q[i].c # c
    BY <1>1, <1>3 DEF OutputFits
  <2>2. ASSUME w = "name"
        PROVE  JustNamed(c, g)
    <3>1. PICK n \in 1..Len(g) : n = Len(q) + 1 /\ n = Len(g) /\ n - 1 = Len(q)
      BY <1>1, <1>2
    <3>2. g[n].t = "name" /\ g[n].c = c /\ \A i \in 1..(n - 1) : g[i].c # c
      BY <2>1, <2>2, <3>1, <1>2
    <3>3. QED
      BY <3>1, <3>2 DEF JustNamed
  <2>3. QED
    BY <2>2
<1>8. InStep(c, x, <<>>, g, w, s)
  BY <1>6, <1>7 DEF InStep
<1>9. QED
  BY <1>4, <1>5, <1>8 DEF Lane

\* The device begins its sub-case, goes on in it or ends it: nothing waits to be read,
\* and nothing it prints is a wait.
LEMMA RunInLane ==
    ASSUME NEW c \in Nat, c # 0, NEW d, NEW v, NEW x, NEW p, NEW w, NEW s,
           NEW q \in Seq(LineType), NEW g \in Seq(LineType), NEW ls \in Seq(LineType), Grows(q, g, ls),
           NEW h \in Seq(LineType), NEW f \in Seq(LineType),
           OutputFits(c, x, g, f), Lane(c, d, v, p, q, h, w, s),
           v.st \in {"sub", "run", "blocked"}, v.st \in {"sub", "blocked"} => p # <<>>,
           x.st \in {"run", "ended"}, x.case = v.case,
           \A j \in 1..Len(ls) : ls[j].c = v.case /\ ls[j].t \in {"send", "result"}
    PROVE  Lane(c, d, x, <<>>, g, f, w, s)
<1>1. /\ OutputFits(c, v, q, h) /\ InputFits(c, d, v, p, w) /\ PromptFits(v, p, q, w) /\ InStep(c, v, p, q, w, s)
      /\ Len(q) \in Nat /\ Len(g) \in Nat
  BY DEF Lane
<1>2. ASSUME NEW i \in 1..Len(g)
      PROVE  (i \in 1..Len(q) /\ g[i] = q[i]) \/ (g[i].t \in {"send", "result"} /\ g[i].c = v.case)
  <2>1. CASE i <= Len(q)
    BY <2>1, <1>1 DEF Grows
  <2>2. CASE \E j \in 1..Len(ls) : g[i] = ls[j]
    BY <2>2
  <2>3. QED
    BY <2>1, <2>2 DEF Grows
<1>3. InputFits(c, d, x, <<>>, w)
  BY DEF InputFits
<1>4. PromptFits(x, <<>>, g, w)
  <2>1. ~(Reset /\ w = "ready")
    BY <1>1 DEF PromptFits
  <2>2. ASSUME ~Reset, NEW i \in 1..Len(g)
        PROVE  g[i].t # "ready"
    <3>1. \A j \in 1..Len(q) : q[j].t # "ready"
      BY <2>2, <1>1 DEF PromptFits
    <3>2. QED
      BY <3>1, <1>2
  <2>3. QED
    BY <2>1, <2>2 DEF PromptFits
<1>5. InStep(c, x, <<>>, g, w, s)
  <2>1. w = "ready" => x.case # c
    BY <1>1 DEF InStep
  <2>2. w # "name" /\ w # "wait"
    BY <1>1 DEF InStep
  <2>3. ASSUME w = "run"
        PROVE  x.case = c /\ SinceStart(c, g) /\ \A i \in 1..Len(g) : g[i].t # "wait"
    <3>1. v.case = c /\ SinceStart(c, q) /\ \A i \in 1..Len(q) : q[i].t # "wait"
      BY <2>3, <1>1 DEF InStep
    <3>2. QED
      BY <3>1, <1>2 DEF SinceStart
  <2>4. QED
    BY <2>1, <2>2, <2>3 DEF InStep
<1>6. QED
  BY <1>3, <1>4, <1>5 DEF Lane

\* The device waits for a signal: the line that says so is the last one.
LEMMA WaitInLane ==
    ASSUME NEW c \in Nat, c # 0, NEW d, NEW v, NEW x, NEW p, NEW w, NEW s,
           NEW q \in Seq(LineType), NEW g \in Seq(LineType), NEW l, Grows(q, g, <<l>>),
           NEW h \in Seq(LineType), NEW f \in Seq(LineType),
           OutputFits(c, x, g, f), Lane(c, d, v, p, q, h, w, s),
           v.st = "run", x.st = "blocked", x.case = v.case, l.t = "wait", l.c = v.case, l.v = Signal(x)
    PROVE  Lane(c, d, x, p, g, f, w, s)
<1>1. /\ OutputFits(c, v, q, h) /\ InputFits(c, d, v, p, w) /\ PromptFits(v, p, q, w) /\ InStep(c, v, p, q, w, s)
      /\ Len(q) \in Nat /\ Len(g) \in Nat
  BY DEF Lane
<1>2. p = <<>>
  BY <1>1 DEF InputFits
<1>3. Len(<<l>>) = 1 /\ <<l>>[1] = l
  OBVIOUS
<1>4. ASSUME NEW i \in 1..Len(g)
      PROVE  (i \in 1..Len(q) /\ g[i] = q[i]) \/ (i = Len(g) /\ g[i] = l)
  <2>1. CASE i <= Len(q)
    BY <2>1, <1>1 DEF Grows
  <2>2. CASE \E j \in 1..Len(<<l>>) : i = Len(q) + j /\ g[i] = <<l>>[j]
    <3>1. PICK j \in 1..Len(<<l>>) : i = Len(q) + j /\ g[i] = <<l>>[j]
      BY <2>2
    <3>2. j = 1
      BY <1>3, <3>1
    <3>3. QED
      BY <1>1, <1>3, <3>1, <3>2 DEF Grows
  <2>3. QED
    BY <2>1, <2>2 DEF Grows
<1>5. InputFits(c, d, x, p, w)
  BY <1>2 DEF InputFits
<1>6. PromptFits(x, p, g, w)
  <2>1. ~(Reset /\ w = "ready")
    BY <1>1 DEF PromptFits
  <2>2. ASSUME ~Reset, NEW i \in 1..Len(g)
        PROVE  g[i].t # "ready"
    <3>1. \A j \in 1..Len(q) : q[j].t # "ready"
      BY <2>2, <1>1 DEF PromptFits
    <3>2. QED
      BY <3>1, <1>4
  <2>3. QED
    BY <2>1, <2>2 DEF PromptFits
<1>7. InStep(c, x, p, g, w, s)
  <2>1. w = "ready" => x.case # c
    BY <1>1 DEF InStep
  <2>2. w # "name" /\ w # "wait"
    BY <1>1 DEF InStep
  <2>3. ASSUME w = "run"
        PROVE  /\ x.case = c /\ SinceStart(c, g)
               /\ \A i \in 1..Len(g) : g[i].t = "wait" => i = Len(g) /\ g[i].v = Signal(x)
    <3>1. v.case = c /\ SinceStart(c, q) /\ \A i \in 1..Len(q) : q[i].t # "wait"
      BY <2>3, <1>1 DEF InStep
    <3>2. QED
      BY <3>1, <1>4 DEF SinceStart
  <2>4. QED
    BY <2>1, <2>2, <2>3, <1>2 DEF InStep
<1>8. QED
  BY <1>5, <1>6, <1>7 DEF Lane

\* A device that hangs: what waits to be read is not read any more.
LEMMA HangInLane ==
    ASSUME NEW c \in Nat, NEW d, NEW v, NEW x, NEW p, NEW q, NEW h, NEW w, NEW s,
           Lane(c, d, v, p, q, h, w, s), v.st # "blocked", x.st = "hung", x.case = v.case
    PROVE  Lane(c, d, x, p, q, h, w, s)
<1>1. OutputFits(c, v, q, h) /\ InputFits(c, d, v, p, w) /\ PromptFits(v, p, q, w) /\ InStep(c, v, p, q, w, s)
  BY DEF Lane
<1>2. OutputFits(c, x, q, h)
  BY <1>1 DEF OutputFits
<1>3. InputFits(c, d, x, p, w) /\ PromptFits(x, p, q, w)
  BY DEF InputFits, PromptFits
<1>4. InStep(c, x, p, q, w, s)
  BY <1>1 DEF InStep
<1>5. QED
  BY <1>2, <1>3, <1>4 DEF Lane

\* r is q without its first n lines.
Drops(q, r, n) ==
    /\ n \in 0..Len(q) /\ Len(r) = Len(q) - n
    /\ \A i \in 1..Len(r) : i + n \in 1..Len(q) /\ r[i] = q[i + n]

\* What remains of the output fits as well.
LEMMA OutputShrinks ==
    ASSUME NEW c \in Nat, NEW v, NEW p, NEW w, NEW h,
           NEW q \in Seq(LineType), NEW r \in Seq(LineType), NEW n, Drops(q, r, n), OutputFits(c, v, q, h)
    PROVE  OutputFits(c, v, r, h)
<1>1. \A i \in 1..Len(r) : i + n \in 1..Len(q) /\ r[i] = q[i + n]
  BY DEF Drops
<1>2. QED
  BY <1>1 DEF OutputFits

\* A worker takes output out of the buffer and runs on, or ends.
LEMMA SeenInLane ==
    ASSUME NEW c \in Nat, NEW d, NEW v, NEW p, NEW w, NEW s, NEW h, NEW u, NEW y,
           NEW q \in Seq(LineType), NEW r \in Seq(LineType), NEW n, Drops(q, r, n),
           Lane(c, d, v, p, q, h, w, s),
           u \in {"run", "done", "raised"}, u = "run" => w = "run"
    PROVE  Lane(c, d, v, p, r, h, u, y)
<1>1. /\ OutputFits(c, v, q, h) /\ InputFits(c, d, v, p, w) /\ PromptFits(v, p, q, w) /\ InStep(c, v, p, q, w, s)
      /\ Len(q) \in Nat /\ Len(r) \in Nat
  BY DEF Lane
<1>2. /\ n \in Nat /\ Len(r) = Len(q) - n
      /\ \A i \in 1..Len(r) : i + n \in 1..Len(q) /\ r[i] = q[i + n]
  BY <1>1 DEF Drops
<1>3. OutputFits(c, v, r, h)
  BY <1>1, OutputShrinks
<1>4. InputFits(c, d, v, p, u)
  BY <1>1 DEF InputFits
<1>5. ASSUME NEW i \in 1..Len(r), i + n = Len(q)
      PROVE  i = Len(r)
  <2>1. PICK a \in Nat, b \in Nat : a = Len(q) /\ b = Len(r) /\ b = a - n
    BY <1>1, <1>2
  <2>2. QED
    BY <2>1, <1>2, <1>5
<1>6. PromptFits(v, p, r, u)
  <2>1. ASSUME ~Reset, NEW i \in 1..Len(r), r[i].t = "ready"
        PROVE  v.st = "hung" \/ (v.st = "menu" /\ p = <<>> /\ i = Len(r))
    <3>1. i + n \in 1..Len(q) /\ q[i + n].t = "ready"
      BY <2>1, <1>2
    <3>2. v.st = "hung" \/ (v.st = "menu" /\ p = <<>> /\ i + n = Len(q))
      BY <3>1, <2>1, <1>1 DEF PromptFits
    <3>3. QED
      BY <3>2, <1>5
  <2>2. QED
    BY <2>1 DEF PromptFits
<1>7. InStep(c, v, p, r, u, y)
  <2>1. ASSUME u = "run"
        PROVE  /\ v.case = c /\ SinceStart(c, r)
               /\ \A i \in 1..Len(r) : r[i].t = "wait" =>
                    i = Len(r) /\ r[i].v = Signal(v) /\ v.st = "blocked" /\ p = <<>>
    <3>1. /\ v.case = c /\ SinceStart(c, q)
          /\ \A i \in 1..Len(q) : q[i].t = "wait" =>
               i = Len(q) /\ q[i].v = Signal(v) /\ v.st = "blocked" /\ p = <<>>
      BY <2>1, <1>1 DEF InStep
    <3>2. SinceStart(c, r)
      BY <3>1, <1>2 DEF SinceStart
    <3>3. ASSUME NEW i \in 1..Len(r), r[i].t = "wait"
          PROVE  i = Len(r) /\ r[i].v = Signal(v) /\ v.st = "blocked" /\ p = <<>>
      <4>1. i + n \in 1..Len(q) /\ q[i + n].t = "wait" /\ q[i + n].v = r[i].v
        BY <3>3, <1>2
      <4>2. i + n = Len(q) /\ q[i + n].v = Signal(v) /\ v.st = "blocked" /\ p = <<>>
        BY <4>1, <3>1
      <4>3. QED
        BY <4>1, <4>2, <1>5
    <3>4. QED
      BY <3>1, <3>2, <3>3
  <2>2. QED
    BY <2>1 DEF InStep
<1>8. QED
  BY <1>3, <1>4, <1>6, <1>7 DEF Lane

\* What a write leaves to be read: nothing new if the device boots.
After(v, p, x) == IF v.st = "boot" THEN p ELSE Append(p, x)

\* The index is written to a device that is at its menu, or that boots or hangs.
LEMMA ReadyInLane ==
    ASSUME NEW c \in Nat, c # 0, NEW d, NEW v, NEW p, NEW s, NEW h, NEW z,
           NEW q \in Seq(LineType), NEW r \in Seq(LineType), NEW n \in 1..Len(q), Drops(q, r, n),
           Lane(c, d, v, p, q, h, "ready", s), q[n].t = "ready", z = After(v, p, CaseIndex[c])
    PROVE  Lane(c, d, v, z, r, h, "name", s) /\ (v.st = "blocked" => z = p)
<1>1. /\ OutputFits(c, v, q, h) /\ InputFits(c, d, v, p, "ready") /\ PromptFits(v, p, q, "ready")
      /\ InStep(c, v, p, q, "ready", s) /\ Len(q) \in Nat /\ Len(r) \in Nat
  BY DEF Lane
<1>2. v.st = "hung" \/ (v.st \in {"boot", "menu"} /\ p = <<>>)
  BY <1>1 DEF PromptFits
<1>3. ~Reset => v.st = "hung" \/ (v.st = "menu" /\ n = Len(q))
  BY <1>1 DEF PromptFits
<1>4. v.case # c
  BY <1>1 DEF InStep
<1>5. Append(<<>>, CaseIndex[c]) = <<CaseIndex[c]>> /\ c \in 1..c
  OBVIOUS
<1>6. v.st = "hung" \/ (v.st = "boot" /\ z = <<>>) \/ (v.st = "menu" /\ z = <<CaseIndex[c]>>)
  BY <1>2, <1>5 DEF After
<1>7. ~Reset /\ v.st # "hung" => v.st = "menu" /\ Len(r) = 0
  BY <1>1, <1>3 DEF Drops
<1>8. OutputFits(c, v, r, h)
  BY <1>1, OutputShrinks
<1>9. InputFits(c, d, v, z, "name")
  <2>1. v.st = "menu" => \E k \in 1..c : z = <<CaseIndex[k]>>
    BY <1>5, <1>6
  <2>2. QED
    BY <2>1, <1>4, <1>6 DEF InputFits
<1>10. PromptFits(v, z, r, "name")
  BY <1>7 DEF PromptFits
<1>11. InStep(c, v, z, r, "name", s)
  <2>1. v.st = "hung" \/ (v.st \in {"boot", "menu"} /\ z \in {<<>>, <<CaseIndex[c]>>})
    BY <1>6
  <2>2. ~Reset => v.st # "boot" /\ \A i \in 1..Len(r) : v.st # "hung" => r[i].t # "ready"
    BY <1>7
  <2>3. QED
    BY <2>1, <2>2, <1>4 DEF InStep
<1>12. QED
  BY <1>2, <1>8, <1>9, <1>10, <1>11 DEF Lane

\* The number of the sub-case is written to a device that has just shown the name.
LEMMA NameInLane ==
    ASSUME NEW c \in Nat, c # 0, NEW d, NEW v, NEW p, NEW s, NEW h, NEW z,
           NEW q \in Seq(LineType), NEW r \in Seq(LineType), NEW n \in 1..Len(q), Drops(q, r, n),
           Lane(c, d, v, p, q, h, "name", s), q[n].c = c, z = After(v, p, d)
    PROVE  Lane(c, d, v, z, r, h, "run", s) /\ (v.st = "blocked" => z = p)
<1>1. /\ OutputFits(c, v, q, h) /\ InputFits(c, d, v, p, "name") /\ PromptFits(v, p, q, "name")
      /\ InStep(c, v, p, q, "name", s) /\ Len(q) \in Nat /\ Len(r) \in Nat
  BY DEF Lane
<1>2. v.case = c
  BY <1>1 DEF OutputFits
<1>3. (v.st = "hung" \/ (v.st = "sub" /\ p = <<>>)) /\ JustNamed(c, q)
  BY <1>1, <1>2 DEF InStep
<1>4. n = Len(q)
  <2>1. PICK m \in 1..Len(q) : m = Len(q) /\ \A i \in 1..(m - 1) : q[i].c # c
    BY <1>3 DEF JustNamed
  <2>2. n \in 1..(m - 1) \/ n = m
    BY <2>1, <1>1
  <2>3. QED
    BY <2>1, <2>2
<1>5. Len(r) = 0
  BY <1>1, <1>4 DEF Drops
<1>6. v.st = "hung" \/ (v.st = "sub" /\ z = <<d>>)
  <2>1. Append(<<>>, d) = <<d>>
    OBVIOUS
  <2>2. QED
    BY <2>1, <1>3 DEF After
<1>7. OutputFits(c, v, r, h)
  BY <1>1, OutputShrinks
<1>8. InputFits(c, d, v, z, "run")
  BY <1>6 DEF InputFits
<1>9. PromptFits(v, z, r, "run")
  BY <1>5 DEF PromptFits
<1>10. InStep(c, v, z, r, "run", s)
  BY <1>2, <1>5 DEF InStep, SinceStart
<1>11. QED
  BY <1>3, <1>7, <1>8, <1>9, <1>10 DEF Lane

\* The worker sees that its device waits.
LEMMA AskInLane ==
    ASSUME NEW c \in Nat, NEW d, NEW v, NEW p, NEW s, NEW h, NEW y,
           NEW q \in Seq(LineType), NEW r \in Seq(LineType), NEW n \in 1..Len(q), Drops(q, r, n),
           Lane(c, d, v, p, q, h, "run", s), q[n].t = "wait", y = q[n].v
    PROVE  Lane(c, d, v, p, r, h, "wait", y)
<1>1. /\ OutputFits(c, v, q, h) /\ InputFits(c, d, v, p, "run") /\ PromptFits(v, p, q, "run")
      /\ InStep(c, v, p, q, "run", s) /\ Len(q) \in Nat /\ Len(r) \in Nat
  BY DEF Lane
<1>2. v.case = c /\ n = Len(q) /\ y = Signal(v) /\ v.st = "blocked" /\ p = <<>>
  BY <1>1 DEF InStep
<1>3. Len(r) = 0
  BY <1>1, <1>2 DEF Drops
<1>4. OutputFits(c, v, r, h)
  BY <1>1, OutputShrinks
<1>5. InputFits(c, d, v, p, "wait")
  BY <1>2 DEF InputFits
<1>6. PromptFits(v, p, r, "wait")
  BY <1>3 DEF PromptFits
<1>7. InStep(c, v, p, r, "wait", y)
  BY <1>2, <1>3 DEF InStep, SinceStart
<1>8. QED
  BY <1>4, <1>5, <1>6, <1>7 DEF Lane

\* The device that waits is told to go on.
LEMMA TakeInLane ==
    ASSUME NEW c \in Nat, NEW d, NEW v, NEW p, NEW s, NEW h, NEW q, NEW u, NEW z,
           Lane(c, d, v, p, q, h, "wait", s), u \in {"run", "done"}, z = After(v, p, 0)
    PROVE  /\ Lane(c, d, v, z, q, h, u, s)
           /\ v.case = c /\ v.st = "blocked" /\ p = <<>> /\ s = Signal(v)
<1>1. /\ OutputFits(c, v, q, h) /\ InputFits(c, d, v, p, "wait") /\ PromptFits(v, p, q, "wait")
      /\ InStep(c, v, p, q, "wait", s)
  BY DEF Lane
<1>2. /\ v.case = c /\ SinceStart(c, q) /\ v.st = "blocked" /\ p = <<>> /\ s = Signal(v)
      /\ \A i \in 1..Len(q) : q[i].t # "wait"
  BY <1>1 DEF InStep
<1>3. z = <<0>>
  <2>1. Append(<<>>, 0) = <<0>>
    OBVIOUS
  <2>2. QED
    BY <2>1, <1>2 DEF After
<1>4. InputFits(c, d, v, z, u)
  BY <1>2, <1>3 DEF InputFits
<1>5. PromptFits(v, z, q, u)
  BY <1>1, <1>2 DEF PromptFits
<1>6. InStep(c, v, z, q, u, s)
  BY <1>2 DEF InStep
<1>7. QED
  BY <1>1, <1>2, <1>4, <1>5, <1>6 DEF Lane

\* The index is written again, when the device has nothing of it.
LEMMA RetryInLane ==
    ASSUME NEW c \in Nat, c # 0, NEW d, NEW v, NEW p, NEW s, NEW h, NEW q, NEW z,
           Lane(c, d, v, p, q, h, "name", s), ~(v.st = "menu" /\ p # <<>>), ~JustNamed(c, q),
           z = After(v, p, CaseIndex[c])
    PROVE  Lane(c, d, v, z, q, h, "name", s) /\ (v.st = "blocked" => z = p)
<1>1. /\ OutputFits(c, v, q, h) /\ InputFits(c, d, v, p, "name") /\ PromptFits(v, p, q, "name")
      /\ InStep(c, v, p, q, "name", s)
  BY DEF Lane
<1>2. /\ v.case # c
      /\ v.st = "hung" \/ (v.st \in {"boot", "menu"} /\ p \in {<<>>, <<CaseIndex[c]>>})
      /\ ~Reset => v.st # "boot" /\ \A i \in 1..Len(q) : v.st # "hung" => q[i].t # "ready"
  BY <1>1 DEF InStep
<1>3. Append(<<>>, CaseIndex[c]) = <<CaseIndex[c]>> /\ c \in 1..c
  OBVIOUS
<1>4. v.st = "boot" => p = <<>>
  BY <1>1 DEF InputFits
<1>5. v.st = "hung" \/ (v.st = "boot" /\ z = <<>>) \/ (v.st = "menu" /\ z = <<CaseIndex[c]>>)
  BY <1>2, <1>3, <1>4 DEF After
<1>6. InputFits(c, d, v, z, "name")
  <2>1. v.st = "menu" => \E k \in 1..c : z = <<CaseIndex[k]>>
    BY <1>3, <1>5
  <2>2. QED
    BY <2>1, <1>2, <1>5 DEF InputFits
<1>7. PromptFits(v, z, q, "name")
  BY <1>2 DEF PromptFits
<1>8. InStep(c, v, z, q, "name", s)
  <2>1. v.st = "hung" \/ (v.st \in {"boot", "menu"} /\ z \in {<<>>, <<CaseIndex[c]>>})
    BY <1>5
  <2>2. QED
    BY <2>1, <1>2 DEF InStep
<1>9. QED
  BY <1>1, <1>2, <1>6, <1>7, <1>8 DEF Lane

\* The next case: the devices boot, or are where the last case has left them.
LEMMA NextInLane ==
    ASSUME NEW c \in Nat, NEW d, NEW v \in DeviceType, NEW x, NEW p, NEW z, NEW w, NEW s, NEW y,
           NEW q \in Seq(LineType), NEW h \in Seq(LineType), Lane(c, d, v, p, q, h, w, s),
           (Reset /\ x = Booting /\ z = <<>>) \/ (~Reset /\ x = v /\ z = p)
    PROVE  Lane(c + 1, d, x, z, q, h, "ready", y)
<1>1. OutputFits(c, v, q, h) /\ InputFits(c, d, v, p, w) /\ PromptFits(v, p, q, w)
  BY DEF Lane
<1>2. v.case \in Nat /\ v.case <= c
  BY <1>1 DEF DeviceType, OutputFits
<1>3. Booting.st = "boot" /\ Booting.case = 0
  BY DEF Booting
<1>4. x.case \in Nat /\ x.case <= c /\ x.case # c + 1
  BY <1>2, <1>3
<1>5. OutputFits(c + 1, x, q, h)
  <2>1. ASSUME NEW i \in 1..Len(q)
        PROVE  q[i].c \in Nat /\ q[i].c <= c
    <3>1. q[i] \in LineType
      OBVIOUS
    <3>2. q[i].c \in Nat
      BY <3>1 DEF LineType
    <3>3. QED
      BY <3>2, <1>1 DEF OutputFits
  <2>2. ASSUME NEW i \in 1..Len(h)
        PROVE  h[i].c \in Nat /\ h[i].c <= c
    <3>1. h[i] \in LineType
      OBVIOUS
    <3>2. h[i].c \in Nat
      BY <3>1 DEF LineType
    <3>3. QED
      BY <3>2, <1>1 DEF OutputFits
  <2>3. \A m \in Nat : m <= c => m <= c + 1 /\ m # c + 1
    OBVIOUS
  <2>4. \A i \in 1..Len(q) : q[i].t = "send" => q[i].c # 0 /\ q[i] = Line("send", q[i].c, q[i].v)
    BY <1>1 DEF OutputFits
  <2>5. \A i \in 1..Len(h) : h[i].c <= c + 1
    BY <2>2, <2>3
  <2>6. \A i \in 1..Len(q) : q[i].c <= c + 1 /\ q[i].c # c + 1
    BY <2>1, <2>3
  <2>7. x.case <= c + 1
    BY <1>4
  <2>8. QED
    BY <2>4, <2>5, <2>6, <2>7 DEF OutputFits
<1>6. InputFits(c + 1, d, x, z, "ready")
  <2>1. CASE x = Booting /\ z = <<>>
    BY <2>1, <1>3 DEF InputFits
  <2>2. CASE x = v /\ z = p
    <3>1. ASSUME NEW k \in 1..c
          PROVE  k \in 1..(c + 1) /\ k # c + 1
      OBVIOUS
    <3>2. x.st = "menu" => z = <<>> \/ \E k \in 1..(c + 1) : z = <<CaseIndex[k]>> /\ k # c + 1
      BY <2>2, <3>1, <1>1 DEF InputFits
    <3>3. /\ x.st \in {"boot", "run", "ended"} => z = <<>>
          /\ x.st = "sub" => z \in {<<>>, <<d>>}
          /\ x.st = "blocked" => z \in {<<>>, <<0>>}
      BY <2>2, <1>1 DEF InputFits
    <3>4. QED
      BY <3>2, <3>3, <1>4 DEF InputFits
  <2>3. QED
    BY <2>1, <2>2
<1>7. PromptFits(x, z, q, "ready")
  BY <1>1, <1>3 DEF PromptFits
<1>8. InStep(c + 1, x, z, q, "ready", y)
  BY <1>4 DEF InStep
<1>9. QED
  BY <1>5, <1>6, <1>7, <1>8 DEF Lane

LEMMA FirstInLane ==
    ASSUME NEW d, NEW y
    PROVE  Lane(1, d, Booting, <<>>, <<>>, <<>>, "ready", y)
<1>1. Booting.st = "boot" /\ Booting.case = 0 /\ 0 <= 1 /\ Len(<<>>) = 0
  BY DEF Booting
<1>2. QED
  BY <1>1 DEF Lane, OutputFits, InputFits, PromptFits, InStep

-----------------------------------------------------------------------------
(* A step of the firmware. *)

\* What the case of the tester and the device are.
LEMMA LaneTypes ==
    ASSUME MultiTypes, NEW d \in Dut, InLane(d)
    PROVE  /\ case \in Case /\ case \in Nat /\ case # 0 /\ case <= NCase /\ NCase \in Nat
           /\ dev[d] \in DeviceType /\ dev[d].case \in Nat /\ dev[d].case \in 0..NCase /\ dev[d].case <= case
           /\ in[d] \in Seq(Nat) /\ out[d] \in Seq(LineType) /\ did[d] \in Seq(LineType)
           /\ Lane(case, d, dev[d], in[d], out[d], did[d], wpc[d], waitSig[d])
           /\ OutputFits(case, dev[d], out[d], did[d]) /\ InputFits(case, d, dev[d], in[d], wpc[d])
<1>1. /\ case \in Case /\ NCase \in Nat /\ dev[d] \in DeviceType
      /\ in[d] \in Seq(Nat) /\ out[d] \in Seq(LineType) /\ did[d] \in Seq(LineType)
  BY SizeAssumption DEF MultiTypes, TesterTypes, DeviceTypes
<1>2. case \in Nat /\ case # 0 /\ case <= NCase
  BY <1>1 DEF Case
<1>3. dev[d].case \in Nat /\ dev[d].case \in 0..NCase
  BY <1>1 DEF DeviceType
<1>4. /\ Lane(case, d, dev[d], in[d], out[d], did[d], wpc[d], waitSig[d])
      /\ OutputFits(case, dev[d], out[d], did[d]) /\ InputFits(case, d, dev[d], in[d], wpc[d])
  BY DEF InLane, Lane
<1>5. dev[d].case <= case
  BY <1>4 DEF OutputFits
<1>6. QED
  BY <1>1, <1>2, <1>3, <1>4, <1>5

\* The lines ls and the events es are of the case of x, which is the device's own case or
\* the one that it begins.
Adds(d, x, ls, es) ==
    /\ ls \in Seq(LineType) /\ es \in Seq(LineType)
    /\ x.case \in Nat /\ x.case <= case /\ (dev[d].case = case => x.case = case)
    /\ \A i \in 1..Len(ls) : /\ ls[i].c \in {0, x.case}
                             /\ ls[i].t = "send" => ls[i].c # 0 /\ ls[i] = Line("send", ls[i].c, ls[i].v)
    /\ \A i \in 1..Len(es) : es[i].c = x.case

\* With these the device is in its lane.
Follows(d, x, z, ls, es) ==
    \A g, f \in Seq(LineType) :
      Grows(out[d], g, ls) /\ Grows(did[d], f, es) /\ OutputFits(case, x, g, f) =>
        Lane(case, d, x, z, g, f, wpc[d], waitSig[d])

\* The other devices stay as they are.
OthersStay(d) ==
    \A e \in Dut : e # d => dev'[e] = dev[e] /\ in'[e] = in[e] /\ out'[e] = out[e] /\ did'[e] = did[e]

\* What a step of device d adds to the events and the output: the same signal to both,
\* the end of its wait to the events, or nothing about signals.
Marked(d) ==
    /\ OthersStay(d)
    /\ dev'[d].st = "blocked" => in'[d] = <<>>
    /\ \/ \E l \in LineType :
            l.t = "send" /\ Grows(out[d], out'[d], <<l>>) /\ Grows(did[d], did'[d], <<l>>)
       \/ /\ dev[d].st = "blocked" /\ in[d] # <<>>
          /\ out'[d] = out[d]
          /\ Grows(did[d], did'[d], <<Line("passed", dev[d].case, Signal(dev[d]))>>)
       \/ \E ls \in Seq(LineType), es \in Seq(LineType) :
            /\ Grows(out[d], out'[d], ls) /\ Grows(did[d], did'[d], es)
            /\ \A i \in 1..Len(ls) : ls[i].t # "send"
            /\ \A i \in 1..Len(es) : es[i].t \notin {"send", "passed"}

\* The step of device d is as it should be if it is so for what it adds.
LEMMA StepInLane ==
    ASSUME MultiTypes, NEW d \in Dut, InLane(d), NEW x, NEW r \in BOOLEAN, NEW ls, NEW es,
           Device(d, x, r, ls, es), NEW z, r => z = Tail(in[d]), ~r => z = in[d],
           Adds(d, x, ls, es), Follows(d, x, z, ls, es)
    PROVE  /\ InLane(d)'
           /\ dev'[d] = x /\ in'[d] = z /\ Grows(out[d], out'[d], ls) /\ Grows(did[d], did'[d], es)
           /\ OthersStay(d)
<1>1. /\ dev \in [Dut -> DeviceType] /\ in \in [Dut -> Seq(Nat)]
      /\ out \in [Dut -> Seq(LineType)] /\ did \in [Dut -> Seq(LineType)]
  BY DEF MultiTypes, DeviceTypes
<1>2. PICK g : g = out[d] \o ls
  OBVIOUS
<1>3. PICK f : f = did[d] \o es
  OBVIOUS
<1>4. /\ dev' = [dev EXCEPT ![d] = x] /\ in' = [in EXCEPT ![d] = z]
      /\ out' = [out EXCEPT ![d] = g] /\ did' = [did EXCEPT ![d] = f]
      /\ UNCHANGED <<case, wpc, waitSig>>
  BY <1>1, <1>2, <1>3 DEF Device, workerVars
<1>5. dev'[d] = x /\ in'[d] = z /\ out'[d] = g /\ did'[d] = f /\ OthersStay(d)
  BY <1>1, <1>4 DEF OthersStay
<1>6. PICK q \in Seq(LineType), h \in Seq(LineType) : q = out[d] /\ h = did[d]
  BY <1>1
<1>7. ls \in Seq(LineType) /\ es \in Seq(LineType)
  BY DEF Adds
<1>8. g \in Seq(LineType) /\ f \in Seq(LineType) /\ Grows(q, g, ls) /\ Grows(h, f, es)
  BY <1>2, <1>3, <1>6, <1>7, ConcatGrows
<1>9. OutputFits(case, x, g, f)
  <2>1. PICK c \in Nat : c = case /\ c # 0
    BY LaneTypes
  <2>2. PICK v : v = dev[d]
    OBVIOUS
  <2>3. OutputFits(c, v, q, h)
    BY <2>1, <2>2, <1>6, LaneTypes
  <2>4. x.case \in Nat /\ x.case <= c /\ (v.case = c => x.case = c)
    BY <2>1, <2>2 DEF Adds
  <2>41. \A j \in 1..Len(ls) : /\ ls[j].c \in {0, x.case}
                               /\ ls[j].t = "send" => ls[j].c # 0 /\ ls[j] = Line("send", ls[j].c, ls[j].v)
    BY DEF Adds
  <2>42. \A j \in 1..Len(es) : es[j].c = x.case
    BY DEF Adds
  <2>5. OutputFits(c, x, g, f)
    BY <2>1, <2>3, <2>4, <2>41, <2>42, <1>6, <1>7, <1>8, OutputGrows, SMTT(30)
  <2>6. QED
    BY <2>1, <2>5
<1>10. Lane(case, d, x, z, g, f, wpc[d], waitSig[d])
  BY <1>6, <1>8, <1>9 DEF Follows
<1>11. InLane(d)'
  BY <1>4, <1>5, <1>10 DEF InLane
<1>12. QED
  BY <1>5, <1>6, <1>8, <1>11

LEMMA OneLine ==
    ASSUME NEW T, NEW l \in T
    PROVE  <<l>> \in Seq(T) /\ Len(<<l>>) = 1 /\ <<l>>[1] = l /\ \A i \in 1..Len(<<l>>) : i = 1 /\ <<l>>[i] = l
  OBVIOUS

LEMMA BootInLane ==
    ASSUME MultiTypes, NEW d \in Dut, InLane(d), Boot(d)
    PROVE  InLane(d)' /\ Marked(d)
<1>1. PICK x : x = AtMenu(d)
  OBVIOUS
<1>2. PICK ls : ls = <<Ready>>
  OBVIOUS
<1>3. PICK es : es = <<>>
  OBVIOUS
<1>4. Ready \in LineType /\ Ready.t = "ready" /\ Ready.c = 0
  BY SizeAssumption DEF Ready, Line, LineType, Value
<1>5. /\ ls \in Seq(LineType) /\ Len(ls) = 1 /\ es \in Seq(LineType) /\ Len(es) = 0
      /\ \A i \in 1..Len(ls) : i = 1 /\ ls[i].t = "ready" /\ ls[i].c = 0
  BY <1>2, <1>3, <1>4, OneLine
<1>6. Device(d, x, FALSE, ls, es) /\ dev[d].st = "boot"
  BY <1>1, <1>2, <1>3 DEF Boot
<1>7. x.st = "menu" /\ x.case = dev[d].case
  BY <1>1, LaneTypes DEF AtMenu, DeviceType
<1>8. Adds(d, x, ls, es)
  BY <1>5, <1>7, LaneTypes DEF Adds
<1>9. Follows(d, x, in[d], ls, es)
  <2> SUFFICES ASSUME NEW g \in Seq(LineType), NEW f \in Seq(LineType), Grows(out[d], g, ls), Grows(did[d], f, es),
                      OutputFits(case, x, g, f)
               PROVE  Lane(case, d, x, in[d], g, f, wpc[d], waitSig[d])
    BY DEF Follows
  <2>1. \A i \in 1..Len(ls) : /\ ls[i].c \in {0, dev[d].case} /\ ls[i].t \in {"end", "ready"}
                              /\ ls[i].t = "ready" => i = Len(ls)
    BY <1>5
  <2>2. /\ case \in Nat /\ case # 0 /\ out[d] \in Seq(LineType) /\ did[d] \in Seq(LineType)
        /\ Lane(case, d, dev[d], in[d], out[d], did[d], wpc[d], waitSig[d])
    BY LaneTypes
  <2>3. dev[d].st \in {"boot", "ended"}
    BY <1>6
  <2>4. QED
    BY <2>1, <2>2, <2>3, <1>5, <1>7, MenuInLane
<1>10. /\ InLane(d)' /\ dev'[d] = x /\ Grows(out[d], out'[d], ls) /\ Grows(did[d], did'[d], es) /\ OthersStay(d)
  BY <1>6, <1>8, <1>9, StepInLane
<1>11. QED
  <2>1. x.st # "blocked"
    BY <1>7
  <2>2. \A i \in 1..Len(ls) : ls[i].t # "send"
    BY <1>5
  <2>3. \A i \in 1..Len(es) : es[i].t \notin {"send", "passed"}
    BY <1>5
  <2>4. ls \in Seq(LineType) /\ es \in Seq(LineType)
    BY <1>5
  <2>5. QED
    BY <2>1, <2>2, <2>3, <2>4, <1>10 DEF Marked

LEMMA SummaryInLane ==
    ASSUME MultiTypes, NEW d \in Dut, InLane(d), Summary(d)
    PROVE  InLane(d)' /\ Marked(d)
<1>1. PICK x : x = AtMenu(d)
  OBVIOUS
<1>2. PICK l : l = Line("end", dev[d].case, "")
  OBVIOUS
<1>3. PICK ls : ls = <<l, Ready>>
  OBVIOUS
<1>4. PICK es : es = <<l>>
  OBVIOUS
<1>5. Ready \in LineType /\ Ready.t = "ready" /\ Ready.c = 0
  BY SizeAssumption DEF Ready, Line, LineType, Value
<1>6. l \in LineType /\ l.t = "end" /\ l.c = dev[d].case
  <2>1. dev[d].case \in 0..NCase
    BY LaneTypes
  <2>2. QED
    BY <2>1, <1>2, BareLine
<1>7. /\ ls \in Seq(LineType) /\ Len(ls) = 2
      /\ \A i \in 1..Len(ls) : (i = 1 /\ ls[i] = l) \/ (i = 2 /\ ls[i] = Ready)
  BY <1>3, <1>5, <1>6
<1>8. es \in Seq(LineType) /\ \A i \in 1..Len(es) : es[i] = l
  BY <1>4, <1>6, OneLine
<1>9. Device(d, x, FALSE, ls, es) /\ dev[d].st = "ended"
  BY <1>1, <1>2, <1>3, <1>4 DEF Summary
<1>10. x.st = "menu" /\ x.case = dev[d].case
  BY <1>1, LaneTypes DEF AtMenu, DeviceType
<1>11. \A i \in 1..Len(ls) : /\ ls[i].c \in {0, dev[d].case} /\ ls[i].t \in {"end", "ready"}
                             /\ ls[i].t = "ready" => i = Len(ls)
  BY <1>5, <1>6, <1>7
<1>12. \A i \in 1..Len(es) : es[i].t = "end" /\ es[i].c = dev[d].case
  BY <1>6, <1>8
<1>13. Adds(d, x, ls, es)
  BY <1>7, <1>8, <1>10, <1>11, <1>12, LaneTypes DEF Adds
<1>14. Follows(d, x, in[d], ls, es)
  <2> SUFFICES ASSUME NEW g \in Seq(LineType), NEW f \in Seq(LineType), Grows(out[d], g, ls), Grows(did[d], f, es),
                      OutputFits(case, x, g, f)
               PROVE  Lane(case, d, x, in[d], g, f, wpc[d], waitSig[d])
    BY DEF Follows
  <2>1. /\ case \in Nat /\ case # 0 /\ out[d] \in Seq(LineType) /\ did[d] \in Seq(LineType)
        /\ Lane(case, d, dev[d], in[d], out[d], did[d], wpc[d], waitSig[d])
    BY LaneTypes
  <2>2. dev[d].st \in {"boot", "ended"}
    BY <1>9
  <2>3. QED
    BY <2>1, <2>2, <1>7, <1>10, <1>11, MenuInLane
<1>15. /\ InLane(d)' /\ dev'[d] = x /\ Grows(out[d], out'[d], ls) /\ Grows(did[d], did'[d], es) /\ OthersStay(d)
  BY <1>9, <1>13, <1>14, StepInLane
<1>16. QED
  BY <1>7, <1>8, <1>10, <1>11, <1>12, <1>15 DEF Marked

\* One number waits to be read, and it is the number n.
LEMMA OneNumber ==
    ASSUME NEW p, NEW n, p = <<n>>
    PROVE  p # <<>> /\ Head(p) = n /\ Tail(p) = <<>> /\ p[1] = n
  OBVIOUS

LEMMA ReadIndexInLane ==
    ASSUME MultiTypes, NEW d \in Dut, InLane(d), ReadIndex(d)
    PROVE  InLane(d)' /\ Marked(d)
<1>1. dev[d].st = "menu" /\ in[d] # <<>>
  BY DEF ReadIndex
<1>2. /\ case \in Nat /\ case # 0 /\ case \in Case /\ out[d] \in Seq(LineType) /\ did[d] \in Seq(LineType)
      /\ Lane(case, d, dev[d], in[d], out[d], did[d], wpc[d], waitSig[d])
      /\ InputFits(case, d, dev[d], in[d], wpc[d]) /\ NCase \in Nat /\ case <= NCase
  BY LaneTypes
<1>3. dev[d].case # case
  BY <1>1, <1>2 DEF InputFits
<1>4. PICK j \in 1..case : in[d] = <<CaseIndex[j]>> /\ (wpc[d] = "ready" => j # case)
  BY <1>1, <1>2 DEF InputFits
<1>5. Head(in[d]) = CaseIndex[j] /\ Tail(in[d]) = <<>>
  BY <1>4, OneNumber
<1>6. j \in Case /\ j \in Nat /\ j <= case
  BY <1>2 DEF Case
<1>7. PICK k \in Case : /\ CaseIndex[k] = Head(in[d])
                        /\ Device(d, [st |-> "sub", case |-> k, sub |-> 0, ip |-> 0], TRUE, <<Line("name", k, "")>>, <<>>)
  BY <1>5, <1>6 DEF ReadIndex
<1>8. k = j
  BY <1>5, <1>6, <1>7, MenuAssumption
<1>9. wpc[d] = "name" => k = case
  <2>1. ASSUME wpc[d] = "name"
        PROVE  in[d] \in {<<>>, <<CaseIndex[case]>>}
    BY <2>1, <1>1, <1>2, <1>3 DEF Lane, InStep
  <2>2. ASSUME wpc[d] = "name"
        PROVE  Head(in[d]) = CaseIndex[case]
    BY <2>1, <2>2, <1>1, OneNumber
  <2>3. QED
    BY <2>2, <1>2, <1>7, MenuAssumption
<1>10. PICK x : x = [st |-> "sub", case |-> k, sub |-> 0, ip |-> 0]
  OBVIOUS
<1>11. x.st = "sub" /\ x.case = k
  BY <1>10
<1>12. PICK l : l = Line("name", k, "")
  OBVIOUS
<1>13. l \in LineType /\ l.t = "name" /\ l.c = k
  <2>1. k \in 0..NCase
    BY <1>2 DEF Case
  <2>2. QED
    BY <2>1, <1>12, BareLine
<1>14. PICK es : es = <<>>
  OBVIOUS
<1>15. <<l>> \in Seq(LineType) /\ \A i \in 1..Len(<<l>>) : <<l>>[i] = l
  BY <1>13, OneLine
<1>16. es \in Seq(LineType) /\ Len(es) = 0
  BY <1>14
<1>17. Device(d, x, TRUE, <<l>>, es)
  BY <1>7, <1>10, <1>12, <1>14
<1>18. Adds(d, x, <<l>>, es)
  <2>1. k \in Nat /\ k <= case
    BY <1>6, <1>8
  <2>2. \A i \in 1..Len(<<l>>) : <<l>>[i].c \in {0, k} /\ <<l>>[i].t # "send"
    BY <1>13, <1>15
  <2>3. QED
    BY <2>1, <2>2, <1>3, <1>11, <1>15, <1>16 DEF Adds
<1>19. Follows(d, x, <<>>, <<l>>, es)
  <2> SUFFICES ASSUME NEW g \in Seq(LineType), NEW f \in Seq(LineType), Grows(out[d], g, <<l>>), Grows(did[d], f, es),
                      OutputFits(case, x, g, f)
               PROVE  Lane(case, d, x, <<>>, g, f, wpc[d], waitSig[d])
    BY DEF Follows
  <2>1. (wpc[d] = "ready" => x.case # case) /\ (wpc[d] = "name" => x.case = case)
    BY <1>4, <1>8, <1>9, <1>11
  <2>2. QED
    BY <2>1, <1>1, <1>2, <1>11, <1>13, ChoiceInLane
<1>20. /\ InLane(d)' /\ dev'[d] = x /\ Grows(out[d], out'[d], <<l>>) /\ Grows(did[d], did'[d], es) /\ OthersStay(d)
  <2>1. PICK z : z = <<>>
    OBVIOUS
  <2>2. z = Tail(in[d]) /\ Follows(d, x, z, <<l>>, es)
    BY <2>1, <1>5, <1>19
  <2>3. QED
    BY <2>2, <1>17, <1>18, StepInLane
<1>21. QED
  <2>1. \A i \in 1..Len(<<l>>) : <<l>>[i].t # "send"
    BY <1>13, <1>15
  <2>2. \A i \in 1..Len(es) : es[i].t \notin {"send", "passed"}
    BY <1>16
  <2>3. x.st # "blocked"
    BY <1>11
  <2>4. QED
    BY <2>1, <2>2, <2>3, <1>15, <1>16, <1>20 DEF Marked

\* A device that reads, if need be, what there is, and then runs or has ended its sub-case.
LEMMA RunStepInLane ==
    ASSUME MultiTypes, NEW d \in Dut, InLane(d), NEW x, NEW r \in BOOLEAN, NEW ls, NEW es,
           Device(d, x, r, ls, es), ls \in Seq(LineType), es \in Seq(LineType),
           dev[d].st \in {"sub", "run", "blocked"}, dev[d].st \in {"sub", "blocked"} <=> r,
           x.st \in {"run", "ended"}, x.case = dev[d].case,
           \A i \in 1..Len(ls) : /\ ls[i].c = dev[d].case /\ ls[i].t \in {"send", "result"}
                                 /\ ls[i].t = "send" => ls[i].c # 0 /\ ls[i] = Line("send", ls[i].c, ls[i].v),
           \A i \in 1..Len(es) : es[i].c = dev[d].case
    PROVE  /\ InLane(d)' /\ dev'[d] = x /\ in'[d] = <<>>
           /\ Grows(out[d], out'[d], ls) /\ Grows(did[d], did'[d], es) /\ OthersStay(d)
<1>1. r => in[d] # <<>>
  BY DEF Device
<1>2. /\ case \in Nat /\ case # 0 /\ out[d] \in Seq(LineType) /\ did[d] \in Seq(LineType)
      /\ Lane(case, d, dev[d], in[d], out[d], did[d], wpc[d], waitSig[d])
      /\ InputFits(case, d, dev[d], in[d], wpc[d]) /\ dev[d].case \in Nat /\ dev[d].case <= case
  BY LaneTypes
<1>3. PICK z : z = <<>>
  OBVIOUS
<1>4. (r => z = Tail(in[d])) /\ (~r => z = in[d])
  <2>1. CASE dev[d].st = "sub"
    <3>1. in[d] = <<d>>
      BY <2>1, <1>1, <1>2 DEF InputFits
    <3>2. QED
      BY <3>1, <2>1, <1>3, OneNumber
  <2>2. CASE dev[d].st = "blocked"
    <3>1. in[d] = <<0>>
      BY <2>2, <1>1, <1>2 DEF InputFits
    <3>2. QED
      BY <3>1, <2>2, <1>3, OneNumber
  <2>3. CASE dev[d].st = "run"
    BY <2>3, <1>2, <1>3 DEF InputFits
  <2>4. QED
    BY <2>1, <2>2, <2>3
<1>5. Adds(d, x, ls, es)
  BY <1>2 DEF Adds
<1>6. Follows(d, x, z, ls, es)
  <2> SUFFICES ASSUME NEW g \in Seq(LineType), NEW f \in Seq(LineType), Grows(out[d], g, ls), Grows(did[d], f, es),
                      OutputFits(case, x, g, f)
               PROVE  Lane(case, d, x, <<>>, g, f, wpc[d], waitSig[d])
    BY <1>3 DEF Follows
  <2>1. dev[d].st \in {"sub", "blocked"} => in[d] # <<>>
    BY <1>1
  <2>2. \A j \in 1..Len(ls) : ls[j].c = dev[d].case /\ ls[j].t \in {"send", "result"}
    OBVIOUS
  <2>3. QED
    BY <2>1, <2>2, <1>2, RunInLane
<1>7. /\ InLane(d)' /\ dev'[d] = x /\ in'[d] = z
      /\ Grows(out[d], out'[d], ls) /\ Grows(did[d], did'[d], es) /\ OthersStay(d)
  <2>1. r => z = Tail(in[d])
    BY <1>4
  <2>2. ~r => z = in[d]
    BY <1>4
  <2>3. QED
    BY <2>1, <2>2, <1>5, <1>6, StepInLane
<1>8. QED
  BY <1>3, <1>7

LEMMA ReadSubCaseInLane ==
    ASSUME MultiTypes, NEW d \in Dut, InLane(d), ReadSubCase(d)
    PROVE  InLane(d)' /\ Marked(d)
<1>1. dev[d].st = "sub" /\ in[d] # <<>>
  BY DEF ReadSubCase
<1>2. in[d] = <<d>>
  BY <1>1, LaneTypes DEF InputFits
<1>3. Head(in[d]) = d
  BY <1>2, OneNumber
<1>4. PICK x : x = [dev[d] EXCEPT !.st = "run", !.sub = d, !.ip = 1]
  OBVIOUS
<1>5. x.st = "run" /\ x.case = dev[d].case
  BY <1>4, LaneTypes DEF DeviceType
<1>6. PICK ls : ls = <<>>
  OBVIOUS
<1>7. ls \in Seq(LineType) /\ Len(ls) = 0
  BY <1>6
<1>8. Device(d, x, TRUE, ls, ls)
  BY <1>3, <1>4, <1>6 DEF ReadSubCase
<1>9. \A i \in 1..Len(ls) : FALSE
  BY <1>7
<1>10. /\ InLane(d)' /\ dev'[d] = x
       /\ Grows(out[d], out'[d], ls) /\ Grows(did[d], did'[d], ls) /\ OthersStay(d)
  BY <1>1, <1>5, <1>7, <1>8, <1>9, RunStepInLane
<1>11. QED
  BY <1>5, <1>7, <1>9, <1>10 DEF Marked

\* The step of a script that a device is at, and the line it is about.
LEMMA SignalLine ==
    ASSUME MultiTypes, NEW d \in Dut, dev[d].st \in {"run", "blocked"}, dev[d].ip <= Len(Steps(d)),
           NEW t \in {"send", "wait", "passed"}, NEW l, l = Line(t, dev[d].case, Steps(d)[dev[d].ip].sig)
    PROVE  /\ l \in LineType /\ l.t = t /\ l.c = dev[d].case /\ l.c # 0
           /\ l.v = Signal(dev[d]) /\ l = Line(t, dev[d].case, Signal(dev[d])) /\ l = Line(t, l.c, l.v)
<1>1. Steps(d)[dev[d].ip].sig \in Value
  BY StepIsTyped
<1>2. Signal(dev[d]) = Steps(d)[dev[d].ip].sig
  BY DEF Signal, Steps
<1>3. dev[d].case \in 0..NCase /\ dev[d].case # 0
  BY DEF MultiTypes, DeviceTypes, DeviceType
<1>4. l \in LineType /\ l.t = t /\ l.c = dev[d].case /\ l.v = Steps(d)[dev[d].ip].sig
  BY <1>1, <1>3, LineFacts
<1>5. QED
  BY <1>2, <1>3, <1>4

LEMMA SendSignalInLane ==
    ASSUME MultiTypes, NEW d \in Dut, InLane(d), SendSignal(d)
    PROVE  InLane(d)' /\ Marked(d)
<1>1. dev[d].st = "run" /\ dev[d].ip <= Len(Steps(d))
  BY DEF SendSignal
<1>2. PICK l : l = Line("send", dev[d].case, Steps(d)[dev[d].ip].sig)
  OBVIOUS
<1>3. l \in LineType /\ l.t = "send" /\ l.c = dev[d].case /\ l.c # 0 /\ l = Line("send", l.c, l.v)
  BY <1>1, <1>2, SignalLine
<1>4. PICK x : x = [dev[d] EXCEPT !.ip = @ + 1]
  OBVIOUS
<1>5. x.st = "run" /\ x.case = dev[d].case
  BY <1>1, <1>4, LaneTypes DEF DeviceType
<1>6. PICK ls : ls = <<l>>
  OBVIOUS
<1>7. ls \in Seq(LineType) /\ \A i \in 1..Len(ls) : ls[i] = l
  BY <1>3, <1>6, OneLine
<1>8. Device(d, x, FALSE, ls, ls)
  BY <1>2, <1>4, <1>6 DEF SendSignal
<1>9. \A i \in 1..Len(ls) : /\ ls[i].c = dev[d].case /\ ls[i].t \in {"send", "result"}
                            /\ ls[i].t = "send" => ls[i].c # 0 /\ ls[i] = Line("send", ls[i].c, ls[i].v)
  BY <1>3, <1>7
<1>91. \A i \in 1..Len(ls) : ls[i].c = dev[d].case
  BY <1>9
<1>10. /\ InLane(d)' /\ dev'[d] = x
       /\ Grows(out[d], out'[d], ls) /\ Grows(did[d], did'[d], ls) /\ OthersStay(d)
  BY <1>1, <1>5, <1>7, <1>8, <1>9, <1>91, RunStepInLane
<1>11. QED
  BY <1>3, <1>5, <1>6, <1>10 DEF Marked

LEMMA ConcludeInLane ==
    ASSUME MultiTypes, NEW d \in Dut, InLane(d), Conclude(d)
    PROVE  InLane(d)' /\ Marked(d)
<1>1. dev[d].st = "run"
  BY DEF Conclude
<1>2. PICK r \in Outcomes :
        Device(d, [dev[d] EXCEPT !.st = "ended"], FALSE, <<Line("result", dev[d].case, r)>>,
               <<Concluded(dev[d].case, dev[d].sub, r)>>)
  BY DEF Conclude
<1>3. PICK x : x = [dev[d] EXCEPT !.st = "ended"]
  OBVIOUS
<1>4. x.st = "ended" /\ x.case = dev[d].case
  BY <1>3, LaneTypes DEF DeviceType
<1>5. PICK l : l = Line("result", dev[d].case, r)
  OBVIOUS
<1>6. PICK e : e = Concluded(dev[d].case, dev[d].sub, r)
  OBVIOUS
<1>7. dev[d].case \in 0..NCase /\ dev[d].sub \in 0..NDut /\ r \in Value
  BY LaneTypes DEF DeviceType, Value
<1>8. l \in LineType /\ l.t = "result" /\ l.c = dev[d].case
  BY <1>5, <1>7, LineFacts
<1>9. e \in LineType /\ e.t = "result" /\ e.c = dev[d].case
  BY <1>6, <1>7, ConcludedFacts
<1>10. PICK ls : ls = <<l>>
  OBVIOUS
<1>11. PICK es : es = <<e>>
  OBVIOUS
<1>12. ls \in Seq(LineType) /\ \A i \in 1..Len(ls) : ls[i] = l
  BY <1>8, <1>10, OneLine
<1>13. es \in Seq(LineType) /\ \A i \in 1..Len(es) : es[i] = e
  BY <1>9, <1>11, OneLine
<1>14. Device(d, x, FALSE, ls, es)
  BY <1>2, <1>3, <1>5, <1>6, <1>10, <1>11
<1>15. \A i \in 1..Len(ls) : /\ ls[i].c = dev[d].case /\ ls[i].t \in {"send", "result"}
                             /\ ls[i].t = "send" => ls[i].c # 0 /\ ls[i] = Line("send", ls[i].c, ls[i].v)
  BY <1>8, <1>12
<1>16. \A i \in 1..Len(es) : es[i].c = dev[d].case
  BY <1>9, <1>13
<1>17. /\ InLane(d)' /\ dev'[d] = x
       /\ Grows(out[d], out'[d], ls) /\ Grows(did[d], did'[d], es) /\ OthersStay(d)
  BY <1>1, <1>4, <1>12, <1>13, <1>14, <1>15, <1>16, RunStepInLane
<1>18. QED
  <2>1. \A i \in 1..Len(ls) : ls[i].t # "send"
    BY <1>8, <1>12
  <2>2. \A i \in 1..Len(es) : es[i].t \notin {"send", "passed"}
    BY <1>9, <1>13
  <2>3. x.st # "blocked"
    BY <1>4
  <2>4. QED
    BY <2>1, <2>2, <2>3, <1>12, <1>13, <1>17 DEF Marked

LEMMA ReleasedInLane ==
    ASSUME MultiTypes, NEW d \in Dut, InLane(d), Released(d)
    PROVE  InLane(d)' /\ Marked(d)
<1>1. dev[d].st = "blocked" /\ in[d] # <<>>
  BY DEF Released, Device
<1>2. dev[d].ip <= Len(Steps(d))
  BY <1>1 DEF MultiTypes, DeviceTypes, Steps
<1>3. PICK l : l = Line("passed", dev[d].case, Steps(d)[dev[d].ip].sig)
  OBVIOUS
<1>4. l \in LineType /\ l.t = "passed" /\ l.c = dev[d].case /\ l = Line("passed", dev[d].case, Signal(dev[d]))
  BY <1>1, <1>2, <1>3, SignalLine
<1>5. PICK x : x = [dev[d] EXCEPT !.st = "run", !.ip = @ + 1]
  OBVIOUS
<1>6. x.st = "run" /\ x.case = dev[d].case
  BY <1>5, LaneTypes DEF DeviceType
<1>7. PICK ls : ls = <<>>
  OBVIOUS
<1>8. ls \in Seq(LineType) /\ Len(ls) = 0
  BY <1>7
<1>9. PICK es : es = <<l>>
  OBVIOUS
<1>10. es \in Seq(LineType) /\ \A i \in 1..Len(es) : es[i] = l
  BY <1>4, <1>9, OneLine
<1>11. Device(d, x, TRUE, ls, es)
  BY <1>3, <1>5, <1>7, <1>9 DEF Released
<1>12. \A i \in 1..Len(ls) : FALSE
  BY <1>8
<1>13. \A i \in 1..Len(es) : es[i].c = dev[d].case
  BY <1>4, <1>10
<1>14. /\ InLane(d)' /\ dev'[d] = x
       /\ Grows(out[d], out'[d], ls) /\ Grows(did[d], did'[d], es) /\ OthersStay(d)
  BY <1>1, <1>6, <1>8, <1>10, <1>11, <1>12, <1>13, RunStepInLane
<1>15. out'[d] = out[d]
  <2>1. out \in [Dut -> Seq(LineType)] /\ out' = [out EXCEPT ![d] = out[d] \o <<>>]
    BY <1>7, <1>11 DEF Device, MultiTypes, DeviceTypes
  <2>2. out[d] \o <<>> = out[d]
    BY <2>1, ConcatEmptySeq
  <2>3. QED
    BY <2>1, <2>2
<1>16. Grows(did[d], did'[d], <<Line("passed", dev[d].case, Signal(dev[d]))>>)
  BY <1>4, <1>9, <1>14
<1>17. QED
  BY <1>1, <1>6, <1>14, <1>15, <1>16 DEF Marked

LEMMA WaitForSignalInLane ==
    ASSUME MultiTypes, NEW d \in Dut, InLane(d), WaitForSignal(d)
    PROVE  InLane(d)' /\ Marked(d)
<1>1. dev[d].st = "run" /\ dev[d].ip <= Len(Steps(d))
  BY DEF WaitForSignal
<1>2. PICK l : l = Line("wait", dev[d].case, Steps(d)[dev[d].ip].sig)
  OBVIOUS
<1>3. l \in LineType /\ l.t = "wait" /\ l.c = dev[d].case /\ l.v = Signal(dev[d])
  BY <1>1, <1>2, SignalLine
<1>4. PICK x : x = [dev[d] EXCEPT !.st = "blocked"]
  OBVIOUS
<1>5. x.st = "blocked" /\ x.case = dev[d].case /\ Signal(x) = Signal(dev[d])
  BY <1>4, LaneTypes DEF DeviceType, Signal
<1>6. /\ case \in Nat /\ case # 0 /\ out[d] \in Seq(LineType) /\ did[d] \in Seq(LineType)
      /\ Lane(case, d, dev[d], in[d], out[d], did[d], wpc[d], waitSig[d])
      /\ InputFits(case, d, dev[d], in[d], wpc[d]) /\ dev[d].case \in Nat /\ dev[d].case <= case
  BY LaneTypes
<1>7. in[d] = <<>>
  BY <1>1, <1>6 DEF InputFits
<1>8. PICK es : es = <<>>
  OBVIOUS
<1>9. es \in Seq(LineType) /\ Len(es) = 0
  BY <1>8
<1>10. <<l>> \in Seq(LineType) /\ \A i \in 1..Len(<<l>>) : <<l>>[i] = l
  BY <1>3, OneLine
<1>11. Device(d, x, FALSE, <<l>>, es)
  BY <1>2, <1>4, <1>8 DEF WaitForSignal
<1>12. \A i \in 1..Len(<<l>>) : <<l>>[i].c = x.case /\ <<l>>[i].t # "send"
  BY <1>3, <1>5, <1>10
<1>13. \A i \in 1..Len(es) : FALSE
  BY <1>9
<1>14. Adds(d, x, <<l>>, es)
  BY <1>5, <1>6, <1>9, <1>10, <1>12, <1>13 DEF Adds
<1>15. Follows(d, x, in[d], <<l>>, es)
  <2> SUFFICES ASSUME NEW g \in Seq(LineType), NEW f \in Seq(LineType), Grows(out[d], g, <<l>>), Grows(did[d], f, es),
                      OutputFits(case, x, g, f)
               PROVE  Lane(case, d, x, in[d], g, f, wpc[d], waitSig[d])
    BY DEF Follows
  <2>1. l.v = Signal(x)
    BY <1>3, <1>5
  <2>2. QED
    BY <2>1, <1>1, <1>3, <1>5, <1>6, WaitInLane
<1>16. /\ InLane(d)' /\ dev'[d] = x /\ in'[d] = in[d]
       /\ Grows(out[d], out'[d], <<l>>) /\ Grows(did[d], did'[d], es) /\ OthersStay(d)
  BY <1>11, <1>14, <1>15, StepInLane
<1>17. QED
  <2>1. \A i \in 1..Len(<<l>>) : <<l>>[i].t # "send"
    BY <1>12
  <2>2. \A i \in 1..Len(es) : es[i].t \notin {"send", "passed"}
    BY <1>13
  <2>3. in'[d] = <<>>
    BY <1>7, <1>16
  <2>4. QED
    BY <2>1, <2>2, <2>3, <1>9, <1>10, <1>16 DEF Marked

LEMMA HangingInLane ==
    ASSUME MultiTypes, NEW d \in Dut, InLane(d), Hang(d)
    PROVE  InLane(d)' /\ Marked(d)
<1>1. dev[d].st # "blocked"
  BY DEF Hang
<1>2. PICK x : x = [dev[d] EXCEPT !.st = "hung"]
  OBVIOUS
<1>3. x.st = "hung" /\ x.case = dev[d].case
  BY <1>2, LaneTypes DEF DeviceType
<1>4. /\ case \in Nat /\ Lane(case, d, dev[d], in[d], out[d], did[d], wpc[d], waitSig[d])
  BY LaneTypes
<1>5. Lane(case, d, x, in[d], out[d], did[d], wpc[d], waitSig[d])
  BY <1>1, <1>3, <1>4, HangInLane
<1>6. /\ dev \in [Dut -> DeviceType] /\ in \in [Dut -> Seq(Nat)]
      /\ out \in [Dut -> Seq(LineType)] /\ did \in [Dut -> Seq(LineType)]
  BY DEF MultiTypes, DeviceTypes
<1>7. out[d] \o <<>> = out[d] /\ did[d] \o <<>> = did[d]
  BY <1>6, ConcatEmptySeq
<1>8. /\ dev' = [dev EXCEPT ![d] = x] /\ in' = in
      /\ out' = [out EXCEPT ![d] = out[d] \o <<>>] /\ did' = [did EXCEPT ![d] = did[d] \o <<>>]
      /\ UNCHANGED <<case, wpc, waitSig>>
  BY <1>2 DEF Hang, Device, workerVars
<1>9. /\ dev'[d] = x /\ in'[d] = in[d] /\ out'[d] = out[d] /\ did'[d] = did[d] /\ OthersStay(d)
  BY <1>6, <1>7, <1>8 DEF OthersStay
<1>10. InLane(d)'
  BY <1>5, <1>8, <1>9 DEF InLane
<1>11. PICK es : es = <<>>
  OBVIOUS
<1>12. es \in Seq(LineType) /\ Len(es) = 0 /\ \A i \in 1..Len(es) : FALSE
  BY <1>11
<1>13. Grows(out[d], out'[d], es) /\ Grows(did[d], did'[d], es)
  BY <1>6, <1>9, <1>12 DEF Grows
<1>14. dev'[d].st # "blocked"
  BY <1>3, <1>9
<1>15. QED
  BY <1>9, <1>10, <1>12, <1>13, <1>14 DEF Marked

LEMMA FirmwareInLane ==
    ASSUME MultiTypes, NEW d \in Dut, InLane(d), Firmware(d) \/ Hang(d)
    PROVE  InLane(d)' /\ Marked(d)
  BY BootInLane, ReadIndexInLane, ReadSubCaseInLane, SendSignalInLane, WaitForSignalInLane, ReleasedInLane,
     ConcludeInLane, SummaryInLane, HangingInLane DEF Firmware

-----------------------------------------------------------------------------
(* A turn of a worker. *)

\* What a turn of the worker of d does: it hands on a signal of its device, releases its
\* device, or leaves the signals alone.
Turned(d) ==
    /\ UNCHANGED <<case, dev, did>>
    /\ \A e \in Dut : e # d => in'[e] = in[e] /\ out'[e] = out[e] /\ wpc'[e] = wpc[e] /\ waitSig'[e] = waitSig[e]
    /\ \/ /\ taken' = taken /\ in'[d] = in[d]
          /\ \E n \in 1..Len(out[d]) :
               /\ Drops(out[d], out'[d], n)
               /\ out[d][n] = Line("send", case, out[d][n].v)
               /\ handed' = [handed EXCEPT ![d] = Append(@, out[d][n].v)]
       \/ /\ out' = out /\ handed' = handed
          /\ taken' = [taken EXCEPT ![d] = Append(@, waitSig[d])]
          /\ \/ in'[d] = in[d]
             \/ /\ dev[d].st = "blocked" /\ dev[d].case = case /\ in[d] = <<>>
                /\ waitSig[d] = Signal(dev[d])
       \/ /\ handed' = handed /\ taken' = taken
          /\ \E n \in Nat : Drops(out[d], out'[d], n)
          /\ dev[d].st = "blocked" => in'[d] = in[d]

LEMMA NothingDropped ==
    ASSUME NEW T, NEW q \in Seq(T)
    PROVE  Drops(q, q, 0)
<1>1. PICK n \in Nat : n = Len(q)
  OBVIOUS
<1>2. 0 \in 0..n /\ n = n - 0 /\ \A i \in 1..n : i + 0 = i
  OBVIOUS
<1>3. QED
  BY <1>1, <1>2 DEF Drops

LEMMA ConsumedFacts ==
    ASSUME MultiTypes, NEW d \in Dut, NEW n \in 1..Len(out[d]), Consume(d, n)
    PROVE  /\ out'[d] \in Seq(LineType) /\ Drops(out[d], out'[d], n) /\ n \in Nat
           /\ \A e \in Dut : e # d => out'[e] = out[e]
<1>1. out \in [Dut -> Seq(LineType)]
  BY DEF MultiTypes, DeviceTypes
<1>2. PICK q \in Seq(LineType) : q = out[d]
  BY <1>1
<1>3. PICK r : r = SubSeq(q, n + 1, Len(q))
  OBVIOUS
<1>4. n \in 1..Len(q) /\ n \in Nat /\ Len(q) \in Nat
  BY <1>2
<1>5. r \in Seq(LineType) /\ \A i \in 1..Len(r) : i + n \in 1..Len(q) /\ r[i] = q[i + n]
  BY <1>3, <1>4, SuffixFacts
<1>6. Len(r) = Len(q) - n
  BY <1>3, <1>4
<1>7. out' = [out EXCEPT ![d] = r]
  BY <1>2, <1>3 DEF Consume
<1>8. out'[d] = r /\ \A e \in Dut : e # d => out'[e] = out[e]
  BY <1>1, <1>7
<1>9. Drops(q, r, n)
  BY <1>4, <1>5, <1>6 DEF Drops
<1>10. QED
  BY <1>2, <1>4, <1>5, <1>8, <1>9

LEMMA WrittenFacts ==
    ASSUME MultiTypes, NEW d \in Dut, NEW x, Write(d, x)
    PROVE  in'[d] = After(dev[d], in[d], x) /\ \A e \in Dut : e # d => in'[e] = in[e]
<1>1. in \in [Dut -> Seq(Nat)]
  BY DEF MultiTypes, DeviceTypes
<1>2. QED
  BY <1>1 DEF Write, After

\* If nothing is found, there is nothing.
LEMMA NotFoundFacts ==
    ASSUME MultiTypes, NEW d \in Dut, NEW pattern, Find(d, pattern) = 0
    PROVE  \A i \in 1..Len(out[d]) : ~(out[d][i].t \in pattern /\ (pattern = NamePattern => out[d][i].c = case))
<1> DEFINE T(l) == l.t \in pattern /\ (pattern = NamePattern => l.c = case)
           I == {i \in 1..Len(out[d]) : T(out[d][i])}
<1>1. Find(d, pattern) = IF I # {} THEN CHOOSE i \in I : \A j \in I : i <= j ELSE 0
  BY DEF Find, SelectInSeq, Min
<1>2. I \in SUBSET Nat /\ 0 \notin I
  OBVIOUS
<1>3. CASE I # {}
  <2> HIDE DEF I
  <2>1. \E i \in I : \A j \in I : i <= j
    BY <1>2, <1>3, LeastNatural
  <2>2. Find(d, pattern) \in I
    BY <1>1, <1>3, <2>1
  <2>3. QED
    BY <2>2, <1>2
<1>4. QED
  BY <1>3

\* Its worker and its lines say whether a device is in its lane.
LEMMA TurnInLane ==
    ASSUME NEW d \in Dut, UNCHANGED <<case, dev, did>>,
           Lane(case, d, dev[d], in'[d], out'[d], did[d], wpc'[d], waitSig'[d])
    PROVE  InLane(d)'
  BY DEF InLane

\* A worker that ends, or takes from the output and goes on as it was.
LEMMA EndInLane ==
    ASSUME MultiTypes, NEW d \in Dut, InLane(d), UNCHANGED <<case, dev, did>>, in'[d] = in[d],
           out'[d] \in Seq(LineType), NEW n, Drops(out[d], out'[d], n),
           wpc'[d] \in {"run", "done", "raised"}, wpc'[d] = "run" => wpc[d] = "run"
    PROVE  InLane(d)'
<1>1. PICK q \in Seq(LineType) : q = out[d]
  BY LaneTypes
<1>2. PICK c \in Nat : c = case
  BY LaneTypes
<1>3. PICK w : w = wpc[d]
  OBVIOUS
<1>4. PICK u : u = wpc'[d]
  OBVIOUS
<1>5. PICK r \in Seq(LineType) : r = out'[d]
  OBVIOUS
<1>6. Lane(c, d, dev[d], in[d], q, did[d], w, waitSig[d])
  BY <1>1, <1>2, <1>3, LaneTypes
<1>7. Drops(q, r, n) /\ u \in {"run", "done", "raised"} /\ (u = "run" => w = "run")
  BY <1>1, <1>3, <1>4, <1>5
<1>8. Lane(c, d, dev[d], in[d], r, did[d], u, waitSig'[d])
  BY <1>6, <1>7, SeenInLane
<1>9. QED
  BY <1>2, <1>4, <1>5, <1>8, TurnInLane

\* The worker ends or is asked in vain: nothing of its device changes.
LEMMA IdleTurn ==
    ASSUME MultiTypes, NEW d \in Dut, InLane(d), UNCHANGED <<case, dev, did, in, out, handed, taken, waitSig>>,
           \/ wpc'[d] = wpc[d] 
           \/ wpc'[d] \in {"done", "raised"},
           \A e \in Dut : e # d => wpc'[e] = wpc[e]
    PROVE  InLane(d)' /\ Turned(d)
<1>1. out[d] \in Seq(LineType) /\ in'[d] = in[d] /\ out'[d] = out[d] /\ waitSig'[d] = waitSig[d] /\ 0 \in Nat
  BY LaneTypes
<1>2. Drops(out[d], out'[d], 0)
  BY <1>1, NothingDropped
<1>3. InLane(d)'
  <2>1. CASE wpc'[d] = wpc[d]
    BY <2>1, <1>1, LaneTypes, TurnInLane
  <2>2. CASE wpc'[d] \in {"done", "raised"}
    <3>1. out'[d] \in Seq(LineType) /\ wpc'[d] \in {"run", "done", "raised"} /\ (wpc'[d] = "run" => wpc[d] = "run")
      BY <2>2, <1>1
    <3>2. QED
      BY <3>1, <1>1, <1>2, EndInLane
  <2>3. QED
    BY <2>1, <2>2
<1>4. QED
  BY <1>1, <1>2, <1>3 DEF Turned

\* The types of the worker's state that the turns use.
LEMMA TurnTypes ==
    ASSUME MultiTypes, NEW d \in Dut
    PROVE  /\ wpc \in [Dut -> {"ready", "name", "run", "wait", "done", "raised"}]
           /\ waitSig \in [Dut -> Value] /\ DOMAIN waitSig = Dut /\ DOMAIN wpc = Dut
           /\ out[d] \in Seq(LineType) /\ d \in Nat /\ CaseIndex[case] \in Nat
  BY OwnNumbers DEF MultiTypes, TesterTypes, DeviceTypes

LEMMA SeeReadyInLane ==
    ASSUME MultiTypes, NEW d \in Dut, InLane(d), SeeReady(d)
    PROVE  InLane(d)' /\ Turned(d)
<1>1. PICK n : n = Find(d, ReadyPattern)
  OBVIOUS
<1>2. n \in 1..Len(out[d]) /\ out[d][n].t = "ready" /\ Consume(d, n)
  BY <1>1, FindFacts DEF SeeReady, ReadyPattern
<1>3. /\ out'[d] \in Seq(LineType) /\ Drops(out[d], out'[d], n) /\ n \in Nat
      /\ \A e \in Dut : e # d => out'[e] = out[e]
  BY <1>2, ConsumedFacts
<1>4. UNCHANGED <<case, dev, did, handed, taken, waitSig>> /\ wpc[d] = "ready"
  BY DEF SeeReady, Outside
<1>5. CASE Write(d, CaseIndex[case]) /\ wpc' = [wpc EXCEPT ![d] = "name"]
  <2>1. PICK z : z = in'[d]
    OBVIOUS
  <2>2. z = After(dev[d], in[d], CaseIndex[case]) /\ \A e \in Dut : e # d => in'[e] = in[e]
    BY <2>1, <1>5, WrittenFacts
  <2>3. wpc'[d] = "name" /\ \A e \in Dut : e # d => wpc'[e] = wpc[e]
    BY <1>5, TurnTypes
  <2>4. /\ case \in Nat /\ case # 0 /\ out[d] \in Seq(LineType)
        /\ Lane(case, d, dev[d], in[d], out[d], did[d], "ready", waitSig[d])
    BY <1>4, LaneTypes
  <2>5. PICK r \in Seq(LineType) : r = out'[d]
    BY <1>3
  <2>6. Lane(case, d, dev[d], z, r, did[d], "name", waitSig[d]) /\ (dev[d].st = "blocked" => z = in[d])
    BY <2>2, <2>4, <2>5, <1>2, <1>3, ReadyInLane
  <2>7. InLane(d)'
    BY <2>1, <2>3, <2>5, <2>6, <1>4, TurnInLane
  <2>8. QED
    BY <2>1, <2>2, <2>3, <2>6, <2>7, <1>3, <1>4 DEF Turned
<1>6. CASE Complete(d, "PRE_RUN_FAILURE") /\ UNCHANGED in
  <2>1. wpc'[d] = "done" /\ \A e \in Dut : e # d => wpc'[e] = wpc[e]
    BY <1>6, TurnTypes DEF Complete
  <2>2. InLane(d)'
    BY <2>1, <1>3, <1>4, <1>6, EndInLane
  <2>3. QED
    BY <2>1, <2>2, <1>3, <1>4, <1>6 DEF Turned
<1>7. QED
  BY <1>5, <1>6 DEF SeeReady

LEMMA SeeNameInLane ==
    ASSUME MultiTypes, NEW d \in Dut, InLane(d), SeeName(d)
    PROVE  InLane(d)' /\ Turned(d)
<1>1. PICK n : n = Find(d, NamePattern)
  OBVIOUS
<1>2. n \in 1..Len(out[d]) /\ out[d][n].c = case /\ Consume(d, n)
  BY <1>1, FindFacts DEF SeeName
<1>3. /\ out'[d] \in Seq(LineType) /\ Drops(out[d], out'[d], n) /\ n \in Nat
      /\ \A e \in Dut : e # d => out'[e] = out[e]
  BY <1>2, ConsumedFacts
<1>4. UNCHANGED <<case, dev, did, handed, taken, waitSig>> /\ wpc[d] = "name"
  BY DEF SeeName, Outside
<1>5. CASE Write(d, d) /\ wpc' = [wpc EXCEPT ![d] = "run"]
  <2>1. PICK z : z = in'[d]
    OBVIOUS
  <2>2. z = After(dev[d], in[d], d) /\ \A e \in Dut : e # d => in'[e] = in[e]
    BY <2>1, <1>5, WrittenFacts
  <2>3. wpc'[d] = "run" /\ \A e \in Dut : e # d => wpc'[e] = wpc[e]
    BY <1>5, TurnTypes
  <2>4. /\ case \in Nat /\ case # 0 /\ out[d] \in Seq(LineType)
        /\ Lane(case, d, dev[d], in[d], out[d], did[d], "name", waitSig[d])
    BY <1>4, LaneTypes
  <2>5. PICK r \in Seq(LineType) : r = out'[d]
    BY <1>3
  <2>6. Lane(case, d, dev[d], z, r, did[d], "run", waitSig[d]) /\ (dev[d].st = "blocked" => z = in[d])
    BY <2>2, <2>4, <2>5, <1>2, <1>3, NameInLane
  <2>7. InLane(d)'
    BY <2>1, <2>3, <2>5, <2>6, <1>4, TurnInLane
  <2>8. QED
    BY <2>1, <2>2, <2>3, <2>6, <2>7, <1>3, <1>4 DEF Turned
<1>6. CASE wpc' = [wpc EXCEPT ![d] = "raised"] /\ UNCHANGED in
  <2>1. wpc'[d] = "raised" /\ \A e \in Dut : e # d => wpc'[e] = wpc[e]
    BY <1>6, TurnTypes
  <2>2. InLane(d)'
    BY <2>1, <1>3, <1>4, <1>6, EndInLane
  <2>3. QED
    BY <2>1, <2>2, <1>3, <1>4, <1>6 DEF Turned
<1>7. QED
  BY <1>5, <1>6 DEF SeeName

LEMMA SeeSendInLane ==
    ASSUME MultiTypes, NEW d \in Dut, InLane(d), SeeSend(d)
    PROVE  InLane(d)' /\ Turned(d)
<1>1. PICK n : n = Find(d, SignalPattern)
  OBVIOUS
<1>2. n \in 1..Len(out[d]) /\ out[d][n].t = "send" /\ Consume(d, n)
  BY <1>1, FindFacts DEF SeeSend
<1>3. /\ out'[d] \in Seq(LineType) /\ Drops(out[d], out'[d], n) /\ n \in Nat
      /\ \A e \in Dut : e # d => out'[e] = out[e]
  BY <1>2, ConsumedFacts
<1>4. UNCHANGED <<case, dev, did, in, taken, waitSig>> /\ wpc[d] = "run"
  BY DEF SeeSend, Outside
<1>5. handed' = [handed EXCEPT ![d] = Append(@, out[d][n].v)]
  BY <1>1 DEF SeeSend
<1>6. wpc'[d] \in {"run", "done"} /\ \A e \in Dut : e # d => wpc'[e] = wpc[e]
  BY TurnTypes DEF SeeSend, RunOn, Complete
<1>7. out[d][n] = Line("send", case, out[d][n].v)
  <2>1. out[d][n].c # 0 /\ out[d][n] = Line("send", out[d][n].c, out[d][n].v)
    BY <1>2, LaneTypes DEF OutputFits
  <2>2. out[d][n].c \in {0, case}
    BY <1>2, <1>4, LaneTypes DEF Lane, InStep, SinceStart
  <2>3. QED
    BY <2>1, <2>2
<1>8. InLane(d)'
  BY <1>3, <1>4, <1>6, EndInLane
<1>9. QED
  BY <1>2, <1>3, <1>4, <1>5, <1>6, <1>7, <1>8 DEF Turned

LEMMA SeeWaitInLane ==
    ASSUME MultiTypes, NEW d \in Dut, InLane(d), SeeWait(d)
    PROVE  InLane(d)' /\ Turned(d)
<1>1. PICK n : n = Find(d, SignalPattern)
  OBVIOUS
<1>2. n \in 1..Len(out[d]) /\ out[d][n].t = "wait" /\ Consume(d, n)
  BY <1>1, FindFacts DEF SeeWait
<1>3. /\ out'[d] \in Seq(LineType) /\ Drops(out[d], out'[d], n) /\ n \in Nat
      /\ \A e \in Dut : e # d => out'[e] = out[e]
  BY <1>2, ConsumedFacts
<1>4. UNCHANGED <<case, dev, did, in, handed, taken>> /\ wpc[d] = "run"
  BY DEF SeeWait, Outside
<1>5. waitSig' = [waitSig EXCEPT ![d] = out[d][n].v] /\ wpc' = [wpc EXCEPT ![d] = "wait"]
  BY <1>1 DEF SeeWait
<1>6. /\ wpc'[d] = "wait" /\ waitSig'[d] = out[d][n].v
      /\ \A e \in Dut : e # d => wpc'[e] = wpc[e] /\ waitSig'[e] = waitSig[e]
  BY <1>5, TurnTypes
<1>7. PICK r \in Seq(LineType) : r = out'[d]
  BY <1>3
<1>8. PICK y : y = waitSig'[d]
  OBVIOUS
<1>9. case \in Nat /\ out[d] \in Seq(LineType) /\ Lane(case, d, dev[d], in[d], out[d], did[d], "run", waitSig[d])
  BY <1>4, LaneTypes
<1>10. Lane(case, d, dev[d], in[d], r, did[d], "wait", y)
  BY <1>2, <1>3, <1>6, <1>7, <1>8, <1>9, AskInLane
<1>11. InLane(d)'
  BY <1>4, <1>6, <1>7, <1>8, <1>10, TurnInLane
<1>12. QED
  BY <1>3, <1>4, <1>6, <1>11 DEF Turned

LEMMA SeeEndInLane ==
    ASSUME MultiTypes, NEW d \in Dut, InLane(d), SeeEnd(d)
    PROVE  InLane(d)' /\ Turned(d)
<1>1. PICK n : n = Find(d, SignalPattern)
  OBVIOUS
<1>2. n \in 1..Len(out[d]) /\ Consume(d, n)
  BY <1>1, FindFacts DEF SeeEnd
<1>3. /\ out'[d] \in Seq(LineType) /\ Drops(out[d], out'[d], n) /\ n \in Nat
      /\ \A e \in Dut : e # d => out'[e] = out[e]
  BY <1>2, ConsumedFacts
<1>4. UNCHANGED <<case, dev, did, in, handed, taken, waitSig>>
  BY DEF SeeEnd, Outside
<1>5. wpc'[d] = "done" /\ \A e \in Dut : e # d => wpc'[e] = wpc[e]
  BY TurnTypes DEF SeeEnd, Complete
<1>6. InLane(d)'
  BY <1>3, <1>4, <1>5, EndInLane
<1>7. QED
  BY <1>3, <1>4, <1>5, <1>6 DEF Turned

LEMMA TakeSignalInLane ==
    ASSUME MultiTypes, NEW d \in Dut, InLane(d), TakeSignal(d)
    PROVE  InLane(d)' /\ Turned(d)
<1>1. /\ UNCHANGED <<case, dev, did, out, handed, waitSig>> /\ wpc[d] = "wait"
      /\ taken' = [taken EXCEPT ![d] = Append(@, waitSig[d])]
  BY DEF TakeSignal, Outside
<1>2. case \in Nat /\ out[d] \in Seq(LineType) /\ Lane(case, d, dev[d], in[d], out[d], did[d], "wait", waitSig[d])
  BY <1>1, LaneTypes
<1>3. Drops(out[d], out'[d], 0)
  BY <1>1, <1>2, NothingDropped
<1>4. CASE Write(d, 0) /\ RunOn(d)
  <2>1. wpc'[d] \in {"run", "done"} /\ \A e \in Dut : e # d => wpc'[e] = wpc[e]
    BY <1>4, TurnTypes DEF RunOn, Complete
  <2>2. PICK z : z = in'[d]
    OBVIOUS
  <2>3. z = After(dev[d], in[d], 0) /\ \A e \in Dut : e # d => in'[e] = in[e]
    BY <2>2, <1>4, WrittenFacts
  <2>4. PICK u \in {"run", "done"} : u = wpc'[d]
    BY <2>1
  <2>41. PICK v, p, q, h, s : v = dev[d] /\ p = in[d] /\ q = out[d] /\ h = did[d] /\ s = waitSig[d]
    OBVIOUS
  <2>42. Lane(case, d, v, p, q, h, "wait", s) /\ z = After(v, p, 0) /\ case \in Nat
    BY <2>3, <2>41, <1>2
  <2>43. /\ Lane(case, d, v, z, q, h, u, s)
         /\ v.case = case /\ v.st = "blocked" /\ p = <<>> /\ s = Signal(v)
    BY <2>42, TakeInLane
  <2>5. /\ Lane(case, d, dev[d], z, out[d], did[d], u, waitSig[d])
        /\ dev[d].case = case /\ dev[d].st = "blocked" /\ in[d] = <<>> /\ waitSig[d] = Signal(dev[d])
    BY <2>41, <2>43
  <2>6. InLane(d)'
    BY <2>2, <2>4, <2>5, <1>1, TurnInLane
  <2>7. QED
    BY <2>1, <2>3, <2>5, <2>6, <1>1 DEF Turned
<1>5. CASE wpc' = [wpc EXCEPT ![d] = "raised"] /\ UNCHANGED in
  <2>1. wpc'[d] = "raised" /\ \A e \in Dut : e # d => wpc'[e] = wpc[e]
    BY <1>5, TurnTypes
  <2>2. InLane(d)'
    BY <2>1, <1>1, <1>2, <1>3, <1>5, EndInLane
  <2>3. QED
    BY <2>1, <2>2, <1>1, <1>5 DEF Turned
<1>6. QED
  BY <1>4, <1>5 DEF TakeSignal

\* If a device that has got the index always answers in time, the index is written again
\* only to a device that has not got it.
LEMMA RetryStartInLane ==
    ASSUME MultiTypes, ~Slow, NEW d \in Dut, InLane(d), RetryStart(d)
    PROVE  InLane(d)' /\ Turned(d)
<1>1. UNCHANGED <<case, dev, did, out, handed, taken, waitSig>> /\ wpc[d] = "name"
  BY DEF RetryStart, Outside
<1>2. /\ case \in Nat /\ case # 0 /\ out[d] \in Seq(LineType)
      /\ Lane(case, d, dev[d], in[d], out[d], did[d], "name", waitSig[d])
  BY <1>1, LaneTypes
<1>3. Drops(out[d], out'[d], 0) /\ 0 \in Nat
  BY <1>1, <1>2, NothingDropped
<1>4. ~(dev[d].st = "menu" /\ in[d] # <<>>)
  BY <1>1 DEF RetryStart, TimeMayBeUp, Answering
<1>5. ~JustNamed(case, out[d])
  <2>1. Find(d, NamePattern) = 0
    BY <1>1 DEF RetryStart, Fruitless
  <2>2. \A i \in 1..Len(out[d]) : ~(out[d][i].t = "name" /\ out[d][i].c = case)
    BY <2>1, NotFoundFacts DEF NamePattern
  <2>3. QED
    BY <2>2 DEF JustNamed
<1>6. CASE Write(d, CaseIndex[case]) /\ UNCHANGED wpc
  <2>1. PICK z : z = in'[d]
    OBVIOUS
  <2>2. z = After(dev[d], in[d], CaseIndex[case]) /\ \A e \in Dut : e # d => in'[e] = in[e]
    BY <2>1, <1>6, WrittenFacts
  <2>3. Lane(case, d, dev[d], z, out[d], did[d], "name", waitSig[d]) /\ (dev[d].st = "blocked" => z = in[d])
    BY <2>2, <1>2, <1>4, <1>5, RetryInLane
  <2>4. InLane(d)'
    BY <2>1, <2>3, <1>1, <1>6, TurnInLane
  <2>5. QED
    BY <2>1, <2>2, <2>3, <2>4, <1>1, <1>3, <1>6 DEF Turned
<1>7. CASE Complete(d, "PRE_RUN_FAILURE") /\ UNCHANGED in
  <2>1. wpc'[d] = "done" /\ \A e \in Dut : e # d => wpc'[e] = wpc[e]
    BY <1>7, TurnTypes DEF Complete
  <2>2. QED
    BY <2>1, <1>1, <1>7, IdleTurn
<1>8. QED
  BY <1>6, <1>7 DEF RetryStart

LEMMA WorkerInLane ==
    ASSUME MultiTypes, ~Slow, NEW d \in Dut, InLane(d), Worker(d)
    PROVE  InLane(d)' /\ Turned(d)
<1>1. CASE SkipDone(d) \/ PollAgain(d)
  <2>1. UNCHANGED <<case, dev, did, in, out, handed, taken, waitSig>> /\ wpc' = wpc
    BY <1>1 DEF SkipDone, PollAgain, Outside, workerVars
  <2>2. QED
    BY <2>1, IdleTurn
<1>2. CASE GiveUpStart(d) \/ RunTimeout(d) \/ WaitTimeout(d)
  <2>1. UNCHANGED <<case, dev, did, in, out, handed, taken, waitSig>> /\ wpc' = [wpc EXCEPT ![d] = "done"]
    BY <1>2 DEF GiveUpStart, RunTimeout, WaitTimeout, Outside, Complete
  <2>2. wpc'[d] = "done" /\ \A e \in Dut : e # d => wpc'[e] = wpc[e]
    BY <2>1, TurnTypes
  <2>3. QED
    BY <2>1, <2>2, IdleTurn
<1>3. QED
  BY <1>1, <1>2, SeeReadyInLane, SeeNameInLane, SeeSendInLane, SeeWaitInLane, SeeEndInLane, TakeSignalInLane,
     RetryStartInLane DEF Worker

-----------------------------------------------------------------------------
(* Counting. *)

LEMMA FinitePlaces ==
    ASSUME NEW T, NEW f \in [Dut -> Seq(T)], NEW D \in SUBSET Dut, NEW x
    PROVE  IsFiniteSet(Places(f, D, x)) /\ Occurrences(f, D, x) \in Nat
<1> DEFINE F == [e \in D |-> {<<e, i>> : i \in {j \in DOMAIN f[e] : f[e][j] = x}}]
           U == {F[e] : e \in D}
<1>1. IsFiniteSet(D)
  <2>1. NDut \in Int /\ 1 \in Int
    BY SizeAssumption
  <2>2. IsFiniteSet(Dut)
    BY <2>1, FS_Interval DEF Dut
  <2>3. QED
    BY <2>2, FS_Subset
<1>2. ASSUME NEW e \in D
      PROVE  IsFiniteSet(F[e])
  <2>1. PICK n \in Nat : n = Len(f[e]) /\ DOMAIN f[e] = 1..n
    OBVIOUS
  <2>2. \A z \in F[e] : z[2] \in 1..n /\ z = <<e, z[2]>>
    BY <2>1
  <2>3. PICK A : A = F[e]
    OBVIOUS
  <2>4. PICK g : g = [z \in A |-> z[2]]
    OBVIOUS
  <2>5. g \in [A -> 1..n] /\ \A y, z \in A : g[y] = g[z] => y = z
    <3> HIDE DEF F
    <3> QED BY <2>2, <2>3, <2>4
  <2>6. g \in Injection(A, 1..n)
    BY <2>5 DEF Injection, IsInjective
  <2>7. IsFiniteSet(1..n)
    BY FS_Interval
  <2>8. IsFiniteSet(A)
    BY <2>6, <2>7, FS_Injection
  <2>9. QED
    BY <2>3, <2>8
<1>3. IsFiniteSet(U)
  <2>1. F \in Surjection(D, U)
    <3>1. F \in [D -> U]
      OBVIOUS
    <3>2. \A u \in U : \E e \in D : F[e] = u
      OBVIOUS
    <3>3. QED
      BY <3>1, <3>2 DEF Surjection
  <2>2. QED
    <3> HIDE DEF F, U
    <3> QED BY <1>1, <2>1, FS_Surjection
<1>4. IsFiniteSet(UNION U)
  <2>1. \A u \in U : IsFiniteSet(u)
    BY <1>2
  <2>2. QED
    <3> HIDE DEF U
    <3> QED BY <1>3, <2>1, FS_UNION
<1>5. UNION U = Places(f, D, x)
  BY DEF Places
<1>6. QED
  <2>1. PICK P : P = Places(f, D, x)
    OBVIOUS
  <2>2. IsFiniteSet(P)
    BY <2>1, <1>4, <1>5
  <2>3. Cardinality(P) \in Nat
    BY <2>2, FS_CardinalityType
  <2>4. QED
    BY <2>1, <2>2, <2>3, PlaceFacts

\* Sequences that differ at d alone.
DifferAt(f, g, d) ==
    /\ f \in [Dut -> Seq(LineType)] /\ g \in [Dut -> Seq(LineType)]
    /\ \A e \in Dut : e # d => g[e] = f[e]

\* Lines other than x are no more places of x.
LEMMA OthersAdded ==
    ASSUME NEW f, NEW g, NEW d \in Dut, NEW D \in SUBSET Dut, NEW x, DifferAt(f, g, d),
           NEW ls \in Seq(LineType), Grows(f[d], g[d], ls), \A i \in 1..Len(ls) : ls[i] # x
    PROVE  Occurrences(g, D, x) = Occurrences(f, D, x)
<1>1. /\ f[d] \in Seq(LineType) /\ g[d] \in Seq(LineType)
      /\ DOMAIN f[d] = 1..Len(f[d]) /\ DOMAIN g[d] = 1..Len(g[d]) /\ \A e \in Dut : e # d => g[e] = f[e]
  BY DEF DifferAt
<1>2. \A i \in 1..Len(f[d]) : i \in 1..Len(g[d]) /\ g[d][i] = f[d][i]
  BY <1>1 DEF Grows
<1>3. ASSUME NEW i \in 1..Len(g[d]), g[d][i] = x
      PROVE  i \in 1..Len(f[d])
  <2>1. CASE i <= Len(f[d])
    BY <2>1, <1>1
  <2>2. CASE \E j \in 1..Len(ls) : g[d][i] = ls[j]
    BY <2>2, <1>3
  <2>3. QED
    BY <2>1, <2>2 DEF Grows
<1>4. \A e \in D : \A i : (i \in DOMAIN f[e] /\ f[e][i] = x) <=> (i \in DOMAIN g[e] /\ g[e][i] = x)
  BY <1>1, <1>2, <1>3
<1>5. ASSUME NEW p
      PROVE  p \in Places(g, D, x) <=> p \in Places(f, D, x)
  BY <1>4, PlaceFacts
<1>6. Places(g, D, x) = Places(f, D, x)
  BY <1>5
<1>7. QED
  BY <1>6, PlaceFacts

\* One line more is one place more, if it is x, and if d counts.
LEMMA LineAdded ==
    ASSUME NEW f, NEW g, NEW d \in Dut, NEW D \in SUBSET Dut, NEW x, DifferAt(f, g, d),
           NEW l \in LineType, Grows(f[d], g[d], <<l>>)
    PROVE  /\ Occurrences(f, D, x) \in Nat
           /\ Occurrences(g, D, x) = Occurrences(f, D, x) + (IF d \in D /\ l = x THEN 1 ELSE 0)
<1>1. /\ f \in [Dut -> Seq(LineType)] /\ \A e \in D : e # d => g[e] = f[e]
  BY DEF DifferAt
<1>2. IsFiniteSet(Places(f, D, x)) /\ Occurrences(f, D, x) \in Nat
  BY <1>1, FinitePlaces
<1>3. CASE d \in D
  <2>1. PICK q \in Seq(LineType) : q = f[d]
    BY <1>1
  <2>2. PICK r \in Seq(LineType) : r = g[d]
    BY DEF DifferAt
  <2>3. r = Append(q, l)
    <3>1. Grows(q, r, <<l>>) /\ Len(<<l>>) = 1 /\ <<l>>[1] = l
      BY <2>1, <2>2
    <3>2. PICK n \in Nat : n = Len(q)
      OBVIOUS
    <3>3. Len(r) = n + 1 /\ \A i \in 1..n : r[i] = q[i]
      BY <3>1, <3>2 DEF Grows
    <3>4. r[n + 1] = l
      <4>1. n + 1 \in 1..Len(r) /\ ~(n + 1 <= Len(q))
        BY <3>2, <3>3
      <4>2. PICK j \in 1..Len(<<l>>) : n + 1 = n + j /\ r[n + 1] = <<l>>[j]
        BY <4>1, <3>1, <3>2 DEF Grows
      <4>3. j = 1
        BY <4>2, <3>1
      <4>4. QED
        BY <4>2, <4>3, <3>1
    <3>5. /\ Append(q, l) \in Seq(LineType) /\ Len(Append(q, l)) = n + 1
          /\ \A i \in 1..(n + 1) : Append(q, l)[i] = IF i = n + 1 THEN l ELSE q[i]
      BY <3>2
    <3>6. \A i \in 1..(n + 1) : r[i] = Append(q, l)[i]
      <4>1. ASSUME NEW i \in 1..(n + 1)
            PROVE  r[i] = Append(q, l)[i]
        <5>1. CASE i = n + 1
          BY <5>1, <3>4, <3>5
        <5>2. CASE i \in 1..n
          BY <5>2, <3>2, <3>3, <3>5
        <5>3. QED
          BY <5>1, <5>2, <3>2
      <4>2. QED
        BY <4>1
    <3>7. QED
      BY <3>3, <3>5, <3>6, SeqEqual
  <2>4. HasAppended(f, g, D, d, l)
    BY <2>1, <2>2, <2>3, <1>1, <1>3 DEF HasAppended
  <2>5. QED
    BY <2>4, <1>2, <1>3, AppendedPlace
<1>4. CASE d \notin D
  <2>1. \A e \in D : g[e] = f[e]
    BY <1>1, <1>4
  <2>2. Places(g, D, x) = Places(f, D, x)
    BY <2>1, SamePlaces
  <2>3. QED
    BY <2>2, <1>2, <1>4, PlaceFacts
<1>5. QED
  BY <1>3, <1>4

\* What is taken from the front of the lines is not more; if the last line of it is x, it
\* is less.
LEMMA FrontDropped ==
    ASSUME NEW f, NEW g, NEW d \in Dut, NEW D \in SUBSET Dut, NEW x, DifferAt(f, g, d),
           NEW n \in Nat, Drops(f[d], g[d], n)
    PROVE  /\ Occurrences(f, D, x) \in Nat /\ Occurrences(g, D, x) \in Nat
           /\ Occurrences(g, D, x) <= Occurrences(f, D, x)
           /\ n \in 1..Len(f[d]) /\ f[d][n] = x /\ d \in D =>
                Occurrences(g, D, x) + 1 <= Occurrences(f, D, x)
<1>1. /\ f \in [Dut -> Seq(LineType)] /\ g \in [Dut -> Seq(LineType)]
      /\ \A e \in Dut : e # d => g[e] = f[e]
  BY DEF DifferAt
<1>2. /\ DOMAIN f[d] = 1..Len(f[d]) /\ DOMAIN g[d] = 1..Len(g[d]) /\ Len(g[d]) \in Nat /\ Len(f[d]) \in Nat
      /\ \A i \in 1..Len(g[d]) : i + n \in 1..Len(f[d]) /\ g[d][i] = f[d][i + n]
  BY <1>1 DEF Drops
<1>3. PICK P : P = Places(f, D, x)
  OBVIOUS
<1>4. PICK Q : Q = Places(g, D, x)
  OBVIOUS
<1>5. /\ IsFiniteSet(P) /\ IsFiniteSet(Q) /\ Occurrences(f, D, x) = Cardinality(P) /\ Occurrences(g, D, x) = Cardinality(Q)
      /\ Cardinality(P) \in Nat /\ Cardinality(Q) \in Nat
  BY <1>1, <1>3, <1>4, FinitePlaces, PlaceFacts
<1>6. PICK b : b = [z \in Q |-> <<z[1], IF z[1] = d THEN z[2] + n ELSE z[2]>>]
  OBVIOUS
<1>7. ASSUME NEW z \in Q
      PROVE  \E e \in D : \E i \in DOMAIN g[e] :
               /\ z = <<e, i>> /\ i \in Nat /\ i # 0 /\ b[z] = <<e, IF e = d THEN i + n ELSE i>>
               /\ b[z] \in P
  <2>1. PICK e \in D : \E i \in DOMAIN g[e] : g[e][i] = x /\ z = <<e, i>>
    BY <1>4, PlaceFacts
  <2>2. PICK i \in DOMAIN g[e] : g[e][i] = x /\ z = <<e, i>>
    BY <2>1
  <2>3. i \in Nat /\ i # 0
    BY <1>1
  <2>4. b[z] = <<e, IF e = d THEN i + n ELSE i>>
    BY <2>2, <1>6
  <2>5. CASE e = d
    <3>1. i + n \in DOMAIN f[e] /\ f[e][i + n] = x
      BY <2>2, <2>5, <1>2
    <3>2. <<e, i + n>> \in P
      BY <3>1, <1>3, PlaceFacts
    <3>3. QED
      BY <3>2, <2>2, <2>3, <2>4, <2>5
  <2>6. CASE e # d
    <3>1. i \in DOMAIN f[e] /\ f[e][i] = x
      BY <2>2, <2>6, <1>1
    <3>2. <<e, i>> \in P
      BY <3>1, <1>3, PlaceFacts
    <3>3. QED
      BY <3>2, <2>2, <2>3, <2>4, <2>6
  <2>7. QED
    BY <2>5, <2>6
<1>8. ASSUME NEW y \in Q, NEW z \in Q, b[y] = b[z]
      PROVE  y = z
  <2>1. PICK e \in D : \E i \in DOMAIN g[e] :
               y = <<e, i>> /\ i \in Nat /\ b[y] = <<e, IF e = d THEN i + n ELSE i>>
    BY <1>7
  <2>2. PICK i \in Nat : y = <<e, i>> /\ b[y] = <<e, IF e = d THEN i + n ELSE i>>
    BY <2>1
  <2>3. PICK a \in D : \E j \in DOMAIN g[a] :
               z = <<a, j>> /\ j \in Nat /\ b[z] = <<a, IF a = d THEN j + n ELSE j>>
    BY <1>7
  <2>4. PICK j \in Nat : z = <<a, j>> /\ b[z] = <<a, IF a = d THEN j + n ELSE j>>
    BY <2>3
  <2>5. PICK u : u = IF e = d THEN i + n ELSE i
    OBVIOUS
  <2>6. PICK w : w = IF a = d THEN j + n ELSE j
    OBVIOUS
  <2>7. <<e, u>> = <<a, w>>
    BY <2>2, <2>4, <2>5, <2>6, <1>8
  <2>8. e = a /\ u = w
    BY <2>7
  <2>9. i = j
    BY <2>2, <2>4, <2>5, <2>6, <2>8
  <2>10. QED
    BY <2>2, <2>4, <2>8, <2>9
<1>9. ASSUME NEW R \in SUBSET P, \A z \in Q : b[z] \in R
      PROVE  Cardinality(Q) <= Cardinality(R)
  <2>1. b \in [Q -> R]
    BY <1>6, <1>9
  <2>2. b \in Injection(Q, R)
    BY <2>1, <1>8 DEF Injection, IsInjective
  <2>3. IsFiniteSet(R)
    BY <1>5, FS_Subset
  <2>4. QED
    BY <2>2, <2>3, FS_Injection
<1>10. Cardinality(Q) <= Cardinality(P)
  <2>1. \A z \in Q : b[z] \in P
    BY <1>7
  <2>2. QED
    BY <2>1, <1>9
<1>11. ASSUME n \in 1..Len(f[d]), f[d][n] = x, d \in D
       PROVE  Cardinality(Q) + 1 <= Cardinality(P)
  <2>1. PICK t : t = <<d, n>>
    OBVIOUS
  <2>2. t \in P
    BY <2>1, <1>2, <1>3, <1>11, PlaceFacts
  <2>3. ASSUME NEW z \in Q
        PROVE  b[z] \in P \ {t}
    <3>1. PICK e \in D : \E i \in DOMAIN g[e] :
                 /\ z = <<e, i>> /\ i \in Nat /\ i # 0 /\ b[z] = <<e, IF e = d THEN i + n ELSE i>> /\ b[z] \in P
      BY <1>7
    <3>2. PICK i \in Nat : i # 0 /\ b[z] = <<e, IF e = d THEN i + n ELSE i>> /\ b[z] \in P
      BY <3>1
    <3>3. CASE e = d
      <4>1. b[z] = <<d, i + n>> /\ i + n # n
        BY <3>2, <3>3
      <4>2. <<d, i + n>> # <<d, n>>
        BY <4>1
      <4>3. QED
        BY <4>1, <4>2, <3>2, <2>1
    <3>4. CASE e # d
      <4>1. b[z] = <<e, i>> /\ <<e, i>> # <<d, n>>
        BY <3>2, <3>4
      <4>2. QED
        BY <4>1, <3>2, <2>1
    <3>5. QED
      BY <3>3, <3>4
  <2>4. Cardinality(Q) <= Cardinality(P \ {t})
    BY <2>3, <1>9
  <2>5. Cardinality(P \ {t}) = Cardinality(P) - 1
    BY <2>2, <1>5, FS_RemoveElement
  <2>6. QED
    BY <2>4, <2>5, <1>5
<1>12. QED
  BY <1>5, <1>10, <1>11

-----------------------------------------------------------------------------
(* The waits. *)

SyncInv ==
    /\ MultiTypes
    /\ \A d \in Dut : InLane(d)
    /\ \A d \in Dut, s \in Signals : Allowed(d, s) /\ Sent(d, s)
    /\ \A d \in Dut, k \in Case, s \in Signals : k # case => Earned(d, k, s)

\* The counts that the invariant compares are numbers.
LEMMA CountTypes ==
    ASSUME MultiTypes, NEW D \in SUBSET Dut, NEW x
    PROVE  /\ Occurrences(did, D, x) \in Nat /\ Occurrences(out, D, x) \in Nat
           /\ Occurrences(taken, D, x) \in Nat /\ Occurrences(handed, D, x) \in Nat
           /\ Occurrences(query, D, x) \in Nat
<1>1. /\ did \in [Dut -> Seq(LineType)] /\ out \in [Dut -> Seq(LineType)]
      /\ taken \in [Dut -> Seq(Value)] /\ handed \in [Dut -> Seq(Value)] /\ query \in [Dut -> Seq(Value)]
  BY DEF MultiTypes, DeviceTypes, QueueTypes
<1>2. Occurrences(did, D, x) \in Nat
  BY <1>1, FinitePlaces
<1>3. Occurrences(out, D, x) \in Nat
  BY <1>1, FinitePlaces
<1>4. Occurrences(taken, D, x) \in Nat
  BY <1>1, FinitePlaces
<1>5. Occurrences(handed, D, x) \in Nat
  BY <1>1, FinitePlaces
<1>6. Occurrences(query, D, x) \in Nat
  BY <1>1, FinitePlaces
<1>7. QED
  BY <1>2, <1>3, <1>4, <1>5, <1>6

\* Where nothing changes, nothing is counted differently.
LEMMA SameCount ==
    ASSUME NEW f, NEW g, NEW D, NEW x, \A e \in D : g[e] = f[e]
    PROVE  Occurrences(g, D, x) = Occurrences(f, D, x)
  BY SamePlaces, PlaceFacts

\* v is appended to the sequence of d.
Appended(f, g, d, v) == g = [f EXCEPT ![d] = Append(@, v)]

LEMMA CountAppended ==
    ASSUME NEW T, NEW f \in [Dut -> Seq(T)], NEW d \in Dut, NEW v, NEW g, Appended(f, g, d, v),
           NEW D \in SUBSET Dut, NEW x
    PROVE  Occurrences(g, D, x) = Occurrences(f, D, x) + (IF d \in D /\ v = x THEN 1 ELSE 0)
<1>1. IsFiniteSet(Places(f, D, x)) /\ Occurrences(f, D, x) \in Nat
  BY FinitePlaces
<1>2. (\A e \in D : e # d => g[e] = f[e]) /\ g[d] = Append(f[d], v)
  BY DEF Appended
<1>3. CASE d \in D
  <2>1. PICK q \in Seq(T) : q = f[d]
    OBVIOUS
  <2>2. g[d] = Append(q, v)
    BY <2>1, <1>2
  <2>3. HasAppended(f, g, D, d, v)
    BY <2>1, <2>2, <1>2, <1>3 DEF HasAppended
  <2>4. QED
    BY <2>3, <1>1, <1>3, AppendedPlace
<1>4. CASE d \notin D
  <2>1. \A e \in D : g[e] = f[e]
    BY <1>2, <1>4
  <2>2. Occurrences(g, D, x) = Occurrences(f, D, x)
    BY <2>1, SameCount
  <2>3. (IF d \in D /\ v = x THEN 1 ELSE 0) = 0
    BY <1>4
  <2>4. QED
    BY <2>2, <2>3, <1>1
<1>5. QED
  BY <1>3, <1>4

\* Lines of different kinds differ, and so do those of different signals.
LEMMA LinesDiffer ==
    ASSUME NEW t, NEW c, NEW v, NEW a, NEW b, NEW w
    PROVE  /\ Line(t, c, v).t = t /\ Line(t, c, v).c = c /\ Line(t, c, v).v = v
           /\ Line(t, c, v) = Line(a, b, w) <=> t = a /\ c = b /\ v = w
  BY DEF Line

LEMMA FreedTypes ==
    ASSUME NEW v, NEW p, NEW k, NEW s
    PROVE  /\ Freed(v, p, k, s) \in {0, 1}
           /\ v.st # "blocked" \/ p = <<>> => Freed(v, p, k, s) = 0
           /\ v.st = "blocked" /\ p # <<>> => Freed(v, p, v.case, Signal(v)) = 1
  BY DEF Freed

\* A step of a device, in numbers: it gets past a wait only when it is told so, and a signal
\* it prints is one that it has sent.
LEMMA StepCounts ==
    ASSUME MultiTypes, MultiTypes', NEW d \in Dut, Marked(d), NEW e \in Dut, NEW k, NEW s
    PROVE  /\ Occurrences(did', {e}, Line("passed", k, s)) + Freed(dev'[e], in'[e], k, s)
                <= Occurrences(did, {e}, Line("passed", k, s)) + Freed(dev[e], in[e], k, s)
           /\ Occurrences(did, Dut \ {e}, Line("send", k, s)) <= Occurrences(did', Dut \ {e}, Line("send", k, s))
           /\ Occurrences(out', Dut \ {e}, Line("send", k, s)) + Occurrences(did, Dut \ {e}, Line("send", k, s))
                <= Occurrences(out, Dut \ {e}, Line("send", k, s)) + Occurrences(did', Dut \ {e}, Line("send", k, s))
<1>1. PICK X : X = Line("passed", k, s)
  OBVIOUS
<1>2. PICK Y : Y = Line("send", k, s)
  OBVIOUS
<1>3. X.t = "passed" /\ Y.t = "send"
  BY <1>1, <1>2, LinesDiffer
<1>4. PICK E \in SUBSET Dut : E = {e}
  OBVIOUS
<1>5. PICK O \in SUBSET Dut : O = Dut \ {e}
  OBVIOUS
<1>6. DifferAt(did, did', d) /\ DifferAt(out, out', d)
  BY DEF DifferAt, Marked, OthersStay, MultiTypes, DeviceTypes
<1>7. /\ Occurrences(did, E, X) \in Nat /\ Occurrences(did, O, Y) \in Nat /\ Occurrences(out, O, Y) \in Nat
      /\ Freed(dev[e], in[e], k, s) \in {0, 1} /\ Freed(dev'[e], in'[e], k, s) \in {0, 1}
  BY CountTypes, FreedTypes
<1>8. Freed(dev'[e], in'[e], k, s) <= Freed(dev[e], in[e], k, s)
  <2>1. CASE e = d
    <3>1. Freed(dev'[e], in'[e], k, s) = 0
      BY <2>1, FreedTypes DEF Marked
    <3>2. QED
      BY <3>1, <1>7
  <2>2. CASE e # d
    <3>1. Freed(dev'[e], in'[e], k, s) = Freed(dev[e], in[e], k, s)
      BY <2>2 DEF Marked, OthersStay
    <3>2. QED
      BY <3>1, <1>7
  <2>3. QED
    BY <2>1, <2>2
<1>9. ASSUME NEW l \in LineType, l.t = "send", Grows(out[d], out'[d], <<l>>), Grows(did[d], did'[d], <<l>>)
      PROVE  /\ Occurrences(did', E, X) = Occurrences(did, E, X)
             /\ Occurrences(did', O, Y) = Occurrences(did, O, Y) + (IF d \in O /\ l = Y THEN 1 ELSE 0)
             /\ Occurrences(out', O, Y) = Occurrences(out, O, Y) + (IF d \in O /\ l = Y THEN 1 ELSE 0)
  <2>1. l # X
    BY <1>3, <1>9
  <2>2. Occurrences(did', E, X) = Occurrences(did, E, X) + (IF d \in E /\ l = X THEN 1 ELSE 0)
    BY <1>6, <1>9, LineAdded
  <2>3. Occurrences(did', O, Y) = Occurrences(did, O, Y) + (IF d \in O /\ l = Y THEN 1 ELSE 0)
    BY <1>6, <1>9, LineAdded
  <2>4. Occurrences(out', O, Y) = Occurrences(out, O, Y) + (IF d \in O /\ l = Y THEN 1 ELSE 0)
    BY <1>6, <1>9, LineAdded
  <2>5. QED
    BY <2>1, <2>2, <2>3, <2>4, <1>7
<1>10. ASSUME dev[d].st = "blocked", in[d] # <<>>, out'[d] = out[d],
              Grows(did[d], did'[d], <<Line("passed", dev[d].case, Signal(dev[d]))>>)
       PROVE  /\ Occurrences(did', E, X) + Freed(dev'[e], in'[e], k, s) <= Occurrences(did, E, X) + Freed(dev[e], in[e], k, s)
              /\ Occurrences(did', O, Y) = Occurrences(did, O, Y)
              /\ Occurrences(out', O, Y) = Occurrences(out, O, Y)
  <2>1. PICK l : l = Line("passed", dev[d].case, Signal(dev[d]))
    OBVIOUS
  <2>2. l \in LineType
    <3>1. dev[d].ip <= Len(Steps(d))
      BY <1>10 DEF MultiTypes, DeviceTypes, Steps
    <3>2. l = Line("passed", dev[d].case, Steps(d)[dev[d].ip].sig)
      BY <2>1 DEF Signal, Steps
    <3>3. QED
      BY <3>1, <3>2, <1>10, SignalLine
  <2>3. Grows(did[d], did'[d], <<l>>)
    BY <2>1, <1>10
  <2>4. Occurrences(did', E, X) = Occurrences(did, E, X) + (IF d \in E /\ l = X THEN 1 ELSE 0)
    BY <2>2, <2>3, <1>6, LineAdded
  <2>5. Occurrences(did', O, Y) = Occurrences(did, O, Y) + (IF d \in O /\ l = Y THEN 1 ELSE 0)
    BY <2>2, <2>3, <1>6, LineAdded
  <2>6. l # Y
    BY <2>1, <1>3, LinesDiffer
  <2>7. Occurrences(out', O, Y) = Occurrences(out, O, Y)
    <3>1. \A a \in O : out'[a] = out[a]
      BY <1>10 DEF Marked, OthersStay
    <3>2. QED
      BY <3>1, SameCount
  <2>8. CASE d \in E /\ l = X
    <3>1. e = d /\ k = dev[d].case /\ s = Signal(dev[d])
      BY <2>1, <2>8, <1>1, <1>4, LinesDiffer
    <3>2. Freed(dev[e], in[e], k, s) = 1 /\ Freed(dev'[e], in'[e], k, s) = 0
      BY <3>1, <1>10, FreedTypes DEF Marked
    <3>3. QED
      BY <3>2, <2>4, <2>5, <2>6, <2>7, <2>8, <1>7
  <2>9. CASE ~(d \in E /\ l = X)
    BY <2>4, <2>5, <2>6, <2>7, <2>9, <1>7, <1>8
  <2>10. QED
    BY <2>8, <2>9
<1>11. ASSUME NEW ls \in Seq(LineType), NEW es \in Seq(LineType),
              Grows(out[d], out'[d], ls), Grows(did[d], did'[d], es),
              \A i \in 1..Len(ls) : ls[i].t # "send", \A i \in 1..Len(es) : es[i].t \notin {"send", "passed"}
       PROVE  /\ Occurrences(did', E, X) = Occurrences(did, E, X)
              /\ Occurrences(did', O, Y) = Occurrences(did, O, Y)
              /\ Occurrences(out', O, Y) = Occurrences(out, O, Y)
  <2>1. \A i \in 1..Len(ls) : ls[i] # Y
    BY <1>3, <1>11
  <2>2. \A i \in 1..Len(es) : es[i] # X
    BY <1>3, <1>11
  <2>3. \A i \in 1..Len(es) : es[i] # Y
    BY <1>3, <1>11
  <2>4. Occurrences(did', E, X) = Occurrences(did, E, X)
    BY <2>2, <1>6, <1>11, OthersAdded
  <2>5. Occurrences(did', O, Y) = Occurrences(did, O, Y)
    BY <2>3, <1>6, <1>11, OthersAdded
  <2>6. Occurrences(out', O, Y) = Occurrences(out, O, Y)
    BY <2>1, <1>6, <1>11, OthersAdded
  <2>7. QED
    BY <2>4, <2>5, <2>6
<1>12. /\ Occurrences(did', E, X) + Freed(dev'[e], in'[e], k, s) <= Occurrences(did, E, X) + Freed(dev[e], in[e], k, s)
       /\ Occurrences(did, O, Y) <= Occurrences(did', O, Y)
       /\ Occurrences(out', O, Y) + Occurrences(did, O, Y) <= Occurrences(out, O, Y) + Occurrences(did', O, Y)
  <2>1. CASE \E l \in LineType : l.t = "send" /\ Grows(out[d], out'[d], <<l>>) /\ Grows(did[d], did'[d], <<l>>)
    BY <2>1, <1>7, <1>8, <1>9
  <2>2. CASE /\ dev[d].st = "blocked" /\ in[d] # <<>>
             /\ out'[d] = out[d]
             /\ Grows(did[d], did'[d], <<Line("passed", dev[d].case, Signal(dev[d]))>>)
    BY <2>2, <1>7, <1>10
  <2>3. CASE \E ls \in Seq(LineType), es \in Seq(LineType) :
               /\ Grows(out[d], out'[d], ls) /\ Grows(did[d], did'[d], es)
               /\ \A i \in 1..Len(ls) : ls[i].t # "send"
               /\ \A i \in 1..Len(es) : es[i].t \notin {"send", "passed"}
    BY <2>3, <1>7, <1>8, <1>11
  <2>4. QED
    BY <2>1, <2>2, <2>3 DEF Marked
<1>13. QED
  BY <1>1, <1>2, <1>4, <1>5, <1>12

\* What the step of device d adds up to for every device.
LEMMA StepKeepsCounts ==
    ASSUME MultiTypes, MultiTypes', NEW d \in Dut, Marked(d), UNCHANGED <<case, handed, taken>>,
           NEW e \in Dut, NEW k, NEW s
    PROVE  /\ Allowed(e, s) => Allowed(e, s)'
           /\ Sent(e, s) => Sent(e, s)'
           /\ Earned(e, k, s) => Earned(e, k, s)'
<1>1. PICK E \in SUBSET Dut : E = {e}
  OBVIOUS
<1>2. PICK O \in SUBSET Dut : O = Dut \ {e}
  OBVIOUS
<1>3. \A j, x : Freed(dev[e], in[e], j, x) \in Nat /\ Freed(dev'[e], in'[e], j, x) \in Nat
  BY FreedTypes
<1>4. \A x : /\ Occurrences(did, E, x) \in Nat /\ Occurrences(did, O, x) \in Nat /\ Occurrences(out, O, x) \in Nat
             /\ Occurrences(taken, E, x) \in Nat /\ Occurrences(handed, O, x) \in Nat
  BY CountTypes
<1>5. \A x : /\ Occurrences(did', E, x) \in Nat /\ Occurrences(did', O, x) \in Nat /\ Occurrences(out', O, x) \in Nat
  <2>1. did' \in [Dut -> Seq(LineType)] /\ out' \in [Dut -> Seq(LineType)]
    BY DEF MultiTypes, DeviceTypes
  <2>2. QED
    BY <2>1, FinitePlaces
<1>6. \A j : /\ Occurrences(did', E, Line("passed", j, s)) + Freed(dev'[e], in'[e], j, s)
                  <= Occurrences(did, E, Line("passed", j, s)) + Freed(dev[e], in[e], j, s)
             /\ Occurrences(did, O, Line("send", j, s)) <= Occurrences(did', O, Line("send", j, s))
             /\ Occurrences(out', O, Line("send", j, s)) + Occurrences(did, O, Line("send", j, s))
                  <= Occurrences(out, O, Line("send", j, s)) + Occurrences(did', O, Line("send", j, s))
  BY <1>1, <1>2, StepCounts
<1>7. ASSUME NEW j, NEW t \in Nat,
             Occurrences(did, E, Line("passed", j, s)) + Freed(dev[e], in[e], j, s) <= t
      PROVE  Occurrences(did', E, Line("passed", j, s)) + Freed(dev'[e], in'[e], j, s) <= t
  BY <1>3, <1>4, <1>5, <1>6, <1>7
<1>8. ASSUME NEW j, NEW t \in Nat,
             t + Occurrences(out, O, Line("send", j, s)) <= Occurrences(did, O, Line("send", j, s))
      PROVE  t + Occurrences(out', O, Line("send", j, s)) <= Occurrences(did', O, Line("send", j, s))
  BY <1>4, <1>5, <1>6, <1>8
<1>9. ASSUME NEW j, NEW t \in Nat, t <= Occurrences(did, O, Line("send", j, s))
      PROVE  t <= Occurrences(did', O, Line("send", j, s))
  BY <1>4, <1>5, <1>6, <1>9
<1>10. Allowed(e, s) => Allowed(e, s)'
  BY <1>1, <1>4, <1>7 DEF Allowed
<1>11. Sent(e, s) => Sent(e, s)'
  BY <1>2, <1>4, <1>8 DEF Sent
<1>12. Earned(e, k, s) => Earned(e, k, s)'
  <2>1. SUFFICES ASSUME Earned(e, k, s)
                 PROVE  Earned(e, k, s)'
    OBVIOUS
  <2>2. Occurrences(did, E, Line("passed", k, s)) + Freed(dev[e], in[e], k, s) <= Occurrences(did, O, Line("send", k, s))
    BY <2>1, <1>1, <1>2 DEF Earned
  <2>3. Occurrences(did', E, Line("passed", k, s)) + Freed(dev'[e], in'[e], k, s) <= Occurrences(did, O, Line("send", k, s))
    BY <2>2, <1>4, <1>7
  <2>4. Occurrences(did', E, Line("passed", k, s)) + Freed(dev'[e], in'[e], k, s) \in Nat
    BY <1>3, <1>5
  <2>5. Occurrences(did', E, Line("passed", k, s)) + Freed(dev'[e], in'[e], k, s) <= Occurrences(did', O, Line("send", k, s))
    BY <2>3, <2>4, <1>9
  <2>6. QED
    BY <2>5, <1>1, <1>2 DEF Earned
<1>13. QED
  BY <1>10, <1>11, <1>12

\* A turn of the worker of d tells a device to go on only in the case it is at, with the
\* signal that it takes.
LEMMA FreedByTurn ==
    ASSUME NEW d \in Dut, Turned(d), NEW e \in Dut, NEW k, NEW s
    PROVE  \/ Freed(dev'[e], in'[e], k, s) <= Freed(dev[e], in[e], k, s)
           \/ /\ e = d /\ k = case /\ s = waitSig[d]
              /\ taken' = [taken EXCEPT ![d] = Append(@, waitSig[d])]
<1>1. Freed(dev[e], in[e], k, s) \in {0, 1} /\ Freed(dev'[e], in'[e], k, s) \in {0, 1}
  BY FreedTypes
<1>2. dev' = dev
  BY DEF Turned
<1>3. CASE in'[e] = in[e]
  <2>1. Freed(dev'[e], in'[e], k, s) = Freed(dev[e], in[e], k, s)
    BY <1>2, <1>3
  <2>2. QED
    BY <2>1, <1>1
<1>4. CASE dev[e].st # "blocked"
  <2>1. Freed(dev'[e], in'[e], k, s) = 0
    BY <1>2, <1>4, FreedTypes
  <2>2. QED
    BY <2>1, <1>1
<1>5. CASE /\ e = d /\ taken' = [taken EXCEPT ![d] = Append(@, waitSig[d])]
           /\ dev[d].case = case /\ waitSig[d] = Signal(dev[d])
  <2>1. CASE k = case /\ s = waitSig[d]
    BY <2>1, <1>5
  <2>2. CASE ~(k = case /\ s = waitSig[d])
    <3>1. Freed(dev'[e], in'[e], k, s) = 0
      BY <2>2, <1>2, <1>5 DEF Freed
    <3>2. QED
      BY <3>1, <1>1
  <2>3. QED
    BY <2>1, <2>2
<1>6. in'[e] = in[e] \/ e = d
  BY DEF Turned
<1>7. QED
  BY <1>3, <1>4, <1>5, <1>6 DEF Turned

LEMMA TurnAllows ==
    ASSUME MultiTypes, MultiTypes', NEW d \in Dut, Turned(d), NEW e \in Dut, NEW s, Allowed(e, s)
    PROVE  Allowed(e, s)'
<1>1. PICK E \in SUBSET Dut : E = {e}
  OBVIOUS
<1>2. PICK p \in Nat : p = Occurrences(did, E, Line("passed", case, s))
  BY CountTypes
<1>3. PICK x \in Nat : x = Freed(dev[e], in[e], case, s)
  BY FreedTypes
<1>4. PICK y \in {0, 1} : y = Freed(dev'[e], in'[e], case, s)
  BY FreedTypes
<1>5. PICK t \in Nat : t = Occurrences(taken, E, s)
  BY CountTypes
<1>6. p + x <= t
  BY <1>1, <1>2, <1>3, <1>5 DEF Allowed
<1>7. taken \in [Dut -> Seq(Value)]
  BY DEF MultiTypes, QueueTypes
<1>8. CASE taken' = [taken EXCEPT ![d] = Append(@, waitSig[d])]
  <2>1. PICK w : w = waitSig[d]
    OBVIOUS
  <2>2. PICK g : g = taken'
    OBVIOUS
  <2>3. Appended(taken, g, d, w)
    BY <1>8, <2>1, <2>2 DEF Appended
  <2>4. Occurrences(g, E, s) = Occurrences(taken, E, s) + (IF d \in E /\ w = s THEN 1 ELSE 0)
    BY <2>3, <1>7, CountAppended
  <2>5. y <= x \/ (e = d /\ s = w)
    BY <1>3, <1>4, <2>1, FreedByTurn
  <2>6. p + y <= Occurrences(g, E, s)
    BY <2>4, <2>5, <1>1, <1>5, <1>6
  <2>7. QED
    BY <2>2, <2>6, <1>1, <1>2, <1>4 DEF Allowed, Turned
<1>9. CASE taken' # [taken EXCEPT ![d] = Append(@, waitSig[d])]
  <2>1. taken' = taken
    BY <1>9 DEF Turned
  <2>2. y <= x
    BY <1>3, <1>4, <1>9, FreedByTurn
  <2>3. p + y <= t
    BY <2>2, <1>6
  <2>4. QED
    BY <2>1, <2>3, <1>1, <1>2, <1>4, <1>5 DEF Allowed, Turned
<1>10. QED
  BY <1>8, <1>9

LEMMA TurnSends ==
    ASSUME MultiTypes, MultiTypes', NEW d \in Dut, Turned(d), NEW e \in Dut, NEW s, Sent(e, s)
    PROVE  Sent(e, s)'
<1>1. PICK O \in SUBSET Dut : O = Dut \ {e}
  OBVIOUS
<1>2. PICK Y : Y = Line("send", case, s)
  OBVIOUS
<1>3. PICK h \in Nat : h = Occurrences(handed, O, s)
  BY CountTypes
<1>4. PICK m \in Nat : m = Occurrences(did, O, Y)
  BY CountTypes
<1>5. PICK o \in Nat : o = Occurrences(out, O, Y)
  BY CountTypes
<1>6. h + o <= m
  BY <1>1, <1>2, <1>3, <1>4, <1>5 DEF Sent
<1>7. DifferAt(out, out', d)
  BY DEF DifferAt, Turned, MultiTypes, DeviceTypes
<1>8. handed \in [Dut -> Seq(Value)]
  BY DEF MultiTypes, QueueTypes
<1>9. UNCHANGED <<case, did>>
  BY DEF Turned
<1>10. PICK g : g = handed'
  OBVIOUS
<1>11. PICK f : f = out'
  OBVIOUS
<1>12. ASSUME NEW n \in 1..Len(out[d]), Drops(out[d], out'[d], n), out[d][n] = Line("send", case, out[d][n].v),
              handed' = [handed EXCEPT ![d] = Append(@, out[d][n].v)]
       PROVE  Occurrences(g, O, s) + Occurrences(f, O, Y) <= m
  <2>1. PICK v : v = out[d][n].v
    OBVIOUS
  <2>2. Appended(handed, g, d, v)
    BY <2>1, <1>10, <1>12 DEF Appended
  <2>3. Occurrences(g, O, s) = Occurrences(handed, O, s) + (IF d \in O /\ v = s THEN 1 ELSE 0)
    BY <2>2, <1>8, CountAppended
  <2>4. n \in Nat /\ DifferAt(out, f, d) /\ Drops(out[d], f[d], n)
    BY <1>7, <1>11, <1>12
  <2>5. /\ Occurrences(f, O, Y) \in Nat
        /\ Occurrences(f, O, Y) <= Occurrences(out, O, Y)
        /\ n \in 1..Len(out[d]) /\ out[d][n] = Y /\ d \in O => Occurrences(f, O, Y) + 1 <= Occurrences(out, O, Y)
    BY <2>4, FrontDropped
  <2>6. v = s => out[d][n] = Y
    BY <2>1, <1>2, <1>12
  <2>7. QED
    BY <2>3, <2>5, <2>6, <1>3, <1>5, <1>6, <1>12
<1>13. ASSUME handed' = handed, NEW n \in Nat, Drops(out[d], out'[d], n)
       PROVE  Occurrences(g, O, s) + Occurrences(f, O, Y) <= m
  <2>1. DifferAt(out, f, d) /\ Drops(out[d], f[d], n)
    BY <1>7, <1>11, <1>13
  <2>2. Occurrences(f, O, Y) \in Nat /\ Occurrences(f, O, Y) <= Occurrences(out, O, Y)
    BY <2>1, FrontDropped
  <2>3. Occurrences(g, O, s) = h
    BY <1>3, <1>10, <1>13
  <2>4. QED
    BY <2>2, <2>3, <1>5, <1>6
<1>14. ASSUME handed' = handed, out' = out
       PROVE  Occurrences(g, O, s) + Occurrences(f, O, Y) <= m
  BY <1>3, <1>5, <1>6, <1>10, <1>11, <1>14
<1>15. Occurrences(g, O, s) + Occurrences(f, O, Y) <= m
  BY <1>12, <1>13, <1>14 DEF Turned
<1>16. QED
  BY <1>1, <1>2, <1>4, <1>9, <1>10, <1>11, <1>15 DEF Sent

LEMMA TurnEarns ==
    ASSUME MultiTypes, NEW d \in Dut, Turned(d), NEW e \in Dut, NEW k, k # case, NEW s, Earned(e, k, s)
    PROVE  Earned(e, k, s)'
<1>1. PICK E \in SUBSET Dut : E = {e}
  OBVIOUS
<1>2. PICK O \in SUBSET Dut : O = Dut \ {e}
  OBVIOUS
<1>3. PICK p \in Nat : p = Occurrences(did, E, Line("passed", k, s))
  BY CountTypes
<1>4. PICK m \in Nat : m = Occurrences(did, O, Line("send", k, s))
  BY CountTypes
<1>5. PICK x \in Nat : x = Freed(dev[e], in[e], k, s)
  BY FreedTypes
<1>6. PICK y \in Nat : y = Freed(dev'[e], in'[e], k, s)
  BY FreedTypes
<1>7. p + x <= m
  BY <1>1, <1>2, <1>3, <1>4, <1>5 DEF Earned
<1>8. y <= x
  BY <1>5, <1>6, FreedByTurn
<1>9. p + y <= m
  BY <1>7, <1>8
<1>10. did' = did
  BY DEF Turned
<1>11. QED
  BY <1>1, <1>2, <1>3, <1>4, <1>6, <1>9, <1>10 DEF Earned

LEMMA WorkerKeepsSync ==
    ASSUME ~Slow, SyncInv, NEW d \in Dut, Worker(d)
    PROVE  SyncInv'
<1>1. MultiTypes /\ InLane(d)
  BY DEF SyncInv
<1>2. MultiTypes'
  BY <1>1, WorkerKeepsTypes
<1>3. InLane(d)' /\ Turned(d)
  BY <1>1, WorkerInLane
<1>4. case' = case
  BY <1>3 DEF Turned
<1>5. ASSUME NEW e \in Dut
      PROVE  InLane(e)'
  <2>1. InLane(e)
    BY DEF SyncInv
  <2>2. CASE e # d
    BY <2>1, <2>2, <1>3 DEF Turned, InLane
  <2>3. QED
    BY <2>2, <1>3
<1>6. ASSUME NEW e \in Dut, NEW s \in Signals
      PROVE  Allowed(e, s)' /\ Sent(e, s)'
  <2>1. Allowed(e, s) /\ Sent(e, s)
    BY DEF SyncInv
  <2>2. Allowed(e, s)'
    BY <2>1, <1>1, <1>2, <1>3, TurnAllows
  <2>3. Sent(e, s)'
    BY <2>1, <1>1, <1>2, <1>3, TurnSends
  <2>4. QED
    BY <2>2, <2>3
<1>7. ASSUME NEW e \in Dut, NEW k \in Case, NEW s \in Signals, k # case'
      PROVE  Earned(e, k, s)'
  <2>1. k # case
    BY <1>4, <1>7
  <2>2. Earned(e, k, s)
    BY <2>1 DEF SyncInv
  <2>3. QED
    BY <2>1, <2>2, <1>1, <1>3, TurnEarns
<1>8. QED
  BY <1>2, <1>5, <1>6, <1>7 DEF SyncInv

LEMMA FirmwareKeepsSync ==
    ASSUME SyncInv, NEW d \in Dut, Firmware(d) \/ Hang(d)
    PROVE  SyncInv'
<1>1. MultiTypes /\ InLane(d)
  BY DEF SyncInv
<1>2. ReadsItsOwn(d)
  <2>1. dev[d].st = "sub" => in[d] \in {<<>>, <<d>>}
    BY <1>1 DEF InLane, Lane, InputFits
  <2>2. QED
    BY <2>1 DEF ReadsItsOwn
<1>3. MultiTypes'
  <2>1. DeviceEffect(d)
    BY <1>1, <1>2, DeviceHasEffect
  <2>2. QED
    BY <2>1, <1>1, StepKeepsTypes DEF DeviceEffect
<1>4. InLane(d)' /\ Marked(d)
  BY <1>1, FirmwareInLane
<1>5. UNCHANGED <<case, handed, taken, wpc, waitSig>>
  BY DEF Firmware, Hang, Device, Boot, ReadIndex, ReadSubCase, SendSignal, WaitForSignal, Released, Conclude, Summary,
         workerVars
<1>6. ASSUME NEW e \in Dut
      PROVE  InLane(e)'
  <2>1. InLane(e)
    BY DEF SyncInv
  <2>2. CASE e # d
    BY <2>1, <2>2, <1>4, <1>5 DEF Marked, OthersStay, InLane
  <2>3. QED
    BY <2>2, <1>4
<1>7. ASSUME NEW e \in Dut, NEW s \in Signals
      PROVE  Allowed(e, s)' /\ Sent(e, s)'
  <2>1. Allowed(e, s) /\ Sent(e, s)
    BY DEF SyncInv
  <2>2. QED
    BY <2>1, <1>1, <1>3, <1>4, <1>5, StepKeepsCounts
<1>8. ASSUME NEW e \in Dut, NEW k \in Case, NEW s \in Signals, k # case'
      PROVE  Earned(e, k, s)'
  <2>1. Earned(e, k, s)
    BY <1>5, <1>8 DEF SyncInv
  <2>2. QED
    BY <2>1, <1>1, <1>3, <1>4, <1>5, StepKeepsCounts
<1>9. QED
  BY <1>3, <1>6, <1>7, <1>8 DEF SyncInv

\* Where no device, no line and no signal changes, what is counted stays, and a worker may end.
LEMMA RestKeepsSync ==
    ASSUME SyncInv, MultiTypes', UNCHANGED <<case, dev, in, out, did, waitSig, handed, taken>>,
           wpc' = wpc \/ wpc' = Each("done")
    PROVE  SyncInv'
<1>1. ASSUME NEW d \in Dut
      PROVE  InLane(d)'
  <2>1. MultiTypes /\ InLane(d)
    BY DEF SyncInv
  <2>2. CASE wpc' = wpc
    BY <2>1, <2>2 DEF InLane
  <2>3. CASE wpc' = Each("done")
    <3>1. wpc'[d] \in {"run", "done", "raised"} /\ (wpc'[d] = "run" => wpc[d] = "run")
      BY <2>3 DEF Each
    <3>2. out[d] \in Seq(LineType) /\ out'[d] = out[d] /\ in'[d] = in[d]
      BY <2>1, LaneTypes
    <3>3. Drops(out[d], out'[d], 0)
      BY <3>2, NothingDropped
    <3>4. QED
      BY <2>1, <3>1, <3>2, <3>3, EndInLane
  <2>4. QED
    BY <2>2, <2>3
<1>2. \A d \in Dut, s \in Signals : Allowed(d, s)' /\ Sent(d, s)'
  BY DEF SyncInv, Allowed, Sent
<1>3. \A d \in Dut, k \in Case, s \in Signals : k # case' => Earned(d, k, s)'
  BY DEF SyncInv, Earned
<1>4. QED
  BY <1>1, <1>2, <1>3 DEF SyncInv

\* In the present case, too, a device gets past no more waits than the others have sent:
\* what it was released by was handed on, and that was sent.
LEMMA WaitsAreEarned ==
    ASSUME SyncInv, SignalInv, NEW d \in Dut, NEW k \in Case, NEW s \in Signals
    PROVE  Earned(d, k, s)
<1>1. CASE k # case
  BY <1>1 DEF SyncInv
<1>2. CASE k = case
  <2>1. MultiTypes /\ Allowed(d, s) /\ Sent(d, s) /\ Balanced(d, s)
    BY DEF SyncInv, SignalInv
  <2>2. PICK E \in SUBSET Dut : E = {d}
    OBVIOUS
  <2>3. PICK O \in SUBSET Dut : O = Dut \ {d}
    OBVIOUS
  <2>4. PICK p \in Nat : p = Occurrences(did, E, Line("passed", case, s))
    BY <2>1, CountTypes
  <2>5. PICK m \in Nat : m = Occurrences(did, O, Line("send", case, s))
    BY <2>1, CountTypes
  <2>6. PICK x \in Nat : x = Freed(dev[d], in[d], case, s)
    BY FreedTypes
  <2>7. Occurrences(taken, E, s) \in Nat /\ Occurrences(query, E, s) \in Nat
    BY <2>1, CountTypes
  <2>8. Occurrences(handed, O, s) \in Nat /\ Occurrences(out, O, Line("send", case, s)) \in Nat
    BY <2>1, CountTypes
  <2>9. p + x <= Occurrences(taken, E, s)
    BY <2>1, <2>2, <2>4, <2>6 DEF Allowed
  <2>10. Occurrences(taken, E, s) + Occurrences(query, E, s) = Occurrences(handed, O, s)
    BY <2>1, <2>2, <2>3 DEF Balanced
  <2>11. Occurrences(handed, O, s) + Occurrences(out, O, Line("send", case, s)) <= m
    BY <2>1, <2>3, <2>5 DEF Sent
  <2>12. p + x <= m
    BY <2>7, <2>8, <2>9, <2>10, <2>11
  <2>13. QED
    BY <2>12, <2>2, <2>3, <2>4, <2>5, <2>6, <1>2 DEF Earned
<1>3. QED
  BY <1>1, <1>2

LEMMA NoneOf ==
    ASSUME NEW f, NEW D, NEW x, \A e \in D : \A i \in DOMAIN f[e] : f[e][i] # x
    PROVE  Occurrences(f, D, x) = 0
<1>1. Places(f, D, x) = {}
  <2>1. \A p : p \notin Places(f, D, x)
    BY PlaceFacts
  <2>2. QED
    BY <2>1
<1>2. QED
  BY <1>1, FS_EmptySet, PlaceFacts

LEMMA NextCaseKeepsSync ==
    ASSUME SyncInv, SignalInv, NextCase
    PROVE  SyncInv'
<1>1. MultiTypes /\ \A d \in Dut : InLane(d)
  BY DEF SyncInv
<1>2. MultiTypes'
  BY <1>1, CaseKeepsTypes
<1>3. /\ case' = case + 1 /\ wpc' = Each("ready")
      /\ handed' = Each(<<>>) /\ taken' = Each(<<>>)
      /\ UNCHANGED <<out, did>>
  BY DEF NextCase, FreshWorkers
<1>4. case \in Nat /\ Reset \in BOOLEAN
  BY <1>1, FlagAssumption DEF MultiTypes, TesterTypes, Case
<1>5. ASSUME NEW d \in Dut
      PROVE  \/ Reset /\ dev'[d] = Booting /\ in'[d] = <<>>
             \/ ~Reset /\ dev'[d] = dev[d] /\ in'[d] = in[d]
  <2>1. CASE Reset
    BY <2>1 DEF NextCase, Each
  <2>2. CASE ~Reset
    BY <2>2 DEF NextCase
  <2>3. QED
    BY <2>1, <2>2
<1>6. ASSUME NEW d \in Dut
      PROVE  InLane(d)'
  <2>1. /\ dev[d] \in DeviceType /\ out[d] \in Seq(LineType) /\ did[d] \in Seq(LineType)
        /\ Lane(case, d, dev[d], in[d], out[d], did[d], wpc[d], waitSig[d])
    BY <1>1, LaneTypes
  <2>2. PICK x : x = dev'[d]
    OBVIOUS
  <2>3. PICK z : z = in'[d]
    OBVIOUS
  <2>4. PICK y : y = waitSig'[d]
    OBVIOUS
  <2>5. (Reset /\ x = Booting /\ z = <<>>) \/ (~Reset /\ x = dev[d] /\ z = in[d])
    BY <2>2, <2>3, <1>5
  <2>6. Lane(case + 1, d, x, z, out[d], did[d], "ready", y)
    BY <2>1, <2>5, <1>4, NextInLane
  <2>7. wpc'[d] = "ready"
    BY <1>3 DEF Each
  <2>8. QED
    BY <2>2, <2>3, <2>4, <2>6, <2>7, <1>3 DEF InLane
<1>7. ASSUME NEW e \in Dut
      PROVE  /\ \A i \in DOMAIN did[e] : did[e][i].c # case + 1
             /\ \A i \in DOMAIN out[e] : out[e][i].c # case + 1
             /\ dev[e].case # case + 1
  <2>1. /\ out[e] \in Seq(LineType) /\ did[e] \in Seq(LineType) /\ dev[e].case \in Nat /\ dev[e].case <= case
        /\ OutputFits(case, dev[e], out[e], did[e])
    BY <1>1, LaneTypes
  <2>2. dev[e].case # case + 1
    BY <2>1, <1>4
  <2>3. \A n \in Nat : n <= case => n # case + 1
    BY <1>4
  <2>4. ASSUME NEW i \in 1..Len(did[e])
        PROVE  did[e][i].c # case + 1
    <3>1. did[e][i] \in LineType
      BY <2>1
    <3>2. did[e][i].c \in Nat
      BY <3>1 DEF LineType
    <3>3. did[e][i].c <= case
      BY <2>1 DEF OutputFits
    <3>4. QED
      BY <3>2, <3>3, <2>3
  <2>5. ASSUME NEW i \in 1..Len(out[e])
        PROVE  out[e][i].c # case + 1
    <3>1. out[e][i] \in LineType
      BY <2>1
    <3>2. out[e][i].c \in Nat
      BY <3>1 DEF LineType
    <3>3. out[e][i].c <= case
      BY <2>1 DEF OutputFits
    <3>4. QED
      BY <3>2, <3>3, <2>3
  <2>6. DOMAIN did[e] = 1..Len(did[e]) /\ DOMAIN out[e] = 1..Len(out[e])
    BY <2>1
  <2>7. QED
    BY <2>2, <2>4, <2>5, <2>6
<1>8. ASSUME NEW d \in Dut, NEW s \in Signals
      PROVE  Allowed(d, s)' /\ Sent(d, s)'
  <2>1. PICK X : X = Line("passed", case + 1, s)
    OBVIOUS
  <2>2. PICK Y : Y = Line("send", case + 1, s)
    OBVIOUS
  <2>3. X.c = case + 1 /\ Y.c = case + 1
    BY <2>1, <2>2, LinesDiffer
  <2>4. PICK E \in SUBSET Dut : E = {d}
    OBVIOUS
  <2>5. PICK O \in SUBSET Dut : O = Dut \ {d}
    OBVIOUS
  <2>6. \A e \in E : \A i \in DOMAIN did[e] : did[e][i] # X
    BY <2>3, <1>7
  <2>7. Occurrences(did, E, X) = 0
    BY <2>6, NoneOf
  <2>8. \A e \in O : \A i \in DOMAIN out[e] : out[e][i] # Y
    BY <2>3, <1>7
  <2>9. Occurrences(out, O, Y) = 0
    BY <2>8, NoneOf
  <2>10. PICK t : t = Each(<<>>)
    OBVIOUS
  <2>11. \A e \in Dut : t[e] = <<>>
    BY <2>10 DEF Each
  <2>12. \A D \in SUBSET Dut : \A e \in D : t[e] = <<>>
    BY <2>11
  <2>13. \A D \in SUBSET Dut : Occurrences(t, D, s) = 0
    BY <2>12, NoPlaces
  <2>14. dev'[d].case # case + 1
    <3>1. Booting.case # case + 1
      BY <1>4 DEF Booting
    <3>2. QED
      BY <3>1, <1>5, <1>7
  <2>15. Freed(dev'[d], in'[d], case + 1, s) = 0
    BY <2>14 DEF Freed
  <2>16. Occurrences(did, E, X) + Freed(dev'[d], in'[d], case + 1, s) <= Occurrences(t, E, s)
    BY <2>7, <2>13, <2>15
  <2>17. Allowed(d, s)'
    BY <2>1, <2>4, <2>10, <2>16, <1>3 DEF Allowed
  <2>18. Occurrences(did, O, Y) \in Nat
    BY <1>1, CountTypes
  <2>19. Occurrences(t, O, s) + Occurrences(out, O, Y) <= Occurrences(did, O, Y)
    BY <2>9, <2>13, <2>18
  <2>20. Sent(d, s)'
    BY <2>2, <2>5, <2>10, <2>19, <1>3 DEF Sent
  <2>21. QED
    BY <2>17, <2>20
<1>9. ASSUME NEW d \in Dut, NEW k \in Case, NEW s \in Signals, k # case'
      PROVE  Earned(d, k, s)'
  <2>1. Earned(d, k, s)
    BY WaitsAreEarned
  <2>2. PICK E \in SUBSET Dut : E = {d}
    OBVIOUS
  <2>3. PICK O \in SUBSET Dut : O = Dut \ {d}
    OBVIOUS
  <2>4. PICK p \in Nat : p = Occurrences(did, E, Line("passed", k, s))
    BY <1>1, CountTypes
  <2>5. PICK m \in Nat : m = Occurrences(did, O, Line("send", k, s))
    BY <1>1, CountTypes
  <2>6. PICK x \in Nat : x = Freed(dev[d], in[d], k, s)
    BY FreedTypes
  <2>7. PICK y \in Nat : y = Freed(dev'[d], in'[d], k, s)
    BY FreedTypes
  <2>8. p + x <= m
    BY <2>1, <2>2, <2>3, <2>4, <2>5, <2>6 DEF Earned
  <2>9. y <= x
    <3>1. CASE in'[d] = <<>>
      <4>1. y = 0
        BY <3>1, <2>7, FreedTypes
      <4>2. QED
        BY <4>1
    <3>2. CASE dev'[d] = dev[d] /\ in'[d] = in[d]
      BY <3>2, <2>6, <2>7
    <3>3. QED
      BY <3>1, <3>2, <1>5
  <2>10. p + y <= m
    BY <2>8, <2>9
  <2>11. QED
    BY <2>2, <2>3, <2>4, <2>5, <2>7, <2>10, <1>3 DEF Earned
<1>10. QED
  BY <1>2, <1>6, <1>8, <1>9 DEF SyncInv

LEMMA InitHasSync ==
    ASSUME Init
    PROVE  SyncInv
<1>1. /\ case = 1 /\ wpc = Each("ready") /\ dev = Each(Booting) /\ in = Each(<<>>) /\ out = Each(<<>>)
      /\ did = Each(<<>>) /\ handed = Each(<<>>) /\ taken = Each(<<>>)
  BY DEF Init
<1>2. MultiTypes
  BY InitHasTypes
<1>3. PICK none : none = Each(<<>>)
  OBVIOUS
<1>4. \A e \in Dut : none[e] = <<>>
  BY <1>3 DEF Each
<1>5. \A D \in SUBSET Dut : \A e \in D : none[e] = <<>>
  BY <1>4
<1>6. \A D \in SUBSET Dut : \A x : Occurrences(none, D, x) = 0
  BY <1>5, NoPlaces
<1>7. ASSUME NEW d \in Dut
      PROVE  /\ InLane(d)
             /\ \A k, s : Freed(dev[d], in[d], k, s) = 0
  <2>1. dev[d] = Booting /\ in[d] = <<>> /\ out[d] = <<>> /\ did[d] = <<>> /\ wpc[d] = "ready"
    BY <1>1 DEF Each
  <2>2. PICK y : y = waitSig[d]
    OBVIOUS
  <2>3. Lane(1, d, Booting, <<>>, <<>>, <<>>, "ready", y)
    BY FirstInLane
  <2>4. InLane(d)
    BY <2>1, <2>2, <2>3, <1>1 DEF InLane
  <2>5. \A k, s : Freed(dev[d], in[d], k, s) = 0
    BY <2>1, FreedTypes
  <2>6. QED
    BY <2>4, <2>5
<1>8. ASSUME NEW d \in Dut, NEW k, NEW s
      PROVE  Allowed(d, s) /\ Sent(d, s) /\ Earned(d, k, s)
  <2>1. PICK E \in SUBSET Dut : E = {d}
    OBVIOUS
  <2>2. PICK O \in SUBSET Dut : O = Dut \ {d}
    OBVIOUS
  <2>3. \A j : Occurrences(did, E, Line("passed", j, s)) = 0 /\ Occurrences(did, O, Line("send", j, s)) = 0
    BY <1>1, <1>3, <1>6
  <2>4. \A j : Occurrences(out, O, Line("send", j, s)) = 0
    BY <1>1, <1>3, <1>6
  <2>5. Occurrences(taken, E, s) = 0 /\ Occurrences(handed, O, s) = 0
    BY <1>1, <1>3, <1>6
  <2>6. Allowed(d, s)
    BY <2>1, <2>3, <2>5, <1>7 DEF Allowed
  <2>7. Sent(d, s)
    BY <2>2, <2>3, <2>4, <2>5 DEF Sent
  <2>8. Earned(d, k, s)
    BY <2>1, <2>2, <2>3, <1>7 DEF Earned
  <2>9. QED
    BY <2>6, <2>7, <2>8
<1>9. QED
  BY <1>2, <1>7, <1>8 DEF SyncInv

LEMMA NextKeepsSync ==
    ASSUME ~Slow, SyncInv, SignalInv, [Next]_vars
    PROVE  SyncInv'
<1>0. MultiTypes
  BY DEF SyncInv
<1>1. CASE \E d \in Dut : Worker(d)
  BY <1>1, WorkerKeepsSync
<1>2. CASE \E d \in Dut : Firmware(d) \/ Hang(d)
  BY <1>2, FirmwareKeepsSync
<1>3. CASE NextCase
  BY <1>3, NextCaseKeepsSync
<1>4. CASE GatherRaises
  <2>1. /\ at' = "raised" /\ report' = report /\ wpc' = wpc
        /\ UNCHANGED <<case, dev, in, out, did, data, waitSig, query, handed, taken>>
    BY <1>4 DEF GatherRaises, workerVars, deviceVars
  <2>2. MultiTypes'
    BY <1>0, <2>1 DEF MultiTypes, TesterTypes, QueueTypes, DeviceTypes
  <2>3. QED
    BY <2>1, <2>2, RestKeepsSync
<1>5. CASE GatherReturns
  <2>1. /\ at' = "between" /\ report' = [report EXCEPT ![case] = Merged(data)] /\ wpc' = wpc
        /\ UNCHANGED <<case, dev, in, out, did, data, waitSig, query, handed, taken>>
    BY <1>5 DEF GatherReturns, workerVars, deviceVars
  <2>2. PICK m \in Outcomes : m = Merged(data)
    BY MergedFacts
  <2>3. MultiTypes'
    BY <1>0, <2>1, <2>2 DEF MultiTypes, TesterTypes, QueueTypes, DeviceTypes
  <2>4. QED
    BY <2>1, <2>3, RestKeepsSync
<1>6. CASE NextRound
  <2>1. UNCHANGED <<at, case, report, dev, in, out, did, waitSig, query, handed, taken>>
    BY <1>6 DEF NextRound, deviceVars
  <2>2. \/ UNCHANGED <<wpc, data>>
        \/ /\ wpc' = Each("done")
           /\ data' = [d \in Dut |-> IF wpc[d] = "done" THEN data[d] ELSE "FAIL"]
    BY <1>6 DEF NextRound
  <2>3. MultiTypes'
    <3>1. CASE UNCHANGED <<wpc, data>>
      BY <3>1, <1>0, <2>1 DEF MultiTypes, TesterTypes, QueueTypes, DeviceTypes
    <3>2. CASE wpc' = Each("done") /\ data' = [d \in Dut |-> IF wpc[d] = "done" THEN data[d] ELSE "FAIL"]
      BY <3>2, <1>0, <2>1 DEF MultiTypes, TesterTypes, QueueTypes, DeviceTypes, Each
    <3>3. QED
      BY <2>2, <3>1, <3>2
  <2>4. QED
    BY <2>1, <2>2, <2>3, RestKeepsSync
<1>7. CASE UNCHANGED vars
  <2>1. UNCHANGED <<at, case, dev, in, out, did, wpc, data, waitSig, query, report, handed, taken>>
    BY <1>7 DEF vars, workerVars, deviceVars
  <2>2. MultiTypes'
    BY <1>0, <2>1 DEF MultiTypes, TesterTypes, QueueTypes, DeviceTypes
  <2>3. QED
    BY <2>1, <2>2, RestKeepsSync
<1>8. QED
  BY <1>1, <1>2, <1>3, <1>4, <1>5, <1>6, <1>7 DEF Next, Tester, Over

\* A wait is released only by what the other devices have sent in that very case: the n-th
\* time there is an n-th signal, with or without resets, whatever hangs, fails or cannot be
\* written, as long as a device that answers the index does so before the next retry.
THEOREM WaitsAreForOthers ==
    ASSUME ~Slow
    PROVE  Spec => []WaitsForOthers
<1>1. Init => SyncInv
  BY InitHasSync
<1>2. SyncInv /\ SignalInv /\ [Next]_vars => SyncInv'
  BY NextKeepsSync
<1>3. SyncInv /\ SignalInv => WaitsForOthers
  <2> SUFFICES ASSUME SyncInv, SignalInv, NEW d \in Dut, NEW k \in Case, NEW s \in Signals
               PROVE  Occurrences(did, {d}, Line("passed", k, s)) <= Occurrences(did, Dut \ {d}, Line("send", k, s))
    BY DEF WaitsForOthers
  <2>1. MultiTypes
    BY DEF SyncInv
  <2>2. PICK E \in SUBSET Dut : E = {d}
    OBVIOUS
  <2>3. PICK O \in SUBSET Dut : O = Dut \ {d}
    OBVIOUS
  <2>4. PICK p \in Nat : p = Occurrences(did, E, Line("passed", k, s))
    BY <2>1, CountTypes
  <2>5. PICK m \in Nat : m = Occurrences(did, O, Line("send", k, s))
    BY <2>1, CountTypes
  <2>6. PICK x \in Nat : x = Freed(dev[d], in[d], k, s)
    BY FreedTypes
  <2>7. p + x <= m
    BY <2>2, <2>3, <2>4, <2>5, <2>6, WaitsAreEarned DEF Earned
  <2>8. p <= m
    BY <2>7
  <2>9. QED
    BY <2>2, <2>3, <2>4, <2>5, <2>8
<1>4. QED
  BY <1>1, <1>2, <1>3, SignalInvariant, PTL DEF Spec

-----------------------------------------------------------------------------
(* Verdicts of devices that answer in time, with any indices in the menu. *)

\* Device d has run no sub-case of k, and has nothing to read that would start one.
Spared(d, k) ==
    /\ \A i \in DOMAIN did[d] : ~(did[d][i].t = "result" /\ did[d][i].c = k)
    /\ dev[d].case = k => dev[d].st \notin {"run", "blocked", "ended"}
    /\ dev[d].case = k /\ dev[d].st = "sub" => in[d] = <<>>

\* A result that is printed is one that the device had.
Truthful(d) ==
    \A i \in DOMAIN out[d] : out[d][i].t = "result" =>
      Did(d, Concluded(out[d][i].c, d, out[d][i].v))

\* The result of a worker is its device's, and before the start the device is spared.
Judged(d) ==
    /\ \A r \in Harmless : data[d] = r => Did(d, Concluded(case, d, r))
    /\ data[d] # "none" <=> wpc[d] = "done"
    /\ wpc[d] \in {"ready", "name"} \/ data[d] = "PRE_RUN_FAILURE" => Spared(d, case)

VerdictHolds(k) ==
    /\ report[k] # "none" => k < case \/ (k = case /\ at = "between")
    /\ report[k] = "PASS" => \A d \in Dut : Did(d, Concluded(k, d, "PASS"))
    /\ report[k] = "IGNORE" => (\E d \in Dut : Spared(d, k)) \/ EndedBy(k)

FairInv ==
    /\ \A d \in Dut : Truthful(d) /\ Judged(d)
    /\ \A k \in Case : VerdictHolds(k)

\* Where nothing of a device changes, what is said of it stays.
LEMMA SameDevice ==
    ASSUME NEW d \in Dut, UNCHANGED <<dev[d], in[d], out[d], did[d]>>
    PROVE  /\ \A k : Spared(d, k) => Spared(d, k)'
           /\ Truthful(d) => Truthful(d)'
           /\ \A l : Did(d, l) => Did(d, l)'
           /\ UNCHANGED <<case, wpc[d], data[d]>> /\ Judged(d) => Judged(d)'
<1>1. \A k : Spared(d, k) => Spared(d, k)'
  BY DEF Spared
<1>2. \A l : Did(d, l) => Did(d, l)'
  BY DEF Did
<1>3. Truthful(d) => Truthful(d)'
  BY DEF Truthful, Did
<1>4. ASSUME UNCHANGED <<case, wpc[d], data[d]>>, Judged(d)
      PROVE  Judged(d)'
  <2>1. Spared(d, case) => Spared(d, case)'
    BY <1>4 DEF Spared
  <2>2. QED
    BY <2>1, <1>4 DEF Judged, Did
<1>5. QED
  BY <1>1, <1>2, <1>3, <1>4

\* A verdict stands as long as what it says of the devices does.
LEMMA VerdictStands ==
    ASSUME NEW k \in Case, VerdictHolds(k), UNCHANGED <<at, case, report>>,
           \A d \in Dut : \A l : Did(d, l) => Did(d, l)',
           \A d \in Dut : Spared(d, k) => Spared(d, k)'
    PROVE  VerdictHolds(k)'
<1>1. (\A d \in Dut : Did(d, Concluded(k, d, "PASS"))) => \A d \in Dut : Did(d, Concluded(k, d, "PASS"))'
  BY DEF Did
<1>2. EndedBy(k) => EndedBy(k)'
  BY EndStays
<1>3. QED
  BY <1>1, <1>2 DEF VerdictHolds

-----------------------------------------------------------------------------
(* A step of the firmware. *)

\* The device begins no sub-case but the one that it is told to run.
LEMMA StepSpares ==
    ASSUME MultiTypes, NEW d \in Dut, InLane(d), NEW k \in Case, Spared(d, k),
           NEW x, NEW r \in BOOLEAN, NEW ls, NEW es, Device(d, x, r, ls, es), GoesTo(d, x, r), Prints(d, x, ls, es)
    PROVE  Spared(d, k)'
<1>1. x \in DeviceType /\ ls \in Seq(LineType) /\ es \in Seq(LineType)
  BY DEF GoesTo, Prints
<1>2. /\ dev'[d] = x
      /\ \A i \in DOMAIN did'[d] :
           (i \in DOMAIN did[d] /\ did'[d][i] = did[d][i]) \/ \E j \in DOMAIN es : did'[d][i] = es[j]
  BY <1>1, DeviceFacts
<1>3. \A i \in DOMAIN did'[d] : ~(did'[d][i].t = "result" /\ did'[d][i].c = k)
  BY <1>2 DEF Spared, Prints
<1>4. x.case = k => x.st \notin {"run", "blocked", "ended"}
  BY DEF Spared, GoesTo
<1>5. ASSUME x.case = k, x.st = "sub"
      PROVE  in'[d] = <<>>
  <2>1. r /\ dev[d].st = "menu" /\ in[d] # <<>>
    BY <1>5 DEF GoesTo, Chooses
  <2>2. PICK n : in[d] = <<n>>
    BY <2>1 DEF InLane, Lane, InputFits
  <2>3. in' = [in EXCEPT ![d] = Tail(<<n>>)] /\ d \in DOMAIN in
    BY <2>1, <2>2 DEF Device, MultiTypes, DeviceTypes
  <2>4. Tail(<<n>>) = <<>>
    OBVIOUS
  <2>5. QED
    BY <2>3, <2>4
<1>6. QED
  BY <1>2, <1>3, <1>4, <1>5 DEF Spared

\* A result is printed when it was had.
LEMMA StepIsTruthful ==
    ASSUME MultiTypes, NEW d \in Dut, Truthful(d),
           NEW x, NEW r \in BOOLEAN, NEW ls, NEW es, Device(d, x, r, ls, es), GoesTo(d, x, r), Prints(d, x, ls, es)
    PROVE  /\ Truthful(d)'
           /\ \A l : Did(d, l) => Did(d, l)'
<1>1. x \in DeviceType /\ ls \in Seq(LineType) /\ es \in Seq(LineType)
  BY DEF GoesTo, Prints
<1>2. /\ did' \in [Dut -> Seq(LineType)]
      /\ \A i \in DOMAIN out'[d] :
           \/ i \in DOMAIN out[d] /\ out'[d][i] = out[d][i]
           \/ i > Len(out[d]) /\ \E j \in DOMAIN ls : out'[d][i] = ls[j]
      /\ \A i \in DOMAIN did[d] : i \in DOMAIN did'[d] /\ did'[d][i] = did[d][i]
      /\ \A j \in DOMAIN es : \E i \in DOMAIN did'[d] : did'[d][i] = es[j]
  BY <1>1, DeviceFacts
<1>3. \A l : Did(d, l) => Did(d, l)'
  BY <1>2, DeedsStay
<1>4. DOMAIN did'[d] = 1..Len(did'[d]) /\ DOMAIN es = 1..Len(es)
  BY <1>1, <1>2
<1>5. ASSUME NEW i \in DOMAIN out'[d], out'[d][i].t = "result"
      PROVE  Contains(did'[d], Concluded(out'[d][i].c, d, out'[d][i].v))
  <2>1. PICK l : l = Concluded(out'[d][i].c, d, out'[d][i].v)
    OBVIOUS
  <2>2. CASE i \in DOMAIN out[d] /\ out'[d][i] = out[d][i]
    <3>1. Did(d, l)
      BY <2>1, <2>2, <1>5 DEF Truthful
    <3>2. QED
      BY <3>1, <2>1, <1>3 DEF Did
  <2>3. CASE \E j \in DOMAIN ls : out'[d][i] = ls[j]
    <3>1. \E n \in DOMAIN es : es[n] = l
      BY <2>1, <2>3, <1>4, <1>5 DEF Prints
    <3>2. \E n \in 1..Len(did'[d]) : did'[d][n] = l
      BY <3>1, <1>2, <1>4
    <3>3. QED
      BY <3>2, <2>1 DEF Contains
  <2>4. QED
    BY <2>2, <2>3, <1>2
<1>6. QED
  BY <1>3, <1>5 DEF Truthful, Did

LEMMA FirmwareIsFair ==
    ASSUME SyncInv, FairInv, NEW d \in Dut, Firmware(d) \/ Hang(d)
    PROVE  FairInv'
<1>1. MultiTypes /\ InLane(d) /\ Truthful(d) /\ Judged(d) /\ case \in Case
  BY DEF SyncInv, FairInv, MultiTypes, TesterTypes
<1>2. ReadsItsOwn(d)
  <2>1. dev[d].st = "sub" => in[d] \in {<<>>, <<d>>}
    BY <1>1 DEF InLane, Lane, InputFits
  <2>2. QED
    BY <2>1 DEF ReadsItsOwn
<1>3. PICK x, ls, es : \E r \in BOOLEAN : Device(d, x, r, ls, es) /\ GoesTo(d, x, r) /\ Prints(d, x, ls, es)
  BY <1>1, <1>2, DeviceHasEffect DEF DeviceEffect
<1>4. PICK r \in BOOLEAN : Device(d, x, r, ls, es) /\ GoesTo(d, x, r) /\ Prints(d, x, ls, es)
  BY <1>3
<1>5. UNCHANGED <<at, case, wpc, data, report>>
  BY <1>4 DEF Device, workerVars
<1>6. ASSUME NEW e \in Dut, e # d
      PROVE  UNCHANGED <<dev[e], in[e], out[e], did[e]>>
  BY <1>1, <1>4, <1>6, DeviceFacts DEF GoesTo, Prints
<1>7. \A k \in Case : Spared(d, k) => Spared(d, k)'
  BY <1>1, <1>4, StepSpares
<1>8. Truthful(d)' /\ \A l : Did(d, l) => Did(d, l)'
  BY <1>1, <1>4, StepIsTruthful
<1>9. Judged(d)'
  <2>1. Spared(d, case) => Spared(d, case)'
    BY <1>1, <1>5, <1>7
  <2>2. ASSUME NEW r0 \in Harmless, Did(d, Concluded(case, d, r0))
        PROVE  Did(d, Concluded(case, d, r0))'
    <3>1. PICK l : l = Concluded(case, d, r0)
      OBVIOUS
    <3>2. l = Concluded(case, d, r0)'
      BY <3>1, <1>5 DEF Concluded, Line
    <3>3. QED
      BY <3>1, <3>2, <2>2, <1>8 DEF Did
  <2>3. QED
    BY <2>1, <2>2, <1>1, <1>5 DEF Judged
<1>10. \A e \in Dut : Truthful(e)' /\ Judged(e)'
  BY <1>5, <1>6, <1>8, <1>9, SameDevice DEF FairInv
<1>11. \A e \in Dut : (\A l : Did(e, l) => Did(e, l)') /\ \A k \in Case : Spared(e, k) => Spared(e, k)'
  BY <1>6, <1>7, <1>8, SameDevice
<1>12. \A k \in Case : VerdictHolds(k)'
  BY <1>5, <1>11, VerdictStands DEF FairInv
<1>13. QED
  BY <1>10, <1>12 DEF FairInv

-----------------------------------------------------------------------------
(* A turn of a worker. *)

\* When a worker writes: at the start, for the sub-case, and at the end of a wait.
LEMMA WritesOnly ==
    ASSUME MultiTypes, NEW d \in Dut, Worker(d)
    PROVE  \/ in'[d] = in[d]
           \/ wpc'[d] = "name"
           \/ wpc[d] = "name" /\ wpc'[d] = "run"
           \/ wpc[d] = "wait"
<1>1. wpc \in [Dut -> {"ready", "name", "run", "wait", "done", "raised"}]
  BY DEF MultiTypes, TesterTypes
<1>2. CASE SeeReady(d)
  BY <1>1, <1>2 DEF SeeReady
<1>3. CASE SeeName(d)
  BY <1>1, <1>3 DEF SeeName
<1>4. CASE TakeSignal(d)
  BY <1>4 DEF TakeSignal
<1>5. CASE RetryStart(d)
  BY <1>1, <1>5 DEF RetryStart
<1>6. CASE SkipDone(d) \/ SeeSend(d) \/ SeeWait(d) \/ SeeEnd(d) \/ PollAgain(d) \/ GiveUpStart(d) \/ RunTimeout(d) \/ WaitTimeout(d)
  BY <1>6 DEF SkipDone, SeeSend, SeeWait, SeeEnd, PollAgain, GiveUpStart, RunTimeout, WaitTimeout
<1>7. QED
  BY <1>2, <1>3, <1>4, <1>5, <1>6 DEF Worker

\* A device stays spared of a case unless its worker has just seen it begin that case.
LEMMA TurnSpares ==
    ASSUME MultiTypes, NEW d \in Dut, InLane(d), InLane(d)', Worker(d), UNCHANGED <<case, dev, did>>,
           NEW k \in Case, Spared(d, k), k # case \/ wpc'[d] # "run"
    PROVE  Spared(d, k)'
<1>1. ASSUME dev[d].case = k, dev[d].st = "sub"
      PROVE  in'[d] = <<>>
  <2>1. in[d] = <<>>
    BY <1>1 DEF Spared
  <2>2. CASE wpc'[d] = "name"
    <3>1. InStep(case, dev[d], in'[d], out'[d], "name", waitSig'[d])
      BY <2>2 DEF InLane, Lane
    <3>2. QED
      BY <3>1, <1>1 DEF InStep
  <2>3. CASE wpc[d] = "name" /\ wpc'[d] = "run"
    <3>1. InStep(case, dev[d], in'[d], out'[d], "run", waitSig'[d])
      BY <2>3 DEF InLane, Lane
    <3>2. QED
      BY <3>1, <2>3, <1>1 DEF InStep
  <2>4. CASE wpc[d] = "wait"
    <3>1. InStep(case, dev[d], in[d], out[d], "wait", waitSig[d])
      BY <2>4 DEF InLane, Lane
    <3>2. QED
      BY <3>1, <1>1 DEF InStep
  <2>5. QED
    BY <2>1, <2>2, <2>3, <2>4, WritesOnly
<1>2. QED
  BY <1>1 DEF Spared

LEMMA TurnIsTruthful ==
    ASSUME MultiTypes, NEW d \in Dut, WorkerEffect(d), Truthful(d)
    PROVE  Truthful(d)'
<1>1. did' = did
  BY DEF WorkerEffect
<1>2. PICK m \in Nat : \A i \in DOMAIN out'[d] : i + m \in DOMAIN out[d] /\ out'[d][i] = out[d][i + m]
  BY EffectOnLines, ShiftFacts
<1>3. QED
  BY <1>1, <1>2 DEF Truthful, Did

\* A result is seen in the output since the start of the case.
LEMMA TurnIsJudged ==
    ASSUME MultiTypes, NEW d \in Dut, WorkerEffect(d), InLane(d), Truthful(d), Judged(d),
           wpc'[d] # "run" => (Spared(d, case) => Spared(d, case)')
    PROVE  Judged(d)'
<1>1. /\ UNCHANGED <<case, did>>
      /\ data[d] \in {"none", "PRE_RUN_FAILURE"} \cup Outcomes /\ wpc[d] \in {"ready", "name", "run", "wait", "done", "raised"}
  BY DEF MultiTypes, TesterTypes, WorkerEffect
<1>2. ASSUME NEW r \in Harmless, Did(d, Concluded(case, d, r))
      PROVE  Did(d, Concluded(case, d, r))'
  BY <1>1, <1>2 DEF Did
<1>3. CASE Starting(d)
  <2>1. Spared(d, case) /\ data[d] = "none"
    BY <1>1, <1>3 DEF Starting, Judged
  <2>2. QED
    BY <2>1, <1>1, <1>3 DEF Starting, Judged
<1>4. CASE Started(d)
  <2>1. data[d] = "none"
    BY <1>1, <1>4 DEF Started, Judged
  <2>2. QED
    BY <2>1, <1>4 DEF Started, Judged
<1>5. CASE Proceeding(d)
  <2>1. data[d] = "none"
    BY <1>1, <1>5 DEF Proceeding, Judged
  <2>2. ASSUME NEW i \in DOMAIN out[d], out[d][i].t = "result", data'[d] = out[d][i].v
        PROVE  /\ data'[d] \in Outcomes
               /\ \A r \in Harmless : data'[d] = r => Did(d, Concluded(case, d, r))
    <3>1. out[d][i].v \in Outcomes /\ out[d][i].c # 0 /\ out[d] \in Seq(LineType)
      BY <2>2 DEF MultiTypes, DeviceTypes
    <3>2. i \in 1..Len(out[d])
      BY <3>1
    <3>3. SinceStart(case, out[d])
      BY <1>5 DEF Proceeding, InLane, Lane, InStep
    <3>4. out[d][i].c = case
      BY <3>1, <3>2, <3>3 DEF SinceStart
    <3>5. QED
      BY <3>1, <3>4, <2>2 DEF Truthful
  <2>3. \/ wpc'[d] \in {"run", "wait", "raised"} /\ data'[d] = "none"
        \/ wpc'[d] = "done" /\ data'[d] \in Outcomes
    BY <2>1, <2>2, <1>5 DEF Proceeding
  <2>4. \A r \in Harmless : data'[d] = r => Did(d, Concluded(case, d, r))
    BY <2>1, <2>2, <1>5 DEF Proceeding
  <2>5. QED
    BY <2>3, <2>4, <1>2 DEF Judged
<1>6. CASE UNCHANGED <<wpc, data, in, out>>
  <2>1. dev' = dev
    BY DEF WorkerEffect
  <2>2. QED
    BY <2>1, <1>1, <1>6, SameDevice
<1>7. QED
  BY <1>3, <1>4, <1>5, <1>6 DEF WorkerEffect

LEMMA WorkerIsFair ==
    ASSUME SyncInv, SyncInv', FairInv, NEW d \in Dut, Worker(d)
    PROVE  FairInv'
<1>1. MultiTypes /\ InLane(d) /\ InLane(d)' /\ Truthful(d) /\ Judged(d)
  BY DEF SyncInv, FairInv
<1>2. WorkerEffect(d) /\ case \in Case
  BY <1>1, WorkerHasEffect DEF MultiTypes, TesterTypes
<1>3. /\ at = "gather" /\ UNCHANGED <<at, case, dev, did, report>>
      /\ \A e \in Dut : e # d => wpc'[e] = wpc[e] /\ data'[e] = data[e]
  BY <1>2 DEF WorkerEffect
<1>4. ASSUME NEW e \in Dut, e # d
      PROVE  UNCHANGED <<dev[e], in[e], out[e], did[e]>>
  <2>1. out'[e] = out[e]
    BY <1>1, <1>2, <1>4, EffectOnLines, ShiftFacts
  <2>2. PICK X \in SUBSET Own(d) : Fed(d, X)
    BY <1>1, <1>2, EffectOnLines
  <2>3. X \in SUBSET Nat
    BY <1>1, OwnNumbers
  <2>4. in'[e] = in[e]
    BY <2>2, <2>3, <1>1, <1>4, FedFacts
  <2>5. QED
    BY <2>1, <2>4, <1>3
<1>5. ASSUME NEW k \in Case, Spared(d, k), k # case \/ wpc'[d] # "run"
      PROVE  Spared(d, k)'
  BY <1>1, <1>3, <1>5, TurnSpares
<1>6. Truthful(d)'
  BY <1>1, <1>2, TurnIsTruthful
<1>7. Judged(d)'
  <2>1. wpc'[d] # "run" => (Spared(d, case) => Spared(d, case)')
    BY <1>2, <1>3, <1>5
  <2>2. QED
    BY <2>1, <1>1, <1>2, TurnIsJudged
<1>8. \A e \in Dut : Truthful(e)' /\ Judged(e)'
  BY <1>3, <1>4, <1>6, <1>7, SameDevice DEF FairInv
<1>9. ASSUME NEW k \in Case
      PROVE  VerdictHolds(k)'
  <2>1. VerdictHolds(k)
    BY DEF FairInv
  <2>2. CASE report[k] = "none"
    BY <2>2, <1>3 DEF VerdictHolds
  <2>3. CASE report[k] # "none"
    <3>1. k # case
      BY <2>1, <2>3, <1>2, <1>3 DEF VerdictHolds, Case
    <3>2. \A e \in Dut : Spared(e, k) => Spared(e, k)'
      BY <3>1, <1>4, <1>5, SameDevice
    <3>3. \A e \in Dut : \A l : Did(e, l) => Did(e, l)'
      BY <1>3 DEF Did
    <3>4. QED
      BY <3>2, <3>3, <2>1, <1>3, VerdictStands
  <2>4. QED
    BY <2>2, <2>3
<1>10. QED
  BY <1>8, <1>9 DEF FairInv

-----------------------------------------------------------------------------
(* The tester. *)

\* Of the devices nothing changes, and of a worker at most that it ends.
LEMMA RestIsFair ==
    ASSUME FairInv, UNCHANGED <<case, dev, in, out, did>>,
           \A d \in Dut : \/ wpc'[d] = wpc[d] /\ data'[d] = data[d]
                          \/ wpc'[d] = "done" /\ (data'[d] = "FAIL" \/ (wpc[d] = "done" /\ data'[d] = data[d]))
    PROVE  /\ \A d \in Dut : Truthful(d)' /\ Judged(d)'
           /\ at' = at /\ report' = report => FairInv'
<1>1. ASSUME NEW d \in Dut
      PROVE  Truthful(d)' /\ Judged(d)' /\ (\A k : Spared(d, k) => Spared(d, k)') /\ \A l : Did(d, l) => Did(d, l)'
  <2>1. UNCHANGED <<dev[d], in[d], out[d], did[d]>>
    OBVIOUS
  <2>2. Truthful(d) /\ Judged(d)
    BY DEF FairInv
  <2>3. Truthful(d)' /\ (\A k : Spared(d, k) => Spared(d, k)') /\ \A l : Did(d, l) => Did(d, l)'
    BY <2>1, <2>2, SameDevice
  <2>4. CASE wpc'[d] = wpc[d] /\ data'[d] = data[d]
    BY <2>1, <2>2, <2>3, <2>4, SameDevice
  <2>5. CASE wpc'[d] = "done" /\ (data'[d] = "FAIL" \/ (wpc[d] = "done" /\ data'[d] = data[d]))
    <3>1. Spared(d, case) => Spared(d, case)'
      BY DEF Spared
    <3>2. \A r \in Harmless : Did(d, Concluded(case, d, r)) => Did(d, Concluded(case, d, r))'
      BY DEF Did
    <3>3. QED
      BY <3>1, <3>2, <2>2, <2>3, <2>5 DEF Judged
  <2>6. QED
    BY <2>3, <2>4, <2>5
<1>2. ASSUME at' = at, report' = report, NEW k \in Case
      PROVE  VerdictHolds(k)'
  BY <1>1, <1>2, VerdictStands DEF FairInv
<1>3. QED
  BY <1>1, <1>2 DEF FairInv

LEMMA ReturnIsFair ==
    ASSUME MultiTypes, FairInv, GatherReturns
    PROVE  FairInv'
<1>1. /\ at = "gather" /\ at' = "between" /\ report' = [report EXCEPT ![case] = Merged(data)]
      /\ UNCHANGED <<case, dev, in, out, did, wpc, data>>
  BY DEF GatherReturns, EndOfRound, workerVars, deviceVars
<1>2. case \in Case /\ case \in Nat /\ report \in [Case -> Outcomes \cup {"none"}]
  BY DEF MultiTypes, TesterTypes, Case
<1>3. PICK m \in Outcomes : m = Merged(data)
  BY MergedFacts
<1>4. /\ m = "PASS" => \A d \in Dut : Did(d, Concluded(case, d, "PASS"))
      /\ m = "IGNORE" => (\E d \in Dut : Spared(d, case)) \/ EndedBy(case)
  <2>1. \A d \in Dut : data[d] \in Outcomes \cup {"PRE_RUN_FAILURE"}
    BY DEF GatherReturns, FairInv, Judged, MultiTypes, TesterTypes
  <2>2. QED
    BY <2>1, <1>3, MergedMeans DEF FairInv, Judged, EndedBy
<1>5. \A d \in Dut : Truthful(d)' /\ Judged(d)'
  BY <1>1, RestIsFair
<1>6. ASSUME NEW k \in Case
      PROVE  VerdictHolds(k)'
  <2>1. (\A d \in Dut : Did(d, Concluded(k, d, "PASS"))) => \A d \in Dut : Did(d, Concluded(k, d, "PASS"))'
    BY <1>1 DEF Did
  <2>2. \A d \in Dut : Spared(d, k) => Spared(d, k)'
    BY <1>1 DEF Spared
  <2>21. EndedBy(k) => EndedBy(k)'
    BY <1>1, SameDeeds
  <2>3. CASE k = case
    BY <2>1, <2>2, <2>21, <2>3, <1>1, <1>2, <1>3, <1>4 DEF VerdictHolds
  <2>4. CASE k # case
    <3>1. VerdictHolds(k) /\ report'[k] = report[k]
      BY <2>4, <1>1, <1>2 DEF FairInv
    <3>2. QED
      BY <3>1, <2>1, <2>2, <2>21, <2>4, <1>1 DEF VerdictHolds
  <2>5. QED
    BY <2>3, <2>4
<1>7. QED
  BY <1>5, <1>6 DEF FairInv

\* The next case finds every device spared of it.
LEMMA NextCaseIsFair ==
    ASSUME SyncInv, FairInv, NextCase
    PROVE  FairInv'
<1>1. MultiTypes /\ \A d \in Dut : InLane(d)
  BY DEF SyncInv
<1>2. /\ at' = "gather" /\ case' = case + 1 /\ wpc' = Each("ready") /\ data' = Each("none")
      /\ UNCHANGED <<report, out, did>>
      /\ (dev' = Each(Booting) /\ in' = Each(<<>>)) \/ UNCHANGED <<dev, in>>
  BY DEF NextCase, FreshWorkers
<1>3. case \in Nat
  BY <1>1 DEF MultiTypes, TesterTypes, Case
<1>4. ASSUME NEW d \in Dut
      PROVE  \/ dev'[d].case = 0
             \/ dev'[d] = dev[d] /\ in'[d] = in[d]
  BY <1>2 DEF Each, Booting
<1>5. ASSUME NEW d \in Dut, NEW k \in Case, Spared(d, k)
      PROVE  Spared(d, k)'
  <2>1. k # 0
    BY SizeAssumption DEF Case
  <2>2. QED
    BY <2>1, <1>2, <1>4, <1>5 DEF Spared
<1>6. ASSUME NEW d \in Dut
      PROVE  Truthful(d)' /\ Judged(d)'
  <2>1. Truthful(d)'
    BY <1>2 DEF FairInv, Truthful, Did
  <2>2. dev[d].case \in Nat /\ dev[d].case <= case /\ \A i \in DOMAIN did[d] : did[d][i].c \in Nat /\ did[d][i].c <= case
    <3>1. did[d] \in Seq(LineType) /\ OutputFits(case, dev[d], out[d], did[d]) /\ dev[d].case \in Nat
      BY <1>1, LaneTypes
    <3>2. ASSUME NEW i \in DOMAIN did[d]
          PROVE  did[d][i].c \in Nat /\ did[d][i].c <= case
      <4>1. i \in 1..Len(did[d]) /\ did[d][i] \in LineType
        BY <3>1
      <4>2. QED
        BY <4>1, <3>1 DEF OutputFits, LineType
    <3>3. QED
      BY <3>1, <3>2 DEF OutputFits
  <2>3. dev'[d].case # case'
    BY <2>2, <1>2, <1>3, <1>4
  <2>4. \A i \in DOMAIN did'[d] : did'[d][i].c # case'
    BY <2>2, <1>2, <1>3
  <2>5. Spared(d, case)'
    BY <2>3, <2>4 DEF Spared
  <2>6. data'[d] = "none" /\ wpc'[d] = "ready"
    BY <1>2 DEF Each
  <2>7. QED
    BY <2>1, <2>5, <2>6 DEF Judged
<1>7. ASSUME NEW k \in Case
      PROVE  VerdictHolds(k)'
  <2>1. VerdictHolds(k) /\ k \in Nat
    BY DEF FairInv, Case
  <2>2. report[k] # "none" => k < case'
    BY <2>1, <1>2, <1>3 DEF VerdictHolds
  <2>3. (\A d \in Dut : Did(d, Concluded(k, d, "PASS"))) => \A d \in Dut : Did(d, Concluded(k, d, "PASS"))'
    BY <1>2 DEF Did
  <2>4. QED
    BY <2>1, <2>2, <2>3, <1>2, <1>5, SameDeeds DEF VerdictHolds
<1>8. QED
  BY <1>6, <1>7 DEF FairInv

LEMMA InitIsFair ==
    ASSUME Init
    PROVE  FairInv
<1>1. /\ case = 1 /\ wpc = Each("ready") /\ data = Each("none") /\ dev = Each(Booting)
      /\ out = Each(<<>>) /\ did = Each(<<>>) /\ report = [k \in Case |-> "none"]
  BY DEF Init
<1>2. Booting.st = "boot" /\ Booting.case = 0
  BY DEF Booting
<1>3. ASSUME NEW d \in Dut
      PROVE  Truthful(d) /\ Judged(d)
  <2>1. dev[d] = Booting /\ out[d] = <<>> /\ did[d] = <<>> /\ wpc[d] = "ready" /\ data[d] = "none"
    BY <1>1 DEF Each
  <2>2. DOMAIN out[d] = {} /\ DOMAIN did[d] = {}
    BY <2>1
  <2>3. Spared(d, case)
    BY <2>1, <2>2, <1>1, <1>2 DEF Spared
  <2>4. QED
    BY <2>1, <2>2, <2>3 DEF Truthful, Judged
<1>4. \A k \in Case : VerdictHolds(k)
  BY <1>1 DEF VerdictHolds
<1>5. QED
  BY <1>3, <1>4 DEF FairInv

LEMMA NextIsFair ==
    ASSUME SyncInv, SyncInv', FairInv, [Next]_vars
    PROVE  FairInv'
<1>1. CASE \E d \in Dut : Worker(d)
  BY <1>1, WorkerIsFair
<1>2. CASE \E d \in Dut : Firmware(d) \/ Hang(d)
  BY <1>2, FirmwareIsFair
<1>3. CASE NextCase
  BY <1>3, NextCaseIsFair
<1>4. CASE GatherReturns
  BY <1>4, ReturnIsFair DEF SyncInv
<1>5. CASE GatherRaises
  <2>1. /\ at' = "raised" /\ at = "gather" /\ UNCHANGED <<case, report, dev, in, out, did, wpc, data>>
    BY <1>5 DEF GatherRaises, EndOfRound, workerVars, deviceVars
  <2>2. \A d \in Dut : Truthful(d)' /\ Judged(d)'
    BY <2>1, RestIsFair
  <2>3. \A k \in Case : VerdictHolds(k)'
    BY <2>1, SameDeeds DEF FairInv, VerdictHolds, Spared, Did
  <2>4. QED
    BY <2>2, <2>3 DEF FairInv
<1>6. CASE NextRound
  <2>1. UNCHANGED <<at, case, report, dev, in, out, did>>
    BY <1>6 DEF NextRound, deviceVars
  <2>2. \/ UNCHANGED <<wpc, data>>
        \/ /\ wpc' = Each("done")
           /\ data' = [d \in Dut |-> IF wpc[d] = "done" THEN data[d] ELSE "FAIL"]
    BY <1>6 DEF NextRound
  <2>3. \A d \in Dut : \/ wpc'[d] = wpc[d] /\ data'[d] = data[d]
                       \/ wpc'[d] = "done" /\ (data'[d] = "FAIL" \/ (wpc[d] = "done" /\ data'[d] = data[d]))
    BY <2>2 DEF Each
  <2>4. QED
    BY <2>1, <2>3, RestIsFair
<1>7. CASE UNCHANGED vars
  <2>1. UNCHANGED <<at, case, report, dev, in, out, did, wpc, data>>
    BY <1>7 DEF vars, workerVars, deviceVars
  <2>2. QED
    BY <2>1, RestIsFair
<1>8. QED
  BY <1>1, <1>2, <1>3, <1>4, <1>5, <1>6, <1>7 DEF Next, Tester, Over

LEMMA FairInvariant ==
    ASSUME ~Slow
    PROVE  Spec => [](MultiTypes /\ FairInv)
<1>1. Init => SyncInv /\ FairInv
  BY InitHasSync, InitIsFair
<1>2. SyncInv /\ SignalInv /\ [Next]_vars => SyncInv'
  BY NextKeepsSync
<1>3. SyncInv /\ SyncInv' /\ FairInv /\ [Next]_vars => FairInv'
  BY NextIsFair
<1>4. SyncInv => MultiTypes
  BY DEF SyncInv
<1>5. QED
  BY <1>1, <1>2, <1>3, <1>4, SignalInvariant, PTL DEF Spec

\* The verdicts, when devices answer in time, whatever the indices of the menu are.
LEMMA FairVerdicts ==
    ASSUME ~Slow
    PROVE  Spec => [](PassMeansPassed /\ IgnoredIsExplained)
<1>1. FairInv => PassMeansPassed
  BY DEF FairInv, VerdictHolds, PassMeansPassed
<1>2. MultiTypes /\ FairInv => IgnoredIsExplained
  <2> SUFFICES ASSUME MultiTypes, FairInv, NEW k \in Case, report[k] = "IGNORE", ~EndedBy(k)
               PROVE  \E d \in Dut : \A i \in Dut, r \in Outcomes : ~Did(d, Concluded(k, i, r))
    BY DEF IgnoredIsExplained, EndedBy
  <2>1. PICK d \in Dut : Spared(d, k)
    BY DEF FairInv, VerdictHolds
  <2>2. \A i \in Dut, r \in Outcomes : ~Did(d, Concluded(k, i, r))
    BY <2>1, NotRun DEF Spared
  <2>3. QED
    BY <2>2
<1>3. QED
  BY <1>1, <1>2, FairInvariant, PTL

\* A case is reported as passed only if each device has passed its own sub-case of it:
\* a result is believed only from output that followed the start of the case. A device
\* may answer late, or the menu may use the numbers of the devices, but not both.
THEOREM PassIsEarned ==
    ASSUME IndicesApart \/ ~Slow
    PROVE  Spec => []PassMeansPassed
<1>1. Spec => [](PassMeansPassed /\ IgnoredIsExplained)
  BY ApartVerdicts, FairVerdicts
<1>2. QED
  BY <1>1, PTL

\* A case is reported as ignored only if some device has run nothing of it, or if all
\* have ended their own sub-case with PASS or IGNORE, and one with IGNORE. A FAIL is never
\* hidden. A device may answer late, or the menu may use the numbers of the devices, but
\* not both.
THEOREM IgnoredWasExplained ==
    ASSUME IndicesApart \/ ~Slow
    PROVE  Spec => []IgnoredIsExplained
<1>1. Spec => [](PassMeansPassed /\ IgnoredIsExplained)
  BY ApartVerdicts, FairVerdicts
<1>2. QED
  BY <1>1, PTL

=============================================================================
