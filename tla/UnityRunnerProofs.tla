------------------------- MODULE UnityRunnerProofs -------------------------
(***************************************************************************)
(* Proofs about UnityRunner, for any menu, any selection of cases and any  *)
(* kind of board: what the runner records is about the case it has asked   *)
(* for.                                                                    *)
(***************************************************************************)
EXTENDS UnityRunner, Integers, NumberLemmas, TLAPS

\* No number of a stage is the index of a case: written to a board that is back in
\* its menu it would start that case.
StagesApart == \A j, k \in Case : Index(j) \notin 1..LastStage(k)

USE DEF Outcomes

\* What a record may say: a result of the board, or that the case was skipped.
Said == Outcomes \cup {"SKIPPED"}

\* The lines of the board.
OutLine ==
    [t : {"press", "menu", "enter", "next"}, case : {0}, result : {""}]
      \cup [t : {"name", "end"}, case : Case, result : {""}]
      \cup [t : {"result"}, case : Case, result : Outcomes]

\* The board is at a case.
Busy == dev.st \in {"sub", "run", "ended"}

RunTypes ==
    /\ pc \in {"press", "menu", "reset", "next", "ready", "name", "stageReady", "stageName",
               "result", "raised"}
    /\ case \in Plan \cup {0}
    /\ case = 0 => pc \in {"press", "menu", "reset", "next", "raised"}
    /\ case # 0 => pc \in {"reset", "next", "ready", "name", "stageReady", "stageName", "result"}
    /\ stage \in Nat
    /\ pc \in {"press", "menu", "reset", "ready", "name"} => stage = 0
    /\ pc \in {"stageReady", "stageName"} => stage < LastStage(case)
    /\ failed \in Case \cup {0}

BoardTypes ==
    /\ out \in Seq(OutLine)
    /\ inp \in Seq(Nat)
    /\ dev \in [st : {"boot", "menu", "sub", "run", "ended", "prompt", "hung"},
                case : Case \cup {0}, stage : Nat]
    /\ Busy => dev.case \in Case /\ dev.stage \in 0..LastStage(dev.case)

ReportTypes ==
    report \in Seq([asked : Case, named : Case, result : Said])

\* The cases of the plan that have a record are those before the present one, and that
\* one once its record is made.
Progress ==
    \A k \in Plan : (\E i \in 1..Len(report) : report[i].asked = k)
                      <=> k < case \/ (k = case /\ pc = "next")

Types == RunTypes /\ BoardTypes /\ ReportTypes

\* Nothing speaks of a case the runner has not come to.
NothingAhead ==
    /\ \A i \in 1..Len(out) : out[i].case <= case
    /\ Busy => dev.case <= case
    /\ \A i \in 1..Len(inp), k \in Case : inp[i] = Index(k) => k <= case

\* What the board has printed, the case it is at and the lines it will read are in this
\* order of age: what is older than something about the present case may be about it or
\* an earlier one, what is younger is about it.
OutInOrder ==
    \A i, j \in 1..Len(out) : i < j /\ out[i].case = case /\ case # 0 => out[j].case \in {0, case}
OutThenDev ==
    \A i \in 1..Len(out) : out[i].case = case /\ Busy => dev.case = case
OutThenInp ==
    \A i \in 1..Len(out), j \in 1..Len(inp), k \in Case :
      out[i].case = case /\ case # 0 /\ inp[j] = Index(k) => k = case
DevThenInp ==
    \A j \in 1..Len(inp), k \in Case : Busy /\ dev.case = case /\ inp[j] = Index(k) => k = case
InpInOrder ==
    \A i, j \in 1..Len(inp), k \in Case : i < j /\ inp[i] = Index(case) /\ case # 0 /\ inp[j] = Index(k) => k = case

Chain == NothingAhead /\ OutInOrder /\ OutThenDev /\ OutThenInp /\ DevThenInp /\ InpInOrder

\* The start of the case was seen.
Reached == pc \in {"result", "stageReady", "stageName"}

\* All that is still to come is about the present case.
OnlyPresent ==
    Reached => /\ \A i \in 1..Len(out) : out[i].case \in {0, case}
               /\ Busy => dev.case = case
               /\ \A j \in 1..Len(inp), k \in Case : inp[j] = Index(k) => k = case

\* A result that was printed is one the board got to.
Heard ==
    \A i \in 1..Len(out) : out[i].t = "result" =>
      \E s \in 0..LastStage(out[i].case) : <<out[i].case, s, out[i].result>> \in did

FailedIsPresent == failed \in {0, case}

\* A result that is no failure was printed for the case it is recorded for.
Earned ==
    \A k \in Case, r \in {"PASS", "IGNORE"} : Reported(k, r) =>
      \E s \in 0..LastStage(k) : <<k, s, r>> \in did

\* Result r may be recorded for the present case.
Got(r) == r \in {"PASS", "IGNORE"} => \E s \in 0..LastStage(case) : <<case, s, r>> \in did

RunInv == Types /\ Progress /\ Chain /\ OnlyPresent /\ Heard /\ FailedIsPresent /\ Earned

-----------------------------------------------------------------------------
(* The menu and the lines of the board. *)

LEMMA CaseFacts ==
    /\ \A k \in Case : k \in Nat \ {0} /\ LastStage(k) \in Nat
    /\ \A k \in Case : Index(k) \in Nat \ {0}
    /\ \A j, k \in Case : Index(j) = Index(k) => j = k
  BY FirstIndexAssumption, LinesAssumption DEF Case, LastStage, Index

LEMMA LineFacts ==
    ASSUME NEW l \in OutLine
    PROVE  /\ l.case \in Case \cup {0}
           /\ l.t \in {"name", "end", "result"} => l.case \in Case
           /\ l.t = "result" => l.result \in Outcomes
  BY DEF OutLine

LEMMA LinesPrinted ==
    /\ \A t \in {"press", "menu", "enter", "next"} : Text(t) \in OutLine /\ Text(t).case = 0
                                                      /\ Text(t).t = t
    /\ \A k \in Case : \A t \in {"name", "end"} :
         Line(t, k, "") \in OutLine /\ Line(t, k, "").case = k /\ Line(t, k, "").t = t
    /\ \A k \in Case : \A r \in Outcomes :
         /\ Line("result", k, r) \in OutLine /\ Line("result", k, r).case = k
         /\ Line("result", k, r).t = "result" /\ Line("result", k, r).result = r
  BY DEF Text, Line, OutLine

\* The lines of out that Find looks for.
Found(ts) == {i \in DOMAIN out : out[i].t \in ts /\ (out[i].t = "name" => out[i].case = case)}

\* Find returns the first of them.
LEMMA FindFacts ==
    ASSUME out \in Seq(OutLine), NEW ts
    PROVE  /\ Find(ts) \in 0..Len(out)
           /\ Find(ts) # 0 =>
                /\ Find(ts) \in 1..Len(out) /\ out[Find(ts)].t \in ts
                /\ out[Find(ts)].t = "name" => out[Find(ts)].case = case
                /\ \A j \in 1..(Find(ts) - 1) :
                     ~(out[j].t \in ts /\ (out[j].t = "name" => out[j].case = case))
           /\ Find(ts) = 0 =>
                \A j \in 1..Len(out) : ~(out[j].t \in ts /\ (out[j].t = "name" => out[j].case = case))
<1>1. DOMAIN out = 1..Len(out) /\ Len(out) \in Nat
  OBVIOUS
<1>2. Found(ts) \in SUBSET (1..Len(out)) /\ Found(ts) \in SUBSET Nat
  BY <1>1 DEF Found
<1>3. Find(ts) = IF Found(ts) = {} THEN 0
                 ELSE CHOOSE i \in Found(ts) : \A j \in Found(ts) : i <= j
  BY DEF Find, Found
<1>4. CASE Found(ts) = {}
  BY <1>1, <1>3, <1>4 DEF Found
<1>5. CASE Found(ts) # {}
  <2>1. \E i \in Found(ts) : \A j \in Found(ts) : i <= j
    BY <1>2, <1>5, LeastNatural
  <2>2. Find(ts) \in Found(ts) /\ \A j \in Found(ts) : Find(ts) <= j
    BY <2>1, <1>3, <1>5
  <2>3. Find(ts) \in 1..Len(out)
    BY <2>2, <1>2
  <2>4. \A j \in 1..(Find(ts) - 1) : j \in 1..Len(out) /\ j \notin Found(ts)
    BY <2>2, <2>3, <1>1, <1>2
  <2>5. QED
    BY <2>2, <2>3, <2>4, <1>1 DEF Found
<1>6. QED
  BY <1>4, <1>5

\* The result read out of the text is of one of its lines, or a failure of the case.
LEMMA ParsedFacts ==
    ASSUME out \in Seq(OutLine), NEW n \in 1..Len(out)
    PROVE  \/ Parsed(n) = Line("result", case, "FAIL")
           \/ \E j \in 1..Len(out) : out[j].t = "result" /\ Parsed(n) = out[j]
<1> DEFINE rs == {j \in 1..(n - 1) : out[j].t = "result"}
<1>1. Parsed(n) = IF rs = {} THEN Line("result", case, "FAIL")
                  ELSE out[CHOOSE j \in rs : \A k \in rs : k <= j]
  BY DEF Parsed
<1>2. rs \in SUBSET (1..Len(out)) /\ Len(out) \in Nat
  OBVIOUS
<1>3. \A j \in rs : out[j].t = "result"
  OBVIOUS
<1> HIDE DEF rs
<1>4. CASE rs # {}
  <2>1. \E j \in rs : \A k \in rs : k <= j
    BY <1>2, <1>4, GreatestUpTo
  <2>2. PICK j : j = CHOOSE i \in rs : \A k \in rs : k <= i
    OBVIOUS
  <2>3. j \in rs /\ Parsed(n) = out[j]
    BY <2>1, <2>2, <1>1, <1>4
  <2>4. QED
    BY <2>3, <1>2, <1>3
<1>5. QED
  BY <1>1, <1>4

-----------------------------------------------------------------------------
(* What a step does to the lines. *)

\* out loses its first m lines.
Drops(m) ==
    /\ out' \in Seq(OutLine)
    /\ \A i \in 1..Len(out') : i + m \in 1..Len(out) /\ out'[i] = out[i + m]

\* The board reads the first m lines.
Reads(m) ==
    /\ inp' \in Seq(Nat)
    /\ \A i \in 1..Len(inp') : i + m \in 1..Len(inp) /\ inp'[i] = inp[i + m]

\* The board prints lines that name case c, if any.
Prints(c) ==
    /\ out' \in Seq(OutLine)
    /\ Len(out) <= Len(out')
    /\ \A i \in 1..Len(out) : out'[i] = out[i]
    /\ \A i \in 1..Len(out') : i > Len(out) => out'[i].case \in {0, c}

\* At most one line is written, which is no index but that of the present case (or the
\* number of a stage).
Writes ==
    \/ inp' \in {inp, <<>>}
    \/ \E n \in Nat : /\ inp' = Append(inp, n)
                      /\ StagesApart => \A k \in Case : n = Index(k) => k = case

\* The board goes on, or is reset and loses what was written to it.
Resets == dev' = dev \/ (dev' = [st |-> "boot", case |-> 0, stage |-> 0] /\ inp' = <<>>)

LEMMA ConsumeDrops ==
    ASSUME BoardTypes, NEW m \in Nat, Consume(m)
    PROVE  Drops(m)
  BY SuffixFacts DEF Consume, Drops, BoardTypes

LEMMA NothingDropped ==
    ASSUME BoardTypes, out' = out
    PROVE  Drops(0)
  BY DEF Drops, BoardTypes

LEMMA NothingRead ==
    ASSUME BoardTypes, inp' = inp
    PROVE  Reads(0)
  BY DEF Reads, BoardTypes

LEMMA AllLost ==
    ASSUME inp' = <<>>, NEW m \in Nat
    PROVE  Reads(m)
  BY DEF Reads

LEMMA OneRead ==
    ASSUME BoardTypes, inp # <<>>, inp' = Tail(inp)
    PROVE  Reads(1) /\ Head(inp) = inp[1] /\ 1 \in 1..Len(inp)
<1>1. inp \in Seq(Nat) /\ Len(inp) \in Nat /\ Len(inp) # 0
  BY DEF BoardTypes
<1>2. inp' \in Seq(Nat) /\ Len(inp') = Len(inp) - 1
  BY <1>1
<1>3. \A i \in 1..Len(inp') : inp'[i] = inp[i + 1]
  BY <1>1, <1>2
<1>4. QED
  BY <1>1, <1>2, <1>3 DEF Reads

LEMMA BoardPrints ==
    ASSUME BoardTypes, NEW c, NEW ls \in Seq(OutLine), out' = out \o ls,
           \A i \in 1..Len(ls) : ls[i].case \in {0, c}
    PROVE  Prints(c)
<1>1. out \in Seq(OutLine) /\ Len(out) \in Nat /\ Len(ls) \in Nat
  BY DEF BoardTypes
<1>2. /\ out' \in Seq(OutLine) /\ Len(out') = Len(out) + Len(ls)
      /\ \A i \in 1..Len(out) : out'[i] = out[i]
      /\ \A i \in 1..Len(out') :
           i > Len(out) => i - Len(out) \in 1..Len(ls) /\ out'[i] = ls[i - Len(out)]
  BY <1>1, ConcatFacts
<1>3. QED
  BY <1>1, <1>2 DEF Prints

LEMMA WritesTypes ==
    ASSUME BoardTypes, Writes
    PROVE  inp' \in Seq(Nat)
<1>1. inp \in Seq(Nat)
  BY DEF BoardTypes
<1>2. CASE inp' = inp
  BY <1>1, <1>2
<1>3. CASE inp' = <<>>
  BY <1>3
<1>4. CASE \E n \in Nat : inp' = Append(inp, n)
  BY <1>1, <1>4
<1>5. QED
  BY <1>2, <1>3, <1>4 DEF Writes

LEMMA WritesIndex ==
    ASSUME BoardTypes, Writes, StagesApart
    PROVE  \A i \in 1..Len(inp'), k \in Case : inp'[i] = Index(k) =>
             (i \in 1..Len(inp) /\ inp'[i] = inp[i]) \/ (i > Len(inp) /\ k = case)
<1>1. inp \in Seq(Nat) /\ Len(inp) \in Nat
  BY DEF BoardTypes
<1>2. CASE inp' = inp
  BY <1>1, <1>2
<1>3. CASE inp' = <<>>
  BY <1>3
<1>4. CASE \E n \in Nat : inp' = Append(inp, n) /\ \A k \in Case : n = Index(k) => k = case
  <2>1. PICK n \in Nat : inp' = Append(inp, n) /\ \A k \in Case : n = Index(k) => k = case
    BY <1>4
  <2>2. inp' \in Seq(Nat) /\ Len(inp') = Len(inp) + 1
    BY <1>1, <2>1
  <2>3. \A i \in 1..Len(inp') : inp'[i] = IF i <= Len(inp) THEN inp[i] ELSE n
    BY <1>1, <2>1, <2>2
  <2>4. QED
    BY <1>1, <2>1, <2>2, <2>3
<1>5. QED
  BY <1>2, <1>3, <1>4 DEF Writes

-----------------------------------------------------------------------------
(* The order of what speaks of cases. *)

\* A step of the runner at one case.
LEMMA RunnerKeepsOrder ==
    ASSUME Types, StagesApart, Chain, NEW m \in Nat, Drops(m), Writes, Resets, case' = case
    PROVE  Chain'
<1>1. out \in Seq(OutLine) /\ Len(out) \in Nat /\ case \in Nat
  BY CaseFacts DEF Types, BoardTypes, RunTypes, Plan
<1>2. \A i \in 1..Len(out') : i + m \in 1..Len(out) /\ out'[i] = out[i + m]
  BY DEF Drops
<1>3. \A i \in 1..Len(inp'), k \in Case : inp'[i] = Index(k) =>
        (i \in 1..Len(inp) /\ inp'[i] = inp[i]) \/ (i > Len(inp) /\ k = case)
  BY WritesIndex DEF Types
<1>4. Busy' => Busy /\ dev' = dev
  BY DEF Resets, Busy
<1>5. \A i \in 1..Len(inp') : i \in Nat
  OBVIOUS
<1>a. Len(inp) \in Nat /\ case \in Case \cup {0}
  BY DEF Types, BoardTypes, RunTypes, Plan
<1>6. NothingAhead'
  <2>1. \A i \in 1..Len(out') : out'[i].case <= case
    BY <1>2 DEF Chain, NothingAhead
  <2>2. \A i \in 1..Len(inp'), k \in Case : inp'[i] = Index(k) => k <= case
    BY <1>1, <1>3, CaseFacts DEF Chain, NothingAhead
  <2>3. QED
    BY <2>1, <2>2, <1>4 DEF Chain, NothingAhead
<1>7. OutInOrder'
  <2>1. ASSUME NEW i \in 1..Len(out'), NEW j \in 1..Len(out'), i < j, out'[i].case = case, case # 0
        PROVE  out'[j].case \in {0, case}
    <3>1. i + m \in 1..Len(out) /\ j + m \in 1..Len(out) /\ i + m < j + m
      BY <1>2, <2>1
    <3>2. QED
      BY <3>1, <2>1, <1>2 DEF Chain, OutInOrder
  <2>2. QED
    BY <2>1 DEF OutInOrder
<1>8. OutThenDev'
  BY <1>2, <1>4 DEF Chain, OutThenDev
<1>9. OutThenInp'
  BY <1>2, <1>3 DEF Chain, OutThenInp
<1>10. DevThenInp'
  BY <1>3, <1>4 DEF Chain, DevThenInp
<1>11. InpInOrder'
  <2>1. ASSUME NEW i \in 1..Len(inp'), NEW j \in 1..Len(inp'), NEW k \in Case,
               i < j, inp'[i] = Index(case), case # 0, inp'[j] = Index(k)
        PROVE  k = case
    <3>1. case \in Case
      BY <2>1, <1>a
    <3>2. CASE j > Len(inp)
      BY <3>2, <2>1, <1>3
    <3>3. CASE ~(j > Len(inp))
      <4>1. i \in 1..Len(inp) /\ j \in 1..Len(inp)
        BY <3>3, <2>1, <1>a
      <4>2. inp[i] = Index(case) /\ inp[j] = Index(k)
        BY <4>1, <3>1, <2>1, <1>3, <1>a
      <4>3. QED
        BY <4>1, <4>2, <2>1 DEF Chain, InpInOrder
    <3>4. QED
      BY <3>2, <3>3
  <2>2. QED
    BY <2>1 DEF InpInOrder
<1>12. QED
  BY <1>6, <1>7, <1>8, <1>9, <1>10, <1>11 DEF Chain

\* Once the start of the case was seen, all that follows is about it.
LEMMA RunnerKeepsPresent ==
    ASSUME Types, StagesApart, Chain, OnlyPresent, NEW m \in Nat, Drops(m), Writes, Resets,
           case' = case,
           Reached' => \/ Reached
                       \/ m \in 1..Len(out) /\ out[m].case = case /\ case # 0
    PROVE  OnlyPresent'
<1>1. out \in Seq(OutLine) /\ Len(out) \in Nat
  BY DEF Types, BoardTypes
<1>2. \A i \in 1..Len(out') : i + m \in 1..Len(out) /\ out'[i] = out[i + m]
  BY DEF Drops
<1>3. \A i \in 1..Len(inp'), k \in Case : inp'[i] = Index(k) =>
        (i \in 1..Len(inp) /\ inp'[i] = inp[i]) \/ (i > Len(inp) /\ k = case)
  BY WritesIndex DEF Types
<1>4. Busy' => Busy /\ dev' = dev
  BY DEF Resets, Busy
<1>5. CASE Reached
  <2>1. \A i \in 1..Len(out') : out'[i].case \in {0, case}
    BY <1>2, <1>5 DEF OnlyPresent
  <2>2. Busy' => dev'.case = case
    BY <1>4, <1>5 DEF OnlyPresent
  <2>3. \A i \in 1..Len(inp'), k \in Case : inp'[i] = Index(k) => k = case
    BY <1>3, <1>5 DEF OnlyPresent
  <2>4. QED
    BY <2>1, <2>2, <2>3 DEF OnlyPresent
<1>6. CASE m \in 1..Len(out) /\ out[m].case = case /\ case # 0
  <2>1. ASSUME NEW i \in 1..Len(out')
        PROVE  out'[i].case \in {0, case}
    <3>1. m < i + m /\ i + m \in 1..Len(out)
      BY <1>2, <1>6
    <3>2. QED
      BY <3>1, <1>2, <1>6 DEF Chain, OutInOrder
  <2>2. Busy' => dev'.case = case
    BY <1>4, <1>6 DEF Chain, OutThenDev
  <2>3. \A i \in 1..Len(inp'), k \in Case : inp'[i] = Index(k) => k = case
    BY <1>3, <1>6 DEF Chain, OutThenInp
  <2>4. QED
    BY <2>1, <2>2, <2>3 DEF OnlyPresent
<1>7. CASE ~Reached'
  BY <1>7 DEF OnlyPresent
<1>8. QED
  BY <1>5, <1>6, <1>7

\* A case that begins is younger than all that speaks of cases.
LEMMA NewCaseIsFresh ==
    ASSUME Types, StagesApart, Chain, Drops(0), Writes, Resets, case' \in Case, case' > case
    PROVE  Chain'
<1>1. /\ out \in Seq(OutLine) /\ Len(out) \in Nat /\ case \in Nat /\ case' \in Nat
      /\ Len(inp) \in Nat
  BY CaseFacts DEF Types, BoardTypes, RunTypes, Plan
<1>2. \A i \in 1..Len(out) : out[i].case \in Nat
  <2>1. \A i \in 1..Len(out) : out[i] \in OutLine
    BY <1>1
  <2>2. QED
    BY <2>1, LineFacts, CaseFacts
<1>3. \A i \in 1..Len(out') : out'[i].case < case'
  BY <1>1, <1>2 DEF Chain, NothingAhead, Drops
<1>4. Busy' => Busy /\ dev' = dev
  BY DEF Resets, Busy
<1>5. Busy => dev.case \in Nat
  BY CaseFacts DEF Types, BoardTypes
<1>6. Busy' => dev'.case < case'
  BY <1>1, <1>4, <1>5 DEF Chain, NothingAhead
<1>7. \A i \in 1..Len(inp'), k \in Case : inp'[i] = Index(k) =>
        (i \in 1..Len(inp) /\ inp'[i] = inp[i]) \/ (i > Len(inp) /\ k = case)
  BY WritesIndex DEF Types
<1>8. \A i \in 1..Len(inp'), k \in Case : inp'[i] = Index(k) => k <= case
  BY <1>1, <1>7, CaseFacts DEF Chain, NothingAhead
<1>9. \A i \in 1..Len(inp'), k \in Case : inp'[i] = Index(k) => k < case'
  BY <1>1, <1>8, CaseFacts
<1>10. \A i \in 1..Len(out') : out'[i].case <= case' /\ out'[i].case # case'
  <2>1. \A i \in 1..Len(out') : out'[i].case \in Nat
    BY <1>2 DEF Drops
  <2>2. QED
    BY <2>1, <1>1, <1>3
<1>11. Busy' => dev'.case <= case' /\ dev'.case # case'
  BY <1>1, <1>4, <1>5, <1>6
<1>12. \A i \in 1..Len(inp'), k \in Case : inp'[i] = Index(k) => k <= case' /\ k # case'
  BY <1>1, <1>9, CaseFacts
<1>13. NothingAhead'
  BY <1>10, <1>11, <1>12 DEF NothingAhead
<1>14. OutInOrder' /\ OutThenDev' /\ OutThenInp'
  BY <1>10 DEF OutInOrder, OutThenDev, OutThenInp
<1>15. DevThenInp'
  BY <1>11 DEF DevThenInp
<1>16. InpInOrder'
  BY <1>12 DEF InpInOrder
<1>17. QED
  BY <1>13, <1>14, <1>15, <1>16 DEF Chain

\* The board speaks of the case it is at, or of the one whose index it reads.
LEMMA BoardKeepsOrder ==
    ASSUME Types, Chain, OnlyPresent, pc' = pc, case' = case,
           NEW c \in Case \cup {0}, Prints(c),
           NEW m \in Nat, Reads(m),
           \/ c = 0
           \/ Busy /\ c = dev.case
           \/ ~Busy /\ m = 1 /\ 1 \in 1..Len(inp) /\ inp[1] = Index(c),
           Busy' => c # 0 /\ dev'.case = c
    PROVE  Chain' /\ OnlyPresent'
<1>1. /\ out \in Seq(OutLine) /\ Len(out) \in Nat /\ Len(inp) \in Nat /\ case \in Nat
      /\ case \in Case \cup {0}
  BY CaseFacts DEF Types, BoardTypes, RunTypes, Plan
<1>2. /\ \A i \in 1..Len(out) : out'[i] = out[i]
      /\ \A i \in 1..Len(out') : i > Len(out) => out'[i].case \in {0, c}
      /\ Len(out') \in Nat
  BY DEF Prints
<1>3. \A i \in 1..Len(out') : i \in 1..Len(out) \/ i > Len(out)
  BY <1>1, <1>2
<1>4. \A j \in 1..Len(inp') : j + m \in 1..Len(inp) /\ inp'[j] = inp[j + m]
  BY DEF Reads
<1>5. c <= case
  BY <1>1, CaseFacts DEF Chain, NothingAhead
<1>6. \A i \in 1..Len(out) : out[i].case = case /\ case # 0 => c \in {0, case}
  BY <1>1 DEF Chain, OutThenDev, OutThenInp
<1>7. c = case /\ case # 0 => \A j \in 1..Len(inp'), k \in Case : inp'[j] = Index(k) => k = case
  <2>1. ASSUME c = case, case # 0, NEW j \in 1..Len(inp'), NEW k \in Case, inp'[j] = Index(k)
        PROVE  k = case
    <3>1. j + m \in 1..Len(inp) /\ inp[j + m] = Index(k)
      BY <2>1, <1>4
    <3>2. CASE Busy /\ c = dev.case
      BY <3>1, <3>2, <2>1 DEF Chain, DevThenInp
    <3>3. CASE m = 1 /\ 1 \in 1..Len(inp) /\ inp[1] = Index(c)
      <4>1. 1 < j + m
        BY <3>3
      <4>2. QED
        BY <3>1, <3>3, <4>1, <2>1 DEF Chain, InpInOrder
    <3>4. QED
      BY <3>2, <3>3, <2>1
  <2>2. QED
    BY <2>1
<1>8. NothingAhead'
  <2>1. \A i \in 1..Len(out') : out'[i].case <= case
    <3>1. ASSUME NEW i \in 1..Len(out')
          PROVE  out'[i].case <= case
      <4>1. CASE i \in 1..Len(out)
        BY <4>1, <1>2 DEF Chain, NothingAhead
      <4>2. CASE i > Len(out)
        BY <4>2, <1>1, <1>2, <1>5
      <4>3. QED
        BY <4>1, <4>2, <1>3
    <3>2. QED
      BY <3>1
  <2>2. Busy' => dev'.case <= case
    BY <1>5
  <2>3. \A i \in 1..Len(inp'), k \in Case : inp'[i] = Index(k) => k <= case
    BY <1>4 DEF Chain, NothingAhead
  <2>4. QED
    BY <2>1, <2>2, <2>3 DEF NothingAhead
<1>9. OutInOrder'
  <2>1. ASSUME NEW i \in 1..Len(out'), NEW j \in 1..Len(out'), i < j, out'[i].case = case, case # 0
        PROVE  out'[j].case \in {0, case}
    <3>1. CASE j \in 1..Len(out)
      <4>1. i \in 1..Len(out)
        BY <3>1, <2>1, <1>1
      <4>2. QED
        BY <3>1, <4>1, <2>1, <1>2 DEF Chain, OutInOrder
    <3>2. CASE j > Len(out) /\ i \in 1..Len(out)
      BY <3>2, <2>1, <1>2, <1>6
    <3>3. CASE j > Len(out) /\ i > Len(out)
      <4>1. c = case
        BY <3>3, <2>1, <1>2
      <4>2. QED
        BY <4>1, <3>3, <1>2
    <3>4. QED
      BY <3>1, <3>2, <3>3, <1>3
  <2>2. QED
    BY <2>1 DEF OutInOrder
<1>10. OutThenDev'
  <2>1. ASSUME NEW i \in 1..Len(out'), out'[i].case = case, Busy'
        PROVE  dev'.case = case
    <3>1. c # 0 /\ dev'.case = c
      BY <2>1
    <3>2. CASE i \in 1..Len(out) /\ case # 0
      BY <3>1, <3>2, <2>1, <1>2, <1>6
    <3>3. CASE i > Len(out) /\ case # 0
      BY <3>1, <3>3, <2>1, <1>2
    <3>4. case # 0
      BY <3>1, <1>5, CaseFacts
    <3>5. QED
      BY <3>2, <3>3, <3>4, <1>3
  <2>2. QED
    BY <2>1 DEF OutThenDev
<1>11. OutThenInp'
  <2>1. ASSUME NEW i \in 1..Len(out'), NEW j \in 1..Len(inp'), NEW k \in Case,
               out'[i].case = case, case # 0, inp'[j] = Index(k)
        PROVE  k = case
    <3>1. CASE i \in 1..Len(out)
      BY <3>1, <2>1, <1>2, <1>4 DEF Chain, OutThenInp
    <3>2. CASE i > Len(out)
      BY <3>2, <2>1, <1>2, <1>7
    <3>3. QED
      BY <3>1, <3>2, <1>3
  <2>2. QED
    BY <2>1 DEF OutThenInp
<1>12. DevThenInp'
  <2>1. Busy' /\ dev'.case = case => c = case /\ case # 0
    OBVIOUS
  <2>2. QED
    BY <2>1, <1>7 DEF DevThenInp
<1>13. InpInOrder'
  <2>1. ASSUME NEW i \in 1..Len(inp'), NEW j \in 1..Len(inp'), NEW k \in Case,
               i < j, inp'[i] = Index(case), case # 0, inp'[j] = Index(k)
        PROVE  k = case
    <3>1. i + m \in 1..Len(inp) /\ j + m \in 1..Len(inp) /\ i + m < j + m
      BY <2>1, <1>4
    <3>2. QED
      BY <3>1, <2>1, <1>4 DEF Chain, InpInOrder
  <2>2. QED
    BY <2>1 DEF InpInOrder
<1>14. OnlyPresent'
  <2>1. SUFFICES ASSUME Reached
                 PROVE  /\ \A i \in 1..Len(out') : out'[i].case \in {0, case}
                        /\ Busy' => dev'.case = case
                        /\ \A j \in 1..Len(inp'), k \in Case : inp'[j] = Index(k) => k = case
    BY DEF OnlyPresent, Reached
  <2>2. c \in {0, case}
    BY <2>1 DEF OnlyPresent
  <2>3. \A i \in 1..Len(out') : out'[i].case \in {0, case}
    BY <2>1, <2>2, <1>2, <1>3 DEF OnlyPresent
  <2>4. \A j \in 1..Len(inp'), k \in Case : inp'[j] = Index(k) => k = case
    BY <2>1, <1>4 DEF OnlyPresent
  <2>5. QED
    BY <2>2, <2>3, <2>4
<1>15. QED
  BY <1>8, <1>9, <1>10, <1>11, <1>12, <1>13, <1>14 DEF Chain

-----------------------------------------------------------------------------
(* The steps of the runner. *)

LEMMA PlanIsFixed ==
    ASSUME config' = config
    PROVE  Plan' = Plan
  BY DEF Plan, Runs, Selected

\* What all steps of the runner at one case have in common; m lines are matched.
Moves(m) ==
    /\ Drops(m) /\ Writes /\ Resets
    /\ config' = config /\ case' = case /\ did' = did
    /\ Reached' => \/ Reached
                   \/ m \in 1..Len(out) /\ out[m].case = case /\ case # 0

LEMMA ZeroWritten ==
    ASSUME Write(0)
    PROVE  Writes
  BY CaseFacts DEF Write, Writes

LEMMA IndexWritten ==
    ASSUME case \in Case, Write(Index(case))
    PROVE  Writes
  BY CaseFacts DEF Write, Writes

LEMMA StageWritten ==
    ASSUME case \in Case, stage \in Nat, stage < LastStage(case), Write(stage + 1)
    PROVE  Writes
<1>1. stage + 1 \in 1..LastStage(case) /\ stage + 1 \in Nat
  BY CaseFacts
<1>2. StagesApart => \A k \in Case : stage + 1 # Index(k)
  BY <1>1 DEF StagesApart
<1>3. QED
  BY <1>1, <1>2 DEF Write, Writes

LEMMA HardResetMoves ==
    ASSUME NEW p, HardReset(p)
    PROVE  Writes /\ Resets /\ pc' \in {p, "reset"}
<1>1. CASE config.kind = "board" /\ inp' = <<>> /\ pc' = p
            /\ dev' = [st |-> "boot", case |-> 0, stage |-> 0]
  BY <1>1 DEF Writes, Resets
<1>2. CASE Write(0) /\ pc' \in {p, "reset"} /\ dev' = dev
  BY <1>2, ZeroWritten DEF Resets
<1>3. QED
  BY <1>1, <1>2 DEF HardReset, ConfirmWrite

LEMMA WriteAgainMoves ==
    ASSUME Types, WriteAgain
    PROVE  Moves(0) /\ RunTypes' /\ report' = report
<1>1. /\ out' = out /\ dev' = dev /\ UNCHANGED <<config, case, pc, stage, failed, did, report>>
      /\ pc \in {"menu", "reset", "name", "stageName"}
  BY DEF WriteAgain
<1>2. Writes
  <2>1. CASE pc \in {"name", "stageName"}
    <3>1. case \in Case
      BY <2>1 DEF Types, RunTypes, Plan
    <3>2. QED
      BY <2>1, <3>1, IndexWritten DEF WriteAgain, Repeated
  <2>2. CASE pc \notin {"name", "stageName"}
    BY <2>2, ZeroWritten DEF WriteAgain, Repeated
  <2>3. QED
    BY <2>1, <2>2
<1>3. Drops(0)
  BY <1>1, NothingDropped DEF Types
<1>4. RunTypes'
  BY <1>1, PlanIsFixed DEF Types, RunTypes, LastStage
<1>5. QED
  BY <1>1, <1>2, <1>3, <1>4 DEF Moves, Resets, Reached

LEMMA AskForMenuMoves ==
    ASSUME Types, AskForMenu
    PROVE  (\E m \in Nat : Moves(m)) /\ RunTypes' /\ report' = report
<1> DEFINE m == Find({"press"})
<1>1. /\ pc = "press" /\ Consume(m) /\ Write(0) /\ pc' = "menu" /\ dev' = dev
      /\ UNCHANGED <<config, case, stage, failed, did, report>>
  BY DEF AskForMenu, ConfirmWrite
<1>2. m \in Nat
  BY FindFacts DEF Types, BoardTypes
<1> HIDE DEF m
<1>3. Drops(m) /\ Writes /\ Resets
  BY <1>1, <1>2, ConsumeDrops, ZeroWritten DEF Types, Resets
<1>4. RunTypes'
  BY <1>1, PlanIsFixed DEF Types, RunTypes
<1>5. Moves(m)
  BY <1>1, <1>3 DEF Moves, Reached
<1>6. QED
  BY <1>1, <1>2, <1>4, <1>5

LEMMA SeeMenuMoves ==
    ASSUME Types, SeeMenu
    PROVE  (\E m \in Nat : Moves(m)) /\ RunTypes' /\ report' = report
<1> DEFINE m == Find({"menu"}) + 1
<1>1. /\ pc = "menu" /\ Consume(m) /\ HardReset("next")
      /\ UNCHANGED <<config, case, stage, failed, did, report>>
  BY DEF SeeMenu
<1>2. m \in Nat
  BY FindFacts DEF Types, BoardTypes
<1> HIDE DEF m
<1>3. Drops(m) /\ Writes /\ Resets /\ pc' \in {"next", "reset"}
  BY <1>1, <1>2, ConsumeDrops, HardResetMoves DEF Types
<1>4. RunTypes'
  BY <1>1, <1>3, PlanIsFixed DEF Types, RunTypes
<1>5. Moves(m)
  BY <1>1, <1>3 DEF Moves, Reached
<1>6. QED
  BY <1>1, <1>2, <1>4, <1>5

LEMMA ConfirmResetMoves ==
    ASSUME Types, ConfirmReset
    PROVE  (\E m \in Nat : Moves(m)) /\ RunTypes' /\ report' = report
           /\ pc = "reset" /\ (pc' = "next" => case = 0)
<1> DEFINE m == Find(Ready)
<1>1. /\ pc = "reset" /\ Consume(m) /\ pc' = (IF case = 0 THEN "next" ELSE "ready")
      /\ UNCHANGED <<config, case, stage, failed, did, report, inp, dev>>
  BY DEF ConfirmReset
<1>2. m \in Nat
  BY FindFacts DEF Types, BoardTypes
<1> HIDE DEF m
<1>3. Drops(m) /\ Writes /\ Resets
  BY <1>1, <1>2, ConsumeDrops DEF Types, Writes, Resets
<1>4. RunTypes'
  BY <1>1, PlanIsFixed DEF Types, RunTypes
<1>5. Moves(m)
  BY <1>1, <1>3 DEF Moves, Reached
<1>6. QED
  BY <1>1, <1>2, <1>4, <1>5

LEMMA MenuFailsMoves ==
    ASSUME Types, MenuFails
    PROVE  Moves(0) /\ RunTypes' /\ report' = report /\ case = 0
<1>1. /\ pc' = "raised" /\ case = 0
      /\ UNCHANGED <<config, case, stage, failed, did, report, out, inp, dev>>
  BY DEF MenuFails, boardVars
<1>2. Drops(0) /\ Writes /\ Resets
  BY <1>1, NothingDropped DEF Types, Writes, Resets
<1>3. RunTypes'
  BY <1>1, PlanIsFixed DEF Types, RunTypes
<1>4. QED
  BY <1>1, <1>2, <1>3 DEF Moves, Reached

LEMMA StartCaseMoves ==
    ASSUME Types, StartCase
    PROVE  (\E m \in Nat : Moves(m)) /\ RunTypes' /\ report' = report
<1>1. PICK m \in 0..Len(out) : Consume(m)
  BY DEF StartCase
<1>2. /\ pc = "ready" /\ Write(Index(case)) /\ pc' = "name" /\ dev' = dev
      /\ UNCHANGED <<config, case, stage, failed, did, report>>
  BY DEF StartCase, ConfirmWrite
<1>3. m \in Nat /\ case \in Case
  BY <1>2 DEF Types, RunTypes, BoardTypes, Plan
<1>4. Drops(m) /\ Writes /\ Resets
  BY <1>1, <1>2, <1>3, ConsumeDrops, IndexWritten DEF Types, Resets
<1>5. RunTypes'
  BY <1>2, PlanIsFixed DEF Types, RunTypes
<1>6. Moves(m)
  BY <1>2, <1>4 DEF Moves, Reached
<1>7. QED
  BY <1>2, <1>3, <1>5, <1>6

\* The case is recorded, under the name of case n.
Recorded(r, n) ==
    /\ r \in Said /\ n \in Case
    /\ report' = Append(report, [asked |-> case, named |-> n, result |-> r])
    /\ pc' = "next"
    /\ case # 0 /\ pc # "next"

LEMMA StartFailsMoves ==
    ASSUME Types, StartFails
    PROVE  /\ Moves(0) /\ RunTypes' /\ pc # "next"
           /\ (report' = report /\ pc' # "next") \/ Recorded("SKIPPED", case)
<1>1. /\ pc \in {"reset", "ready", "name"} /\ case # 0 /\ out' = out
      /\ UNCHANGED <<config, case, stage, failed, did>>
  BY DEF StartFails
<1>2. CASE HardReset("ready") /\ report' = report
  <2>1. Writes /\ Resets /\ pc' \in {"ready", "reset"}
    BY <1>2, HardResetMoves
  <2>2. RunTypes'
    BY <1>1, <2>1, PlanIsFixed DEF Types, RunTypes
  <2>3. Drops(0)
    BY <1>1, NothingDropped DEF Types
  <2>4. QED
    BY <1>1, <1>2, <2>1, <2>2, <2>3 DEF Moves, Reached
<1>3. CASE /\ report' = Append(report, [asked |-> case, named |-> case, result |-> "SKIPPED"])
           /\ pc' = "next" /\ inp' = inp /\ dev' = dev
  <2>1. Writes /\ Resets
    BY <1>3 DEF Writes, Resets
  <2>2. RunTypes'
    BY <1>1, <1>3, PlanIsFixed DEF Types, RunTypes
  <2>3. Drops(0)
    BY <1>1, NothingDropped DEF Types
  <2>4. case \in Case
    BY <1>1 DEF Types, RunTypes, Plan
  <2>5. QED
    BY <1>1, <1>3, <2>1, <2>2, <2>3, <2>4 DEF Moves, Reached, Recorded, Said
<1>4. QED
  BY <1>2, <1>3 DEF StartFails

LEMMA SeeNameMoves ==
    ASSUME Types, SeeName
    PROVE  (\E m \in Nat : Moves(m)) /\ RunTypes' /\ report' = report /\ pc' # "next" /\ pc # "next"
<1> DEFINE m == Find({"name"})
<1>1. /\ pc \in {"name", "stageName"} /\ m # 0 /\ Consume(m) /\ dev' = dev
      /\ UNCHANGED <<config, case, failed, did, report>>
      /\ IF LastStage(case) = 0 THEN pc' = "result" /\ UNCHANGED <<stage, inp>> ELSE EnterStage
  BY DEF SeeName
<1>2. /\ m \in Nat /\ m \in 1..Len(out) /\ out[m].t = "name" /\ out[m].case = case
  BY <1>1, FindFacts DEF Types, BoardTypes
<1> HIDE DEF m
<1>3. case \in Case /\ case # 0 /\ stage \in Nat /\ LastStage(case) \in Nat
  BY <1>1, CaseFacts DEF Types, RunTypes, Plan
<1>4. Drops(m) /\ Resets
  BY <1>1, <1>2, ConsumeDrops DEF Types, Resets
<1>5. Writes /\ RunTypes'
  <2>1. CASE LastStage(case) = 0
    <3>1. Writes
      BY <1>1, <2>1 DEF Writes
    <3>2. pc' = "result" /\ stage' = stage
      BY <1>1, <2>1
    <3>3. QED
      BY <1>1, <1>3, <3>1, <3>2, PlanIsFixed DEF Types, RunTypes
  <2>2. CASE LastStage(case) # 0
    <3>1. /\ stage' = stage + 1 /\ Write(stage + 1)
          /\ pc' = IF stage + 1 = LastStage(case) THEN "result" ELSE "stageReady"
      BY <1>1, <2>2 DEF EnterStage
    <3>2. stage < LastStage(case)
      BY <1>1, <1>3, <2>2 DEF Types, RunTypes
    <3>3. Writes
      BY <1>3, <3>1, <3>2, StageWritten
    <3>4. stage' \in Nat /\ (pc' = "stageReady" => stage' < LastStage(case))
      BY <1>3, <3>1, <3>2
    <3>5. pc' \in {"result", "stageReady"}
      BY <3>1
    <3>6. LastStage(case)' = LastStage(case)
      BY <1>1 DEF LastStage
    <3>7. QED
      BY <1>1, <1>3, <3>3, <3>4, <3>5, <3>6, PlanIsFixed DEF Types, RunTypes
  <2>3. QED
    BY <2>1, <2>2
<1>6. pc' \in {"result", "stageReady"}
  BY <1>1 DEF EnterStage
<1>7. Moves(m)
  BY <1>1, <1>2, <1>3, <1>4, <1>5 DEF Moves
<1>8. QED
  BY <1>1, <1>2, <1>5, <1>6, <1>7

LEMMA ParsedTypes ==
    ASSUME Types, case \in Case, NEW n \in 1..Len(out)
    PROVE  Parsed(n).case \in Case /\ Parsed(n).result \in Outcomes
<1>1. CASE Parsed(n) = Line("result", case, "FAIL")
  BY <1>1 DEF Line
<1>2. CASE \E j \in 1..Len(out) : out[j].t = "result" /\ Parsed(n) = out[j]
  <2>1. PICK j \in 1..Len(out) : out[j].t = "result" /\ Parsed(n) = out[j]
    BY <1>2
  <2>2. out[j] \in OutLine
    BY DEF Types, BoardTypes
  <2>3. QED
    BY <2>1, <2>2, LineFacts
<1>3. QED
  BY <1>1, <1>2, ParsedFacts DEF Types, BoardTypes

\* The case a result is parsed for is the present one, when the start was seen.
LEMMA ParsedIsPresent ==
    ASSUME Types, OnlyPresent, Heard, Reached, NEW n \in 1..Len(out)
    PROVE  /\ Parsed(n).case = case
           /\ Got(Parsed(n).result)
<1>1. CASE Parsed(n) = Line("result", case, "FAIL")
  BY <1>1 DEF Line, Got
<1>2. CASE \E j \in 1..Len(out) : out[j].t = "result" /\ Parsed(n) = out[j]
  <2>1. PICK j \in 1..Len(out) : out[j].t = "result" /\ Parsed(n) = out[j]
    BY <1>2
  <2>2. out[j] \in OutLine
    BY DEF Types, BoardTypes
  <2>3. out[j].case \in Case /\ out[j].result \in Outcomes
    BY <2>1, <2>2, LineFacts
  <2>4. out[j].case = case
    BY <2>3, CaseFacts DEF OnlyPresent
  <2>5. \E s \in 0..LastStage(case) : <<case, s, out[j].result>> \in did
    BY <2>1, <2>4 DEF Heard
  <2>6. QED
    BY <2>1, <2>3, <2>4, <2>5 DEF Got
<1>3. QED
  BY <1>1, <1>2, ParsedFacts DEF Types, BoardTypes

LEMMA NextStageMoves ==
    ASSUME Types, NextStage
    PROVE  /\ (\E m \in Nat : Moves(m)) /\ RunTypes' /\ report' = report
           /\ OnlyPresent /\ Heard /\ FailedIsPresent => FailedIsPresent'
           /\ pc' # "next" /\ pc # "next"
<1> DEFINE m == Find(Ready)
<1>1. /\ pc = "stageReady" /\ m # 0 /\ Consume(m) /\ Write(Index(case)) /\ pc' = "stageName"
      /\ UNCHANGED <<config, case, stage, did, report, dev>>
      /\ failed' \in {failed, Parsed(m).case}
  BY DEF NextStage, ConfirmWrite
<1>2. m \in Nat /\ m \in 1..Len(out)
  BY <1>1, FindFacts DEF Types, BoardTypes
<1> HIDE DEF m
<1>3. case \in Case
  BY <1>1 DEF Types, RunTypes, Plan
<1>4. Drops(m) /\ Writes /\ Resets
  BY <1>1, <1>2, <1>3, ConsumeDrops, IndexWritten DEF Types, Resets
<1>5. LastStage(case)' = LastStage(case) /\ failed' \in Case \cup {0}
  BY <1>1, <1>2, <1>3, ParsedTypes DEF LastStage, Types, RunTypes
<1>6. RunTypes'
  BY <1>1, <1>5, PlanIsFixed DEF Types, RunTypes
<1>7. Moves(m)
  BY <1>1, <1>4 DEF Moves, Reached
<1>8. OnlyPresent /\ Heard /\ FailedIsPresent => FailedIsPresent'
  <2>1. OnlyPresent /\ Heard => Parsed(m).case = case
    BY <1>1, <1>2, ParsedIsPresent DEF Reached
  <2>2. QED
    BY <2>1, <1>1 DEF FailedIsPresent
<1>9. QED
  BY <1>1, <1>2, <1>6, <1>7, <1>8

LEMMA StageFailsMoves ==
    ASSUME Types, StageFails
    PROVE  Moves(0) /\ RunTypes' /\ report' = report /\ pc' # "next" /\ pc # "next"
<1>1. /\ pc \in {"stageReady", "stageName"} /\ pc' = "result"
      /\ UNCHANGED <<config, case, stage, failed, did, report, out, inp, dev>>
  BY DEF StageFails, boardVars
<1>2. Drops(0) /\ Writes /\ Resets
  BY <1>1, NothingDropped DEF Types, Writes, Resets
<1>3. RunTypes'
  BY <1>1, PlanIsFixed DEF Types, RunTypes
<1>4. QED
  BY <1>1, <1>2, <1>3 DEF Moves, Reached

\* What Record adds to the report.
LEMMA RecordFacts ==
    ASSUME Types, pc = "result", NEW r, r.case \in Case, r.result \in Outcomes, Record(r)
    PROVE  (failed # 0 /\ Recorded("FAIL", failed)) \/ (failed = 0 /\ Recorded(r.result, r.case))
<1>1. case # 0 /\ failed \in Case \cup {0}
  BY DEF Types, RunTypes
<1>2. CASE failed = 0
  BY <1>1, <1>2 DEF Record, Recorded, Said
<1>3. CASE failed # 0
  BY <1>1, <1>3 DEF Record, Recorded, Said
<1>4. QED
  BY <1>2, <1>3

LEMMA SeeResultMoves ==
    ASSUME Types, SeeResult
    PROVE  /\ \E m \in Nat : Moves(m)
           /\ RunTypes'
           /\ \E r \in Outcomes, n \in Case :
                /\ Recorded(r, n)
                /\ OnlyPresent /\ Heard /\ FailedIsPresent =>
                     /\ n = case
                     /\ Got(r)
<1> DEFINE m == Find({"end"})
<1>1. /\ pc = "result" /\ m # 0 /\ Consume(m) /\ Record(Parsed(m)) /\ pc' = "next"
      /\ UNCHANGED <<config, case, stage, failed, did, inp, dev>>
  BY DEF SeeResult, Record
<1>2. m \in Nat /\ m \in 1..Len(out)
  BY <1>1, FindFacts DEF Types, BoardTypes
<1> HIDE DEF m
<1>3. Drops(m) /\ Writes /\ Resets
  BY <1>1, <1>2, ConsumeDrops DEF Types, Writes, Resets
<1>4. RunTypes'
  BY <1>1, PlanIsFixed DEF Types, RunTypes
<1>5. Moves(m)
  BY <1>1, <1>3 DEF Moves, Reached
<1>6. case \in Case
  BY <1>1 DEF Types, RunTypes, Plan
<1>7. PICK x : x = Parsed(m)
  OBVIOUS
<1>8. x.case \in Case /\ x.result \in Outcomes
  BY <1>2, <1>6, <1>7, ParsedTypes
<1>9. OnlyPresent /\ Heard =>
        /\ x.case = case
        /\ Got(x.result)
  BY <1>1, <1>2, <1>7, ParsedIsPresent DEF Reached
<1>10. (failed # 0 /\ Recorded("FAIL", failed)) \/ (failed = 0 /\ Recorded(x.result, x.case))
  BY <1>1, <1>7, <1>8, RecordFacts
<1>11. CASE failed # 0 /\ Recorded("FAIL", failed)
  <2>1. failed \in Case
    BY <1>11 DEF Recorded
  <2>2. FailedIsPresent => failed = case
    BY <1>11 DEF FailedIsPresent
  <2>3. QED
    BY <2>1, <2>2, <1>2, <1>4, <1>5, <1>11 DEF Got
<1>12. CASE failed = 0 /\ Recorded(x.result, x.case)
  BY <1>2, <1>4, <1>5, <1>8, <1>9, <1>12
<1>13. QED
  BY <1>10, <1>11, <1>12

LEMMA NoResultMoves ==
    ASSUME Types, NoResult
    PROVE  /\ Moves(0) /\ RunTypes'
           /\ \E n \in Case : Recorded("FAIL", n) /\ (FailedIsPresent => n = case)
<1>1. /\ pc = "result" /\ pc' = "next"
      /\ UNCHANGED <<config, case, stage, failed, did, out, inp, dev>>
  BY DEF NoResult, Record, boardVars
<1>2. Drops(0) /\ Writes /\ Resets
  BY <1>1, NothingDropped DEF Types, Writes, Resets
<1>3. RunTypes'
  BY <1>1, PlanIsFixed DEF Types, RunTypes
<1>4. case \in Case
  BY <1>1 DEF Types, RunTypes, Plan
<1>5. PICK x : x = Line("result", case, "FAIL")
  OBVIOUS
<1>6. x.case = case /\ x.result = "FAIL"
  BY <1>5 DEF Line
<1>7. Record(x)
  BY <1>5 DEF NoResult
<1>8. (failed # 0 /\ Recorded("FAIL", failed)) \/ (failed = 0 /\ Recorded("FAIL", case))
  BY <1>1, <1>4, <1>6, <1>7, RecordFacts
<1>9. \E n \in Case : Recorded("FAIL", n) /\ (FailedIsPresent => n = case)
  BY <1>8 DEF FailedIsPresent, Recorded
<1>10. QED
  BY <1>1, <1>2, <1>3, <1>9 DEF Moves, Reached

\* A case begins.
LEMMA NextCaseMoves ==
    ASSUME Types, NextCase
    PROVE  /\ Drops(0) /\ Writes /\ Resets /\ RunTypes'
           /\ case' \in Case /\ case' > case /\ UNCHANGED <<config, did, report, out>>
           /\ \A k \in Plan : k > case => case' <= k
           /\ pc = "next" /\ pc' \in {"reset", "ready"} /\ failed' = 0
<1>1. /\ pc = "next" /\ case' \in Rest /\ \A k \in Rest : case' <= k
      /\ stage' = 0 /\ failed' = 0 /\ UNCHANGED <<config, did, report, out>>
  BY DEF NextCase
<1>2. Writes /\ Resets /\ pc' \in {"reset", "ready"}
  <2>1. CASE config.reset
    BY <2>1, HardResetMoves DEF NextCase
  <2>2. CASE ~config.reset
    BY <2>2 DEF NextCase, Writes, Resets
  <2>3. QED
    BY <2>1, <2>2
<1>3. case' \in Plan /\ case' \in Case /\ case' > case /\ case' # 0
  BY <1>1, CaseFacts DEF Rest, Plan
<1>4. RunTypes'
  BY <1>1, <1>2, <1>3, PlanIsFixed DEF Types, RunTypes
<1>5. \A k \in Plan : k > case => case' <= k
  BY <1>1 DEF Rest
<1>6. QED
  BY <1>1, <1>2, <1>3, <1>4, <1>5, NothingDropped DEF Types

-----------------------------------------------------------------------------
(* The steps of the board. *)

\* Case c is the one the board is at or whose index it reads, and it speaks of no
\* other; c is 0 if it speaks of none.
SpeaksOf(c, m) ==
    \/ c = 0
    \/ Busy /\ c = dev.case
    \/ dev.st = "menu" /\ m = 1 /\ 1 \in 1..Len(inp) /\ inp[1] = Index(c)

\* The board gets to no outcome but of the case it is at.
Gets(es) == \A k, s, r : <<k, s, r>> \in es => Busy /\ k = dev.case

Goes(c, m) ==
    /\ config' = config /\ UNCHANGED runnerVars /\ dev.st # "hung"
    /\ Gets(did' \ did)
    /\ Busy' /\ ~Busy => \E i \in 1..Len(out') : out'[i].t = "name" /\ out'[i].case = c
    /\ Prints(c) /\ Reads(m) /\ SpeaksOf(c, m)
    /\ Busy' => c # 0 /\ dev'.case = c

DevType ==
    [st : {"boot", "menu", "sub", "run", "ended", "prompt", "hung"}, case : Case \cup {0}, stage : Nat]

LEMMA BoardStep ==
    ASSUME Types, Heard, NEW c \in Case \cup {0}, NEW m \in Nat, NEW x \in DevType,
           NEW ls \in Seq(OutLine), NEW es, Board(x, ls, es), Reads(m), SpeaksOf(c, m),
           dev.st # "hung", Gets(es),
           x.st \in {"sub", "run", "ended"} /\ ~Busy =>
             \E i \in 1..Len(ls) : ls[i].t = "name" /\ ls[i].case = c,
           \A i \in 1..Len(ls) : ls[i].case \in {0, c},
           \A i \in 1..Len(ls) : ls[i].t = "result" =>
             \E s \in 0..LastStage(ls[i].case) : <<ls[i].case, s, ls[i].result>> \in es,
           x.st \in {"sub", "run", "ended"} => c \in Case /\ x.case = c /\ x.stage \in 0..LastStage(c)
    PROVE  Goes(c, m) /\ BoardTypes' /\ Heard' /\ did \subseteq did'
<1>1. /\ dev' = x /\ out' = out \o ls /\ did' = did \cup es
      /\ config' = config /\ UNCHANGED runnerVars
  BY DEF Board
<1>2. Prints(c)
  BY <1>1, BoardPrints DEF Types
<1>3. Busy' => c # 0 /\ c \in Case /\ dev'.case = c /\ dev'.stage \in 0..LastStage(c)
  BY <1>1, CaseFacts DEF Busy
<1>4. BoardTypes'
  <2>1. out' \in Seq(OutLine) /\ inp' \in Seq(Nat)
    BY <1>2 DEF Prints, Reads
  <2>2. dev' \in DevType
    BY <1>1
  <2>3. \A k \in Case : LastStage(k)' = LastStage(k)
    BY DEF LastStage
  <2>4. (Busy => dev.case \in Case /\ dev.stage \in 0..LastStage(dev.case))'
    BY <1>3, <2>3 DEF LastStage
  <2>5. QED
    BY <2>1, <2>2, <2>4 DEF BoardTypes, DevType
<1>5. Heard'
  <2>1. out \in Seq(OutLine) /\ Len(out) \in Nat
    BY DEF Types, BoardTypes
  <2>2. /\ \A i \in 1..Len(out) : out'[i] = out[i]
        /\ \A i \in 1..Len(out') : i > Len(out) => i - Len(out) \in 1..Len(ls) /\ out'[i] = ls[i - Len(out)]
    BY <1>1, <2>1, ConcatFacts
  <2>3. ASSUME NEW i \in 1..Len(out'), out'[i].t = "result"
        PROVE  \E s \in 0..LastStage(out'[i].case) : <<out'[i].case, s, out'[i].result>> \in did'
    <3>1. CASE i \in 1..Len(out)
      <4>1. \E s \in 0..LastStage(out[i].case) : <<out[i].case, s, out[i].result>> \in did
        BY <3>1, <2>2, <2>3 DEF Heard
      <4>2. QED
        BY <4>1, <3>1, <2>2, <1>1
    <3>2. CASE i > Len(out)
      <4>1. PICK l : l = ls[i - Len(out)]
        OBVIOUS
      <4>2. out'[i] = l /\ \E s \in 0..LastStage(l.case) : <<l.case, s, l.result>> \in es
        BY <4>1, <3>2, <2>2, <2>3
      <4>3. QED
        BY <4>2, <1>1
    <3>3. QED
      BY <3>1, <3>2, <2>1
  <2>4. QED
    BY <2>3 DEF Heard, LastStage
<1>6. Gets(did' \ did)
  BY <1>1 DEF Gets
<1>7. ASSUME Busy', ~Busy
      PROVE  \E i \in 1..Len(out') : out'[i].t = "name" /\ out'[i].case = c
  <2>1. out \in Seq(OutLine) /\ Len(out) \in Nat /\ Len(ls) \in Nat
    BY DEF Types, BoardTypes
  <2>2. Len(out') = Len(out) + Len(ls) /\ \A i \in 1..Len(out') :
          i > Len(out) => i - Len(out) \in 1..Len(ls) /\ out'[i] = ls[i - Len(out)]
    BY <1>1, <2>1, ConcatFacts
  <2>3. PICK i \in 1..Len(ls) : ls[i].t = "name" /\ ls[i].case = c
    BY <1>1, <1>7 DEF Busy
  <2>4. /\ Len(out) + i \in 1..Len(out') /\ Len(out) + i > Len(out)
        /\ (Len(out) + i) - Len(out) = i
    BY <2>1, <2>2, <2>3
  <2>5. out'[Len(out) + i] = ls[i]
    BY <2>2, <2>4
  <2>6. QED
    BY <2>3, <2>4, <2>5
<1>8. QED
  BY <1>1, <1>2, <1>3, <1>4, <1>5, <1>6, <1>7 DEF Goes

LEMMA NoOutcome == Gets({})
  BY DEF Gets

\* What a step of the board leaves true.
BoardKeeps ==
    /\ \E c \in Case \cup {0}, m \in Nat : Goes(c, m)
    /\ BoardTypes' /\ Heard' /\ did \subseteq did'

LEMMA DevFacts ==
    ASSUME BoardTypes
    PROVE  /\ dev \in DevType
           /\ \A st \in {"boot", "menu", "sub", "run", "ended", "prompt", "hung"} :
                In(st) \in DevType /\ In(st).st = st /\ In(st).case = dev.case /\ In(st).stage = dev.stage
  BY DEF BoardTypes, DevType, In

LEMMA BootKeeps ==
    ASSUME Types, Heard, Boot
    PROVE  BoardKeeps
<1> DEFINE ls == <<Text("press")>>
<1>1. Board(In("menu"), ls, {}) /\ inp' \in {inp, <<>>}
  BY DEF Boot
<1>2. Text("press") \in OutLine /\ Text("press").case = 0 /\ Text("press").t = "press"
  BY LinesPrinted
<1>3. ls \in Seq(OutLine) /\ Len(ls) = 1 /\ ls[1] = Text("press")
  BY <1>2
<1> HIDE DEF ls
<1>4. \A i \in 1..Len(ls) : ls[i].case \in {0, 0} /\ ls[i].t # "result"
  BY <1>2, <1>3
<1>5. Reads(0)
  BY <1>1, NothingRead, AllLost DEF Types
<1>6. In("menu") \in DevType /\ In("menu").st = "menu" /\ dev.st # "hung"
  BY DevFacts DEF Types, Boot
<1>7. SpeaksOf(0, 0)
  BY DEF SpeaksOf
<1>8. QED
  BY <1>1, <1>3, <1>4, <1>5, <1>6, <1>7, NoOutcome, BoardStep DEF BoardKeeps

LEMMA ReadIndexKeeps ==
    ASSUME Types, Heard, ReadIndex
    PROVE  BoardKeeps
<1>1. /\ dev.st = "menu" /\ ~Busy /\ Reads(1) /\ Head(inp) = inp[1] /\ 1 \in 1..Len(inp)
  BY OneRead DEF ReadIndex, Busy, Types
<1>2. ASSUME NEW k \in Case, Index(k) = Head(inp),
             Board([st |-> IF LastStage(k) = 0 THEN "run" ELSE "sub", case |-> k, stage |-> 0],
                   <<Line("name", k, "")>>, {})
      PROVE  BoardKeeps
  <2>0. PICK l : l = Line("name", k, "")
    OBVIOUS
  <2> DEFINE ls == <<l>>
             x == [st |-> IF LastStage(k) = 0 THEN "run" ELSE "sub", case |-> k, stage |-> 0]
  <2>1. l \in OutLine /\ l.case = k /\ l.t = "name"
    BY <2>0, LinesPrinted
  <2>2. ls \in Seq(OutLine) /\ Len(ls) = 1 /\ ls[1] = l
    BY <2>1
  <2>3. x \in DevType /\ x.case = k /\ x.stage \in 0..LastStage(k)
    BY CaseFacts DEF DevType
  <2>4. Board(x, ls, {})
    BY <1>2, <2>0
  <2> HIDE DEF ls, x
  <2>5. /\ \A i \in 1..Len(ls) : ls[i].case \in {0, k} /\ ls[i].t # "result"
        /\ \E i \in 1..Len(ls) : ls[i].t = "name" /\ ls[i].case = k
    BY <2>1, <2>2
  <2>6. SpeaksOf(k, 1) /\ dev.st # "hung"
    BY <1>1, <1>2 DEF SpeaksOf
  <2>7. QED
    BY <1>1, <2>2, <2>3, <2>4, <2>5, <2>6, NoOutcome, BoardStep DEF BoardKeeps
<1>3. ASSUME Board(dev, <<Text("menu"), Text("enter")>>, {})
      PROVE  BoardKeeps
  <2> DEFINE ls == <<Text("menu"), Text("enter")>>
  <2>1. /\ Text("menu") \in OutLine /\ Text("menu").case = 0 /\ Text("menu").t = "menu"
        /\ Text("enter") \in OutLine /\ Text("enter").case = 0 /\ Text("enter").t = "enter"
    BY LinesPrinted
  <2>2. ls \in Seq(OutLine) /\ Len(ls) = 2 /\ ls[1] = Text("menu") /\ ls[2] = Text("enter")
    BY <2>1
  <2>3. Board(dev, ls, {})
    BY <1>3
  <2> HIDE DEF ls
  <2>4. \A i \in 1..Len(ls) : ls[i].case \in {0, 0} /\ ls[i].t # "result"
    BY <2>1, <2>2
  <2>5. SpeaksOf(0, 1)
    BY DEF SpeaksOf
  <2>6. dev \in DevType /\ dev.st \notin {"hung", "sub", "run", "ended"}
    BY <1>1, DevFacts DEF Types
  <2>7. QED
    BY <1>1, <2>2, <2>3, <2>4, <2>5, <2>6, NoOutcome, BoardStep DEF BoardKeeps
<1>4. QED
  BY <1>2, <1>3 DEF ReadIndex

LEMMA OneLine ==
    ASSUME NEW l \in OutLine, l.t # "result"
    PROVE  <<l>> \in Seq(OutLine) /\ \A i \in 1..Len(<<l>>) : <<l>>[i].case = l.case /\ <<l>>[i].t # "result"
  OBVIOUS

LEMMA EndLine ==
    ASSUME NEW k \in Case
    PROVE  LET ls == <<Line("end", k, "")>>
           IN  ls \in Seq(OutLine) /\ \A i \in 1..Len(ls) : ls[i].case = k /\ ls[i].t # "result"
<1>1. PICK l : l = Line("end", k, "")
  OBVIOUS
<1>2. l \in OutLine /\ l.case = k /\ l.t # "result"
  BY <1>1, LinesPrinted
<1>3. QED
  BY <1>1, <1>2, OneLine, Zenon

\* The end of a case is printed.
LEMMA EndPrinted ==
    ASSUME Types, Heard, Busy, NEW m \in Nat, Reads(m), NEW ls \in Seq(OutLine),
           \A i \in 1..Len(ls) : ls[i].case = dev.case /\ ls[i].t # "result",
           Board(In("prompt"), ls, {})
    PROVE  BoardKeeps
<1>1. dev.case \in Case
  BY DEF Types, BoardTypes
<1>2. SpeaksOf(dev.case, m)
  BY DEF SpeaksOf
<1>3. In("prompt") \in DevType /\ In("prompt").st = "prompt"
  BY DevFacts DEF Types
<1>4. dev.st # "hung"
  BY DEF Busy
<1>5. QED
  BY <1>1, <1>2, <1>3, <1>4, NoOutcome, BoardStep DEF BoardKeeps

LEMMA ReadStageKeeps ==
    ASSUME Types, Heard, ReadStage
    PROVE  BoardKeeps
<1>1. dev.st = "sub" /\ Busy /\ Reads(1)
  BY OneRead DEF ReadStage, Busy, Types
<1>2. CASE Head(inp) \in 1..LastStage(dev.case)
  <2> DEFINE k == dev.case
             x == [dev EXCEPT !.st = "run", !.stage = Head(inp)]
  <2>1. k \in Case /\ dev \in DevType /\ SpeaksOf(k, 1)
    BY <1>1, DevFacts DEF Types, BoardTypes, SpeaksOf
  <2>2. Head(inp) \in 0..LastStage(k) /\ Head(inp) \in Nat
    BY <1>2, <2>1, CaseFacts
  <2>3. x \in DevType /\ x.case = k /\ x.stage \in 0..LastStage(k)
    BY <2>1, <2>2 DEF DevType
  <2>4. Board(x, <<>>, {})
    BY <1>2 DEF ReadStage
  <2> HIDE DEF k, x
  <2>5. <<>> \in Seq(OutLine) /\ Len(<<>>) = 0
    OBVIOUS
  <2>6. \A i \in 1..Len(<<>>) : <<>>[i].case \in {0, k} /\ <<>>[i].t # "result"
    BY <2>5
  <2>7. QED
    BY <1>1, <2>1, <2>3, <2>4, <2>5, <2>6, NoOutcome, BoardStep DEF BoardKeeps
<1>3. CASE Head(inp) \notin 1..LastStage(dev.case)
  <2>1. dev.case \in Case
    BY <1>1 DEF Types, BoardTypes
  <2>2. PICK ls : ls = <<Line("end", dev.case, "")>>
    OBVIOUS
  <2>3. ls \in Seq(OutLine) /\ \A i \in 1..Len(ls) : ls[i].case = dev.case /\ ls[i].t # "result"
    BY <2>1, <2>2, EndLine, Zenon
  <2>4. Board(In("prompt"), ls, {})
    BY <1>3, <2>2 DEF ReadStage
  <2> HIDE <2>2
  <2>5. QED
    BY <1>1, <2>3, <2>4, EndPrinted
<1>4. QED
  BY <1>2, <1>3

LEMMA ConcludeKeeps ==
    ASSUME Types, Heard, NEW r \in Outcomes, Conclude(r)
    PROVE  BoardKeeps
<1> DEFINE k == dev.case
           ls == <<Line("result", k, r)>>
           es == {<<k, dev.stage, r>>}
<1>1. dev.st = "run" /\ Busy /\ inp' = inp /\ Board(In("ended"), ls, es)
  BY DEF Conclude, Busy, Outcome
<1>2. k \in Case /\ dev.stage \in 0..LastStage(k) /\ SpeaksOf(k, 0)
  BY <1>1 DEF Types, BoardTypes, SpeaksOf
<1>3. /\ Line("result", k, r) \in OutLine /\ Line("result", k, r).case = k
      /\ Line("result", k, r).result = r
  BY <1>2, LinesPrinted
<1>4. ls \in Seq(OutLine) /\ Len(ls) = 1 /\ ls[1] = Line("result", k, r)
  BY <1>3
<1>5. <<k, dev.stage, r>> \in es /\ Gets(es) /\ dev.st # "hung"
  BY <1>1 DEF Gets
<1>6. In("ended") \in DevType /\ In("ended").case = k /\ In("ended").stage \in 0..LastStage(k)
  BY <1>2, DevFacts DEF Types
<1>7. Reads(0)
  BY <1>1, NothingRead DEF Types
<1> HIDE DEF k, ls, es
<1>8. \A i \in 1..Len(ls) : ls[i].case \in {0, k}
  BY <1>3, <1>4
<1>9. \A i \in 1..Len(ls) : ls[i].t = "result" =>
        \E s \in 0..LastStage(ls[i].case) : <<ls[i].case, s, ls[i].result>> \in es
  BY <1>2, <1>3, <1>4, <1>5
<1>10. QED
  BY <1>1, <1>2, <1>4, <1>5, <1>6, <1>7, <1>8, <1>9, BoardStep DEF BoardKeeps

\* A board that prints nothing about a case and is at none afterwards.
LEMMA NoCaseAfter ==
    ASSUME Types, Heard, NEW ls \in Seq(OutLine), NEW es, NEW st \in {"boot", "menu"},
           Board(In(st), ls, es), Reads(0), Gets(es), dev.st # "hung",
           \A i \in 1..Len(ls) : ls[i].case = 0 /\ ls[i].t # "result"
    PROVE  BoardKeeps
<1>1. In(st) \in DevType /\ In(st).st = st
  BY DevFacts DEF Types
<1>2. SpeaksOf(0, 0)
  BY DEF SpeaksOf
<1>3. QED
  BY <1>1, <1>2, BoardStep DEF BoardKeeps

LEMMA RestartKeeps ==
    ASSUME Types, Heard, Restart
    PROVE  BoardKeeps
<1>1. dev.st = "run" /\ Busy
  BY DEF Restart, Busy
<1>0. PICK es : Board(In("boot"), <<>>, es) /\ Gets(es)
  <2>1. \A x : Gets(Outcome(x))
    BY <1>1 DEF Gets, Outcome
  <2>2. QED
    BY <2>1 DEF Restart
<1>2. Reads(0)
  BY AllLost DEF Restart
<1>3. <<>> \in Seq(OutLine) /\ Len(<<>>) = 0
  OBVIOUS
<1>4. \A i \in 1..Len(<<>>) : <<>>[i].case = 0 /\ <<>>[i].t # "result"
  BY <1>3
<1>5. QED
  BY <1>0, <1>1, <1>2, <1>3, <1>4, NoCaseAfter

LEMMA SummaryKeeps ==
    ASSUME Types, Heard, Summary
    PROVE  BoardKeeps
<1>1. Busy /\ Reads(0)
  BY NothingRead DEF Summary, Busy, Types
<1>2. dev.case \in Case
  BY <1>1 DEF Types, BoardTypes
<1>3. PICK ls : ls = <<Line("end", dev.case, "")>>
  OBVIOUS
<1>4. ls \in Seq(OutLine) /\ \A i \in 1..Len(ls) : ls[i].case = dev.case /\ ls[i].t # "result"
  BY <1>2, <1>3, EndLine, Zenon
<1>5. Board(In("prompt"), ls, {})
  BY <1>3 DEF Summary
<1> HIDE <1>3
<1>6. QED
  BY <1>1, <1>4, <1>5, EndPrinted

LEMMA PromptKeeps ==
    ASSUME Types, Heard, Prompt
    PROVE  BoardKeeps
<1> DEFINE ls == <<Text("next")>>
<1>1. Board(In("menu"), ls, {}) /\ Reads(0) /\ dev.st # "hung"
  BY NothingRead DEF Prompt, Types
<1>2. Text("next") \in OutLine /\ Text("next").case = 0 /\ Text("next").t = "next"
  BY LinesPrinted
<1>3. ls \in Seq(OutLine) /\ Len(ls) = 1 /\ ls[1] = Text("next")
  BY <1>2
<1> HIDE DEF ls
<1>4. \A i \in 1..Len(ls) : ls[i].case = 0 /\ ls[i].t # "result"
  BY <1>2, <1>3
<1>5. QED
  BY <1>1, <1>3, <1>4, NoOutcome, NoCaseAfter

LEMMA HangKeeps ==
    ASSUME Types, Heard, Hang
    PROVE  BoardKeeps
<1>1. /\ dev.st # "hung" /\ dev' = In("hung") /\ UNCHANGED <<config, runnerVars, out, inp, did>>
  BY DEF Hang
<1>2. In("hung") \in DevType /\ In("hung").st = "hung"
  BY DevFacts DEF Types
<1>3. ~Busy'
  BY <1>1, <1>2 DEF Busy
<1>4. BoardTypes'
  BY <1>1, <1>2, <1>3 DEF Types, BoardTypes, DevType
<1>5. Prints(0)
  BY <1>1 DEF Prints, Types, BoardTypes
<1>6. Reads(0)
  BY <1>1, NothingRead DEF Types
<1>7. Goes(0, 0)
  BY <1>1, <1>3, <1>5, <1>6 DEF Goes, SpeaksOf, Gets
<1>8. Heard'
  BY <1>1 DEF Heard, LastStage
<1>9. QED
  BY <1>1, <1>4, <1>7, <1>8 DEF BoardKeeps

-----------------------------------------------------------------------------
(* The invariant. *)

LEMMA BoardTyped ==
    ASSUME Types, NEW m \in Nat, Drops(m), Writes, Resets
    PROVE  BoardTypes'
<1>1. out' \in Seq(OutLine) /\ inp' \in Seq(Nat)
  BY WritesTypes DEF Drops, Types
<1>2. dev' \in DevType
  BY DevFacts DEF Resets, DevType, Types
<1>3. (Busy => dev.case \in Case /\ dev.stage \in 0..LastStage(dev.case))'
  BY DEF Resets, Busy, Types, BoardTypes, LastStage
<1>4. QED
  BY <1>1, <1>2, <1>3 DEF BoardTypes, DevType

LEMMA MovesTypes ==
    ASSUME Types, Heard, NEW m \in Nat, Moves(m)
    PROVE  BoardTypes' /\ Heard'
<1>1. BoardTypes'
  BY BoardTyped DEF Moves
<1>2. Heard'
  BY DEF Moves, Heard, Drops, LastStage
<1>3. QED
  BY <1>1, <1>2

LEMMA MovesKeeps ==
    ASSUME Types, StagesApart, Chain, OnlyPresent, Heard, NEW m \in Nat, Moves(m)
    PROVE  BoardTypes' /\ Chain' /\ OnlyPresent' /\ Heard'
<1>1. Drops(m) /\ Writes /\ Resets /\ case' = case /\ did' = did
  BY DEF Moves
<1>2. BoardTypes' /\ Heard'
  BY MovesTypes
<1>3. Chain'
  BY <1>1, RunnerKeepsOrder
<1>4. OnlyPresent'
  BY <1>1, RunnerKeepsPresent DEF Moves
<1>5. QED
  BY <1>2, <1>3, <1>4

LEMMA NoRecord ==
    ASSUME Types, Progress, Earned, config' = config, report' = report, case' = case,
           did \subseteq did', case = 0 \/ (pc' = "next" <=> pc = "next")
    PROVE  ReportTypes' /\ Progress' /\ Earned'
<1>1. Plan' = Plan
  BY PlanIsFixed
<1>2. \A k \in Plan : k # 0
  BY CaseFacts DEF Plan
<1>3. Progress'
  BY <1>1, <1>2 DEF Progress
<1>4. Earned'
  BY DEF Earned, Reported, LastStage
<1>5. ReportTypes'
  BY DEF Types, ReportTypes
<1>6. QED
  BY <1>3, <1>4, <1>5

LEMMA RecordAppended ==
    ASSUME Types, NEW r, NEW n, Recorded(r, n)
    PROVE  /\ ReportTypes'
           /\ case \in Plan /\ case \in Case
           /\ Len(report') = Len(report) + 1 /\ Len(report) \in Nat
           /\ \A i \in 1..Len(report) : report'[i] = report[i]
           /\ report'[Len(report) + 1].asked = case /\ report'[Len(report) + 1].result = r
<1>1. case \in Plan /\ case \in Case /\ r \in Said /\ n \in Case
  BY DEF Types, RunTypes, Recorded, Plan
<1>2. PICK x : x = [asked |-> case, named |-> n, result |-> r]
  OBVIOUS
<1>3. x.asked = case /\ x.result = r
      /\ x \in [asked : Case, named : Case, result : Said]
  BY <1>1, <1>2
<1>4. report' = Append(report, x)
  BY <1>2 DEF Recorded
<1>5. report \in Seq([asked : Case, named : Case, result : Said])
  BY DEF Types, ReportTypes
<1> HIDE <1>2
<1>6. QED
  BY <1>1, <1>3, <1>4, <1>5 DEF ReportTypes

LEMMA OnlyRecorded ==
    ASSUME Types, NEW r, NEW n, Recorded(r, n)
    PROVE  \A k \in Case : \A q : Reported(k, q)' => Reported(k, q) \/ (k = case /\ r = q)
<1>1. /\ ReportTypes' /\ case \in Case /\ Len(report') = Len(report) + 1 /\ Len(report) \in Nat
      /\ \A i \in 1..Len(report) : report'[i] = report[i]
      /\ report'[Len(report) + 1].asked = case /\ report'[Len(report) + 1].result = r
  BY RecordAppended
<1>2. DOMAIN report' = 1..Len(report') /\ DOMAIN report = 1..Len(report)
  BY <1>1 DEF Types, ReportTypes
<1>3. ASSUME NEW k \in Case, NEW q, Reported(k, q)'
      PROVE  Reported(k, q) \/ (k = case /\ r = q)
  <2>1. PICK i \in 1..Len(report') : report'[i].asked = k /\ report'[i].result = q
    BY <1>2, <1>3 DEF Reported
  <2>2. CASE i \in 1..Len(report)
    BY <2>1, <2>2, <1>1, <1>2 DEF Reported
  <2>3. CASE i = Len(report) + 1
    BY <2>1, <2>3, <1>1
  <2>4. QED
    BY <2>1, <2>2, <2>3, <1>1
<1>4. QED
  BY <1>3

LEMMA RecordKeeps ==
    ASSUME Types, Progress, Earned, NEW r, Recorded(r, case), config' = config, case' = case,
           did' = did, Got(r)
    PROVE  ReportTypes' /\ Progress' /\ Earned' /\ Report!Record
<1>1. /\ ReportTypes' /\ case \in Plan /\ case \in Case
      /\ Len(report') = Len(report) + 1 /\ Len(report) \in Nat
      /\ \A i \in 1..Len(report) : report'[i] = report[i]
      /\ report'[Len(report) + 1].asked = case /\ report'[Len(report) + 1].result = r
  BY RecordAppended
<1>2. /\ r \in Said /\ pc' = "next" /\ pc # "next" /\ case # 0
      /\ report' = Append(report, [asked |-> case, named |-> case, result |-> r])
  BY DEF Recorded
<1>3. Plan' = Plan
  BY PlanIsFixed
<1>4. \A k \in Plan : k \in Nat
  BY CaseFacts DEF Plan
<1>5. Progress'
  <2>1. ASSUME NEW k \in Plan
        PROVE  (\E i \in 1..Len(report') : report'[i].asked = k) <=> k < case \/ k = case
    <3>1. CASE k = case
      <4>1. Len(report) + 1 \in 1..Len(report')
        BY <1>1
      <4>2. QED
        BY <4>1, <3>1, <1>1
    <3>2. CASE k # case
      <4>1. (\E i \in 1..Len(report') : report'[i].asked = k)
              <=> (\E i \in 1..Len(report) : report[i].asked = k)
        <5>1. \A i \in 1..Len(report') : i \in 1..Len(report) \/ i = Len(report) + 1
          BY <1>1
        <5>2. \A i \in 1..Len(report) : i \in 1..Len(report')
          BY <1>1
        <5>3. QED
          BY <5>1, <5>2, <3>2, <1>1
      <4>2. QED
        BY <4>1, <3>2, <2>1 DEF Progress
    <3>3. QED
      BY <3>1, <3>2
  <2>2. QED
    BY <2>1, <1>2, <1>3 DEF Progress
<1>6. Earned'
  <2>1. DOMAIN report' = 1..Len(report') /\ DOMAIN report = 1..Len(report)
    BY <1>1 DEF Types, ReportTypes
  <2>2. ASSUME NEW k \in Case, NEW q \in {"PASS", "IGNORE"}, NEW i \in DOMAIN report',
               report'[i].asked = k, report'[i].result = q
        PROVE  \E s \in 0..LastStage(k) : <<k, s, q>> \in did
    <3>1. CASE i \in DOMAIN report
      BY <3>1, <2>1, <2>2, <1>1 DEF Earned, Reported
    <3>2. CASE i = Len(report) + 1
      BY <3>2, <2>2, <1>1 DEF Got
    <3>3. QED
      BY <3>1, <3>2, <2>1, <1>1
  <2>3. QED
    BY <2>2 DEF Earned, Reported, LastStage
<1>7. Report!Record
  <2>1. DOMAIN report = 1..Len(report)
    BY <1>1 DEF Types, ReportTypes
  <2>2. case \in Report!Open
    BY <1>1, <1>2, <1>4, <2>1 DEF Report!Open, Progress
  <2>3. \A j \in Report!Open : case <= j
    BY <1>1, <1>4, <2>1 DEF Report!Open, Progress
  <2>4. QED
    BY <2>2, <2>3, <1>2, <1>3, Zenon DEF Report!Record, Said
<1>8. QED
  BY <1>1, <1>5, <1>6, <1>7

LEMMA RunInvInit == Init => RunInv
<1> SUFFICES ASSUME Init PROVE RunInv
  OBVIOUS
<1> USE DEF Init
<1>1. RunTypes /\ ReportTypes
  BY DEF RunTypes, ReportTypes
<1>2. BoardTypes
  BY DEF BoardTypes, Busy
<1>3. Progress
  BY CaseFacts DEF Progress, Plan
<1>4. Chain
  BY DEF Chain, NothingAhead, OutInOrder, OutThenDev, OutThenInp, DevThenInp, InpInOrder, Busy
<1>5. OnlyPresent /\ Heard /\ FailedIsPresent /\ Earned
  BY DEF OnlyPresent, Reached, Heard, FailedIsPresent, Earned, Reported
<1>6. QED
  BY <1>1, <1>2, <1>3, <1>4, <1>5 DEF RunInv, Types

\* What a step has to leave true.
Kept == RunInv' /\ (Report!Record \/ UNCHANGED <<Plan, report>>)

\* A step of the runner at one case that records nothing.
LEMMA QuietStep ==
    ASSUME RunInv, StagesApart, \E m \in Nat : Moves(m), RunTypes', report' = report, FailedIsPresent',
           case = 0 \/ (pc' = "next" <=> pc = "next")
    PROVE  Kept
<1>1. PICK m \in Nat : Moves(m)
  OBVIOUS
<1>2. BoardTypes' /\ Chain' /\ OnlyPresent' /\ Heard'
  BY <1>1, MovesKeeps DEF RunInv
<1>3. config' = config /\ case' = case /\ did \subseteq did'
  BY <1>1 DEF Moves
<1>4. ReportTypes' /\ Progress' /\ Earned'
  BY <1>3, NoRecord DEF RunInv
<1>5. QED
  BY <1>2, <1>3, <1>4, PlanIsFixed DEF Kept, RunInv, Types

LEMMA RecordStep ==
    ASSUME RunInv, StagesApart, \E m \in Nat : Moves(m), RunTypes', FailedIsPresent',
           NEW r, Recorded(r, case),
           Got(r)
    PROVE  Kept
<1>1. PICK m \in Nat : Moves(m)
  OBVIOUS
<1>2. BoardTypes' /\ Chain' /\ OnlyPresent' /\ Heard'
  BY <1>1, MovesKeeps DEF RunInv
<1>3. config' = config /\ case' = case /\ did' = did
  BY <1>1 DEF Moves
<1>4. ReportTypes' /\ Progress' /\ Earned' /\ Report!Record
  BY <1>3, RecordKeeps DEF RunInv
<1>5. QED
  BY <1>2, <1>4 DEF Kept, RunInv, Types

LEMMA BoardKept ==
    ASSUME RunInv, BoardKeeps
    PROVE  Kept
<1>1. PICK c \in Case \cup {0}, m \in Nat : Goes(c, m)
  BY DEF BoardKeeps
<1>2. /\ config' = config /\ pc' = pc /\ case' = case /\ stage' = stage /\ failed' = failed
      /\ report' = report
  BY <1>1 DEF Goes, runnerVars
<1>3. Chain' /\ OnlyPresent'
  BY <1>1, <1>2, BoardKeepsOrder DEF Goes, SpeaksOf, Busy, RunInv
<1>4. ReportTypes' /\ Progress' /\ Earned'
  BY <1>2, NoRecord DEF RunInv, BoardKeeps
<1>5. RunTypes'
  BY <1>2, PlanIsFixed DEF RunInv, Types, RunTypes, LastStage
<1>6. FailedIsPresent'
  BY <1>2 DEF RunInv, FailedIsPresent
<1>7. QED
  BY <1>2, <1>3, <1>4, <1>5, <1>6, PlanIsFixed DEF Kept, RunInv, Types, BoardKeeps

LEMMA NextCaseKept ==
    ASSUME RunInv, StagesApart, NextCase
    PROVE  Kept
<1>1. /\ Drops(0) /\ Writes /\ Resets /\ RunTypes'
      /\ case' \in Case /\ case' > case /\ UNCHANGED <<config, did, report, out>>
      /\ \A k \in Plan : k > case => case' <= k
      /\ pc = "next" /\ pc' \in {"reset", "ready"} /\ failed' = 0
  BY NextCaseMoves DEF RunInv
<1>2. Chain'
  BY <1>1, NewCaseIsFresh DEF RunInv
<1>3. BoardTypes'
  BY <1>1, BoardTyped DEF RunInv
<1>4. Plan' = Plan
  BY <1>1, PlanIsFixed
<1>5. Progress'
  <2>1. \A k \in Plan : k \in Nat
    BY CaseFacts DEF Plan
  <2>2. case \in Nat /\ case' \in Nat
    BY <1>1, CaseFacts DEF RunInv, Types, RunTypes, Plan
  <2>3. \A k \in Plan : k < case' <=> k < case \/ k = case
    BY <1>1, <2>1, <2>2
  <2>4. QED
    BY <1>1, <1>4, <2>3 DEF Progress, RunInv
<1>6. OnlyPresent' /\ FailedIsPresent'
  BY <1>1 DEF OnlyPresent, Reached, FailedIsPresent
<1>7. Heard' /\ Earned' /\ ReportTypes'
  BY <1>1 DEF RunInv, Heard, Earned, Reported, Types, ReportTypes, LastStage
<1>8. QED
  BY <1>1, <1>2, <1>3, <1>4, <1>5, <1>6, <1>7 DEF Kept, RunInv, Types

LEMMA RunInvStep ==
    ASSUME RunInv, StagesApart, [Next]_vars
    PROVE  Kept
<1> USE DEF RunInv
<1>0. Moves(0) => \E m \in Nat : Moves(m)
  OBVIOUS
<1>1. CASE WriteAgain
  <2>1. FailedIsPresent' /\ pc' = pc
    BY <1>1 DEF WriteAgain, FailedIsPresent
  <2>2. QED
    BY <2>1, <1>0, <1>1, WriteAgainMoves, QuietStep
<1>2. CASE AskForMenu
  <2>1. FailedIsPresent' /\ case = 0
    BY <1>2 DEF AskForMenu, FailedIsPresent, Types, RunTypes
  <2>2. QED
    BY <2>1, <1>2, AskForMenuMoves, QuietStep
<1>3. CASE SeeMenu
  <2>1. FailedIsPresent' /\ case = 0
    BY <1>3 DEF SeeMenu, FailedIsPresent, Types, RunTypes
  <2>2. QED
    BY <2>1, <1>3, SeeMenuMoves, QuietStep
<1>4. CASE ConfirmReset
  <2>1. FailedIsPresent'
    BY <1>4 DEF ConfirmReset, FailedIsPresent
  <2>2. QED
    BY <2>1, <1>4, ConfirmResetMoves, QuietStep
<1>5. CASE MenuFails
  <2>1. FailedIsPresent'
    BY <1>5 DEF MenuFails, FailedIsPresent
  <2>2. QED
    BY <2>1, <1>0, <1>5, MenuFailsMoves, QuietStep
<1>6. CASE NextCase
  BY <1>6, NextCaseKept
<1>7. CASE StartCase
  <2>1. FailedIsPresent' /\ pc' # "next" /\ pc # "next"
    BY <1>7 DEF StartCase, ConfirmWrite, FailedIsPresent
  <2>2. QED
    BY <2>1, <1>7, StartCaseMoves, QuietStep
<1>8. CASE StartFails
  <2>1. FailedIsPresent'
    BY <1>8 DEF StartFails, FailedIsPresent
  <2>2. /\ Moves(0) /\ RunTypes' /\ pc # "next"
        /\ (report' = report /\ pc' # "next") \/ Recorded("SKIPPED", case)
    BY <1>8, StartFailsMoves
  <2>3. CASE report' = report /\ pc' # "next"
    BY <2>1, <2>2, <2>3, <1>0, QuietStep
  <2>4. CASE Recorded("SKIPPED", case)
    BY <2>1, <2>2, <2>4, <1>0, RecordStep DEF Got
  <2>5. QED
    BY <2>2, <2>3, <2>4
<1>9. CASE SeeName
  <2>1. FailedIsPresent'
    BY <1>9 DEF SeeName, FailedIsPresent
  <2>2. QED
    BY <2>1, <1>9, SeeNameMoves, QuietStep
<1>10. CASE NextStage
  BY <1>10, NextStageMoves, QuietStep
<1>11. CASE StageFails
  <2>1. FailedIsPresent'
    BY <1>11 DEF StageFails, FailedIsPresent
  <2>2. QED
    BY <2>1, <1>0, <1>11, StageFailsMoves, QuietStep
<1>12. CASE SeeResult
  <2>1. FailedIsPresent'
    BY <1>12 DEF SeeResult, FailedIsPresent
  <2>2. PICK r \in Outcomes :
           /\ Recorded(r, case)
           /\ Got(r)
    BY <1>12, SeeResultMoves
  <2>3. (\E m \in Nat : Moves(m)) /\ RunTypes'
    BY <1>12, SeeResultMoves
  <2>4. QED
    BY <2>1, <2>2, <2>3, RecordStep
<1>13. CASE NoResult
  <2>1. FailedIsPresent'
    BY <1>13 DEF NoResult, FailedIsPresent
  <2>2. Moves(0) /\ RunTypes' /\ Recorded("FAIL", case)
    BY <1>13, NoResultMoves
  <2>3. QED
    BY <2>1, <2>2, <1>0, RecordStep DEF Got
<1>14. CASE Firmware \/ Hang
  BY <1>14, BootKeeps, ReadIndexKeeps, ReadStageKeeps, ConcludeKeeps, RestartKeeps,
     SummaryKeeps, PromptKeeps, HangKeeps, BoardKept DEF Firmware
<1>15. CASE Over \/ UNCHANGED vars
  <2>1. /\ UNCHANGED <<config, pc, case, stage, failed, report>>
        /\ UNCHANGED <<out, inp, dev, did>>
    BY <1>15 DEF Over, vars, runnerVars, boardVars
  <2>2. Drops(0) /\ Writes /\ Resets
    BY <2>1, NothingDropped DEF Types, Writes, Resets
  <2>3. Moves(0)
    BY <2>1, <2>2 DEF Moves, Reached
  <2>4. RunTypes'
    BY <2>1, PlanIsFixed DEF Types, RunTypes, LastStage
  <2>5. FailedIsPresent'
    BY <2>1 DEF FailedIsPresent
  <2>6. QED
    BY <2>1, <2>3, <2>4, <2>5, <1>0, QuietStep
<1>16. QED
  BY <1>1, <1>2, <1>3, <1>4, <1>5, <1>6, <1>7, <1>8, <1>9, <1>10, <1>11, <1>12, <1>13,
     <1>14, <1>15 DEF Next, Runner

-----------------------------------------------------------------------------
(* Types and constants, for any menu. *)

LEMMA MovesTyped ==
    ASSUME Types, Heard, \E m \in Nat : Moves(m), RunTypes', report' = report
    PROVE  Types' /\ Heard'
<1>1. BoardTypes' /\ Heard'
  BY MovesTypes
<1>2. ReportTypes'
  BY DEF Types, ReportTypes
<1>3. QED
  BY <1>1, <1>2 DEF Types

LEMMA RecordTyped ==
    ASSUME Types, Heard, NEW m \in Nat, Moves(m), RunTypes', NEW r, NEW n, Recorded(r, n)
    PROVE  Types' /\ Heard'
  BY MovesTypes, RecordAppended DEF Types

\* The types, for any menu.
LEMMA TypesStep ==
    ASSUME Types, Heard, [Next]_vars
    PROVE  Types' /\ Heard'
<1>0. Moves(0) => \E m \in Nat : Moves(m)
  OBVIOUS
<1>1. CASE WriteAgain
  BY <1>0, <1>1, WriteAgainMoves, MovesTyped
<1>2. CASE AskForMenu
  BY <1>2, AskForMenuMoves, MovesTyped
<1>3. CASE SeeMenu
  BY <1>3, SeeMenuMoves, MovesTyped
<1>4. CASE ConfirmReset
  BY <1>4, ConfirmResetMoves, MovesTyped
<1>5. CASE MenuFails
  BY <1>0, <1>5, MenuFailsMoves, MovesTyped
<1>6. CASE NextCase
  <2>1. Drops(0) /\ Writes /\ Resets /\ RunTypes' /\ did' = did /\ report' = report
    BY <1>6, NextCaseMoves
  <2>2. BoardTypes'
    BY <2>1, BoardTyped
  <2>3. Heard' /\ ReportTypes'
    BY <2>1 DEF Heard, Drops, LastStage, Types, ReportTypes
  <2>4. QED
    BY <2>1, <2>2, <2>3 DEF Types
<1>7. CASE StartCase
  BY <1>7, StartCaseMoves, MovesTyped
<1>8. CASE StartFails
  <2>1. Moves(0) /\ RunTypes' /\ (report' = report \/ Recorded("SKIPPED", case))
    BY <1>8, StartFailsMoves
  <2>2. QED
    BY <2>1, <1>0, MovesTyped, RecordTyped
<1>9. CASE SeeName
  BY <1>9, SeeNameMoves, MovesTyped
<1>10. CASE NextStage
  BY <1>10, NextStageMoves, MovesTyped
<1>11. CASE StageFails
  BY <1>0, <1>11, StageFailsMoves, MovesTyped
<1>12. CASE SeeResult
  <2>1. PICK m \in Nat, r \in Outcomes, n \in Case : Moves(m) /\ RunTypes' /\ Recorded(r, n)
    BY <1>12, SeeResultMoves
  <2>2. QED
    BY <2>1, RecordTyped
<1>13. CASE NoResult
  <2>1. PICK n \in Case : Moves(0) /\ RunTypes' /\ Recorded("FAIL", n)
    BY <1>13, NoResultMoves
  <2>2. QED
    BY <2>1, RecordTyped
<1>14. CASE Firmware \/ Hang
  <2>1. BoardKeeps
    BY <1>14, BootKeeps, ReadIndexKeeps, ReadStageKeeps, ConcludeKeeps, RestartKeeps,
       SummaryKeeps, PromptKeeps, HangKeeps DEF Firmware
  <2>2. config' = config /\ UNCHANGED runnerVars /\ BoardTypes' /\ Heard'
    BY <2>1 DEF BoardKeeps, Goes
  <2>3. RunTypes'
    BY <2>2, PlanIsFixed DEF runnerVars, Types, RunTypes, LastStage
  <2>4. ReportTypes'
    BY <2>2 DEF runnerVars, Types, ReportTypes
  <2>5. QED
    BY <2>2, <2>3, <2>4 DEF Types
<1>15. CASE Over \/ UNCHANGED vars
  <2>1. UNCHANGED <<config, pc, case, stage, failed, report, out, inp, dev, did>>
    BY <1>15 DEF Over, vars, runnerVars, boardVars
  <2>2. RunTypes'
    BY <2>1, PlanIsFixed DEF Types, RunTypes, LastStage
  <2>3. QED
    BY <2>1, <2>2 DEF Types, BoardTypes, Busy, ReportTypes, Heard, LastStage
<1>16. QED
  BY <1>1, <1>2, <1>3, <1>4, <1>5, <1>6, <1>7, <1>8, <1>9, <1>10, <1>11, <1>12, <1>13,
     <1>14, <1>15 DEF Next, Runner

LEMMA ConfigStays ==
    ASSUME [Next]_vars
    PROVE  config' = config
<1>1. CASE Runner
  BY <1>1 DEF Runner, WriteAgain, AskForMenu, SeeMenu, ConfirmReset, MenuFails, NextCase,
      StartCase, StartFails, SeeName, NextStage, StageFails, SeeResult, NoResult
<1>2. CASE Firmware \/ Hang
  BY <1>2 DEF Firmware, Boot, ReadIndex, ReadStage, Conclude, Restart, Summary, Prompt, Board, Hang
<1>3. CASE Over \/ UNCHANGED vars
  BY <1>3 DEF Over, vars
<1>4. QED
  BY <1>1, <1>2, <1>3 DEF Next

\* A case that was recorded and is the present one: its run is over.
LEMMA RecordedIsOver ==
    ASSUME Types, Progress, NEW k \in Case, NEW r, Reported(k, r)
    PROVE  k = case => pc = "next"
<1>1. PICK i \in DOMAIN report : report[i].asked = k
  BY DEF Reported
<1>2. i \in 1..Len(report)
  BY <1>1 DEF Types, ReportTypes
<1>3. k \in Nat /\ (k = case => k \in Plan)
  BY CaseFacts DEF Types, RunTypes
<1>4. QED
  BY <1>1, <1>2, <1>3 DEF Progress

-----------------------------------------------------------------------------
(* Boards that can be reset: the second start of a case. *)

LateIsOver == late => pc \in {"result", "next"}

NamePrinted == \E i \in 1..Len(out) : out[i].t = "name" /\ out[i].case = case

ReadyPrinted == \E i \in 1..Len(out) : out[i].t \in Ready

\* On a board that can be reset and answers in time, a second start meets a board that
\* starts the case, unless it hangs meanwhile.
SecondStart ==
    /\ ~ignoreReady /\ pc # "reset"
    /\ attempt = 2 /\ pc = "ready" =>
         /\ inp = <<>>
         /\ \/ dev.st = "boot"
            \/ dev.st = "menu" /\ ReadyPrinted
            \/ dev.st = "hung" /\ case \in hung
    /\ attempt = 2 /\ pc = "name" =>
         \/ NamePrinted
         \/ dev.st = "hung" /\ case \in hung
         \/ dev.st = "boot" /\ tries = 1 /\ inp \in {<<>>, <<Index(case)>>}
         \/ dev.st = "menu" /\ inp = <<>> /\ tries = 1
         \/ dev.st = "menu" /\ inp = <<Index(case)>> /\ tries \in {1, 2}

LEMMA LateStep ==
    ASSUME Types, LateIsOver, [Next]_vars
    PROVE  LateIsOver'
<1>1. CASE late' = late /\ pc' = pc
  BY <1>1 DEF LateIsOver
<1>2. CASE pc \notin {"result", "next"} /\ late' = late
  BY <1>2 DEF LateIsOver
<1>3. CASE pc' \in {"result", "next"} \/ late' = FALSE
  BY <1>3 DEF LateIsOver
<1>4. CASE Firmware \/ Hang \/ Over \/ UNCHANGED vars \/ WriteAgain
  <2>1. late' = late /\ pc' = pc
    BY <1>4 DEF Firmware, Boot, ReadIndex, ReadStage, Conclude, Restart, Summary, Prompt, Board,
        Hang, Over, WriteAgain, vars, runnerVars
  <2>2. QED
    BY <2>1, <1>1
<1>5. CASE NextCase \/ StageFails \/ SeeResult \/ NoResult
  BY <1>5, <1>3 DEF NextCase, StageFails, SeeResult, NoResult, Record
<1>6. CASE AskForMenu \/ SeeMenu \/ ConfirmReset \/ StartCase \/ StartFails \/ SeeName \/ NextStage
  BY <1>6, <1>2 DEF AskForMenu, SeeMenu, ConfirmReset, StartCase, StartFails, SeeName, NextStage
<1>7. CASE MenuFails
  BY <1>7, <1>2 DEF MenuFails, Raised, TimeIsUp, Awaited, Types, RunTypes
<1>8. QED
  BY <1>4, <1>5, <1>6, <1>7 DEF Next, Runner

\* A step that starts no case a second time and records no failed start.
LEMMA OtherSteps ==
    ASSUME SecondStart, FailureIsContained, hung \subseteq hung', config' = config,
           \A k \in Case : Reported(k, "SKIPPED")' => Reported(k, "SKIPPED"),
           ignoreReady' => ignoreReady, pc' # "reset",
           attempt' = 2 => pc' \notin {"ready", "name"}
    PROVE  SecondStart' /\ FailureIsContained'
<1>1. FailureIsContained'
  BY DEF FailureIsContained
<1>2. ~ignoreReady'
  BY DEF SecondStart
<1>3. SecondStart'
  BY <1>2 DEF SecondStart
<1>4. QED
  BY <1>1, <1>3

LEMMA NothingRecorded ==
    ASSUME report' = report
    PROVE  \A k \in Case : \A r : Reported(k, r)' => Reported(k, r)
  BY DEF Reported

\* What a second start waits for, if it is not there in time.
LEMMA SecondStartRaises ==
    ASSUME Types, LateIsOver, ~config.slow, SecondStart, attempt = 2, pc \in {"ready", "name"}, TimeIsUp
    PROVE  \/ dev.st = "hung" /\ case \in hung
           \/ pc = "name" /\ dev.st = "menu" /\ inp = <<>> /\ tries = 1
<1>1. ~late /\ Find(Awaited) = 0 /\ ~BoardMoves
  BY DEF LateIsOver, TimeIsUp
<1>2. dev.st # "boot" /\ (dev.st = "menu" => inp = <<>>)
  BY <1>1 DEF BoardMoves
<1>3. CASE pc = "ready"
  <2>1. Find(Ready) = 0
    BY <1>1, <1>3 DEF Awaited
  <2>2. ~ReadyPrinted
    BY <2>1, FindFacts DEF ReadyPrinted, Ready, Types, BoardTypes
  <2>3. QED
    BY <2>2, <1>2, <1>3 DEF SecondStart
<1>4. CASE pc = "name"
  <2>1. Find({"name"}) = 0
    BY <1>1, <1>4 DEF Awaited
  <2>2. ~NamePrinted
    BY <2>1, FindFacts DEF NamePrinted, Types, BoardTypes
  <2>3. inp # <<Index(case)>> \/ inp # <<>>
    OBVIOUS
  <2>4. QED
    BY <2>2, <2>3, <1>2, <1>4 DEF SecondStart
<1>5. QED
  BY <1>3, <1>4

\* The index of the case is written for the second time.
LEMMA SecondStartBegins ==
    ASSUME Types, SecondStart, FailureIsContained, StartCase
    PROVE  SecondStart' /\ FailureIsContained'
<1>1. /\ pc = "ready" /\ pc' = "name" /\ inp' = Append(inp, Index(case)) /\ tries' = 1
      /\ ignoreReady' = FALSE /\ UNCHANGED <<config, case, attempt, report, dev, hung>>
  BY DEF StartCase, ConfirmWrite, Write
<1>2. FailureIsContained'
  BY <1>1, NothingRecorded DEF FailureIsContained
<1>3. attempt = 2 => inp' = <<Index(case)>>
  BY <1>1 DEF SecondStart
<1>4. attempt = 2 => /\ dev.st \in {"boot", "menu"} \/ (dev.st = "hung" /\ case \in hung)
  BY <1>1 DEF SecondStart
<1>5. Index(case)' = Index(case)
  BY <1>1 DEF Index
<1>6. SecondStart'
  BY <1>1, <1>3, <1>4, <1>5 DEF SecondStart
<1>7. QED
  BY <1>2, <1>6

LEMMA SecondStartAgain ==
    ASSUME Types, LateIsOver, ~config.slow, SecondStart, FailureIsContained, WriteAgain
    PROVE  SecondStart' /\ FailureIsContained'
<1>1. /\ pc' = pc /\ inp' = Append(inp, Repeated) /\ tries' = tries + 1 /\ TimeIsUp
      /\ pc \in {"menu", "reset", "name", "stageName"}
      /\ UNCHANGED <<config, case, attempt, report, dev, hung, ignoreReady, out>>
  BY DEF WriteAgain, Write
<1>2. FailureIsContained'
  BY <1>1, NothingRecorded DEF FailureIsContained
<1>3. Index(case)' = Index(case)
  BY <1>1 DEF Index
<1>4. CASE attempt = 2 /\ pc = "name"
  <2>1. \/ dev.st = "hung" /\ case \in hung
        \/ dev.st = "menu" /\ inp = <<>> /\ tries = 1
    BY <1>1, <1>4, SecondStartRaises
  <2>2. inp = <<>> => inp' = <<Index(case)>>
    BY <1>1, <1>4 DEF Repeated
  <2>3. QED
    BY <2>1, <2>2, <1>1, <1>2, <1>3, <1>4 DEF SecondStart
<1>5. CASE ~(attempt = 2 /\ pc = "name")
  BY <1>1, <1>2, <1>5 DEF SecondStart
<1>6. QED
  BY <1>4, <1>5

LEMMA SecondStartFails ==
    ASSUME Types, LateIsOver, ~config.slow, config.kind = "board", SecondStart, FailureIsContained,
           StartFails
    PROVE  SecondStart' /\ FailureIsContained'
<1>1. /\ Raised /\ TimeIsUp /\ pc \in {"ready", "name"} /\ case # 0
      /\ UNCHANGED <<config, case, hung, ignoreReady, out>>
  BY DEF StartFails, Raised, SecondStart
<1>2. CASE attempt = 1 /\ attempt' = 2 /\ HardReset("ready") /\ report' = report
  <2>1. /\ dev' = [st |-> "boot", case |-> 0, stage |-> 0] /\ inp' = <<>> /\ pc' = "ready"
    BY <1>2 DEF HardReset
  <2>2. FailureIsContained'
    BY <1>1, <1>2, NothingRecorded DEF FailureIsContained
  <2>3. QED
    BY <1>1, <1>2, <2>1, <2>2 DEF SecondStart
<1>3. CASE attempt = 2 /\ Recorded("SKIPPED", case)
  <2>1. ~(pc = "name" /\ tries = 1)
    BY <1>1 DEF Raised, RetryTimes
  <2>2. case \in hung
    BY <1>1, <1>3, <2>1, SecondStartRaises
  <2>3. FailureIsContained'
    BY <1>1, <1>3, <2>2, OnlyRecorded DEF FailureIsContained
  <2>4. pc' = "next"
    BY <1>3 DEF Recorded
  <2>5. QED
    BY <1>1, <2>3, <2>4 DEF SecondStart
<1>4. QED
  BY <1>1, <1>2, <1>3, StartFailsMoves DEF StartFails

LEMMA NameStays ==
    ASSUME Types, NEW c, Prints(c), case' = case, NamePrinted
    PROVE  NamePrinted'
<1>1. Len(out) \in Nat /\ Len(out') \in Nat /\ Len(out) <= Len(out')
  BY DEF Prints, Types, BoardTypes
<1>2. \A i \in 1..Len(out) : i \in 1..Len(out') /\ out'[i] = out[i]
  BY <1>1 DEF Prints
<1>3. QED
  BY <1>2 DEF NamePrinted

\* The board boots, with the second start of the case before it.
LEMMA SecondBoot ==
    ASSUME Types, SecondStart, Boot, attempt = 2, pc \in {"ready", "name"}
    PROVE  /\ pc = "ready" => inp' = <<>> /\ dev'.st = "menu" /\ ReadyPrinted'
           /\ pc = "name" =>
                \/ NamePrinted
                \/ dev'.st = "menu" /\ tries = 1 /\ inp' \in {<<>>, <<Index(case)>>}
<1>1. PICK l : l = Text("press")
  OBVIOUS
<1>2. dev.st = "boot" /\ inp' \in {inp, <<>>} /\ dev' = In("menu") /\ out' = out \o <<l>>
  BY <1>1 DEF Boot, Board
<1>3. l \in OutLine /\ l.t \in Ready
  BY <1>1, LinesPrinted DEF Ready
<1> HIDE <1>1
<1>4. dev'.st = "menu"
  BY <1>2, DevFacts DEF Types
<1>5. ReadyPrinted'
  <2>1. out \in Seq(OutLine) /\ Len(out) \in Nat
    BY DEF Types, BoardTypes
  <2>2. Len(out') = Len(out) + 1 /\ out'[Len(out) + 1] = l
    BY <2>1, <1>2, <1>3
  <2>3. QED
    BY <2>1, <2>2, <1>3 DEF ReadyPrinted
<1>6. inp = <<>> => inp' = <<>>
  BY <1>2
<1>7. inp \in {<<>>, <<Index(case)>>} => inp' \in {<<>>, <<Index(case)>>}
  BY <1>2
<1>8. pc = "name" => NamePrinted \/ (tries = 1 /\ inp \in {<<>>, <<Index(case)>>})
  BY <1>2 DEF SecondStart
<1>9. pc = "ready" => inp = <<>>
  BY DEF SecondStart
<1>10. QED
  BY <1>4, <1>5, <1>6, <1>7, <1>8, <1>9

\* The board reads the index of the case that is started for the second time.
LEMMA SecondIndex ==
    ASSUME Types, Heard, SecondStart, ReadIndex, attempt = 2, pc \in {"ready", "name"}
    PROVE  pc = "name" /\ NamePrinted'
<1>1. dev.st = "menu" /\ inp # <<>> /\ case' = case
  BY DEF ReadIndex, Board, runnerVars
<1>2. pc = "name"
  BY <1>1 DEF SecondStart
<1>3. CASE NamePrinted
  <2>1. PICK c : Prints(c)
    BY ReadIndexKeeps DEF BoardKeeps, Goes
  <2>2. QED
    BY <2>1, <1>1, <1>2, <1>3, NameStays
<1>4. CASE inp = <<Index(case)>>
  <2>1. case \in Case /\ Head(inp) = Index(case)
    BY <1>2, <1>4 DEF Types, RunTypes, Plan
  <2>2. PICK k \in Case :
           /\ Index(k) = Head(inp)
           /\ Board([st |-> IF LastStage(k) = 0 THEN "run" ELSE "sub", case |-> k, stage |-> 0],
                    <<Line("name", k, "")>>, {})
    BY <2>1 DEF ReadIndex
  <2>3. k = case
    BY <2>1, <2>2, CaseFacts
  <2>4. PICK l : l = Line("name", k, "")
    OBVIOUS
  <2>5. l \in OutLine /\ l.t = "name" /\ l.case = k
    BY <2>4, LinesPrinted
  <2>6. out' = out \o <<l>>
    BY <2>2, <2>4 DEF Board
  <2> HIDE <2>4
  <2>7. out \in Seq(OutLine) /\ Len(out) \in Nat
    BY DEF Types, BoardTypes
  <2>8. Len(out') = Len(out) + 1 /\ out'[Len(out) + 1] = l
    BY <2>5, <2>6, <2>7
  <2>9. QED
    BY <2>3, <2>5, <2>7, <2>8, <1>1, <1>2 DEF NamePrinted
<1>5. QED
  BY <1>1, <1>2, <1>3, <1>4 DEF SecondStart

LEMMA SecondStartBoard ==
    ASSUME Types, Heard, SecondStart, FailureIsContained, Firmware \/ Hang
    PROVE  SecondStart' /\ FailureIsContained'
<1>1. BoardKeeps
  BY BootKeeps, ReadIndexKeeps, ReadStageKeeps, ConcludeKeeps, RestartKeeps,
     SummaryKeeps, PromptKeeps, HangKeeps DEF Firmware
<1>2. PICK c : Prints(c) /\ config' = config /\ UNCHANGED runnerVars
  BY <1>1 DEF BoardKeeps, Goes
<1>3. UNCHANGED <<pc, case, attempt, tries, ignoreReady, report>>
  BY <1>2 DEF runnerVars
<1>4. hung \subseteq hung'
  BY DEF Firmware, Boot, ReadIndex, ReadStage, Conclude, Restart, Summary, Prompt, Board, Hang
<1>5. FailureIsContained'
  BY <1>2, <1>3, <1>4, NothingRecorded DEF FailureIsContained
<1>6. NamePrinted => NamePrinted'
  BY <1>2, <1>3, NameStays
<1>7. Index(case)' = Index(case)
  BY <1>3 DEF Index
<1>8. CASE ~(attempt = 2 /\ pc \in {"ready", "name"})
  BY <1>3, <1>5, <1>8 DEF SecondStart
<1>9. CASE attempt = 2 /\ pc \in {"ready", "name"} /\ Boot
  BY <1>3, <1>5, <1>6, <1>7, <1>9, SecondBoot DEF SecondStart
<1>10. CASE attempt = 2 /\ pc \in {"ready", "name"} /\ ReadIndex
  BY <1>3, <1>5, <1>10, SecondIndex DEF SecondStart
<1>11. CASE attempt = 2 /\ pc \in {"ready", "name"} /\ Hang
  <2>1. dev'.st = "hung" /\ hung' = hung \cup {case} /\ inp' = inp
    BY <1>11, DevFacts DEF Hang, Types
  <2>2. pc = "ready" => inp' = <<>>
    BY <2>1, <1>11 DEF SecondStart
  <2>3. QED
    BY <2>1, <2>2, <1>3, <1>5, <1>11 DEF SecondStart
<1>12. CASE /\ attempt = 2 /\ pc \in {"ready", "name"}
            /\ dev.st \in {"sub", "run", "ended", "prompt"}
  <2>1. pc = "name" /\ NamePrinted
    BY <1>12 DEF SecondStart
  <2>2. QED
    BY <2>1, <1>3, <1>5, <1>6 DEF SecondStart
<1>13. QED
  BY <1>8, <1>9, <1>10, <1>11, <1>12 DEF Firmware, ReadStage, Conclude, Restart, Summary, Prompt

LEMMA ContainedStep ==
    ASSUME Types, Heard, LateIsOver, ~config.slow, config.kind = "board",
           SecondStart, FailureIsContained, [Next]_vars
    PROVE  SecondStart' /\ FailureIsContained'
<1>1. CASE WriteAgain
  BY <1>1, SecondStartAgain
<1>2. CASE StartCase
  BY <1>2, SecondStartBegins
<1>3. CASE StartFails
  BY <1>3, SecondStartFails
<1>4. CASE Firmware \/ Hang
  BY <1>4, SecondStartBoard
<1>5. CASE AskForMenu \/ SeeMenu \/ MenuFails \/ SeeName \/ NextStage \/ StageFails
  <2>1. /\ UNCHANGED <<config, hung, ignoreReady, report>>
        /\ pc' \in {"menu", "next", "raised", "result", "stageReady", "stageName"}
    BY <1>5 DEF AskForMenu, SeeMenu, HardReset, MenuFails, SeeName, EnterStage, NextStage,
        StageFails, ConfirmWrite, boardVars
  <2>2. \A k \in Case : Reported(k, "SKIPPED")' => Reported(k, "SKIPPED")
    BY <2>1, NothingRecorded
  <2>3. QED
    BY <2>1, <2>2, OtherSteps
<1>6. CASE NextCase
  <2>1. UNCHANGED <<config, hung, ignoreReady, report>> /\ attempt' = 1 /\ pc' # "reset"
    BY <1>6 DEF NextCase, HardReset
  <2>2. \A k \in Case : Reported(k, "SKIPPED")' => Reported(k, "SKIPPED")
    BY <2>1, NothingRecorded
  <2>3. QED
    BY <2>1, <2>2, OtherSteps
<1>7. CASE SeeResult \/ NoResult
  <2>1. UNCHANGED <<config, hung, ignoreReady>> /\ pc' = "next"
    BY <1>7 DEF SeeResult, NoResult, Record, boardVars
  <2>2. PICK r \in Outcomes, n \in Case : Recorded(r, n)
    BY <1>7, SeeResultMoves, NoResultMoves
  <2>3. \A k \in Case : Reported(k, "SKIPPED")' => Reported(k, "SKIPPED")
    BY <2>2, OnlyRecorded
  <2>4. QED
    BY <2>1, <2>3, OtherSteps
<1>8. CASE ConfirmReset
  BY <1>8 DEF ConfirmReset, SecondStart
<1>9. CASE Over \/ UNCHANGED vars
  <2>1. UNCHANGED <<config, runnerVars, out, inp, dev, hung>>
    BY <1>9 DEF Over, vars, boardVars
  <2>2. QED
    BY <2>1 DEF runnerVars, SecondStart, FailureIsContained, ReadyPrinted, NamePrinted, Reported, Index
<1>10. QED
  BY <1>1, <1>2, <1>3, <1>4, <1>5, <1>6, <1>7, <1>8, <1>9 DEF Next, Runner

\* FailureIsContained: the hard reset before the second start (_prepare_and_start_case)
\* is enough for a board that can be reset, answers within the timeouts and does not hang.
THEOREM FailureStaysInside == Spec => []FailureIsContained
<1> DEFINE I == Types /\ Heard /\ LateIsOver
                /\ (config.kind = "board" /\ ~config.slow => SecondStart /\ FailureIsContained)
<1>1. Init => I
  <2>1. SUFFICES ASSUME Init PROVE I
    OBVIOUS
  <2>2. Types /\ Heard /\ LateIsOver
    BY <2>1, RunInvInit DEF RunInv, Init, LateIsOver
  <2>3. SecondStart /\ FailureIsContained
    BY <2>1 DEF Init, SecondStart, FailureIsContained, Reported
  <2>4. QED
    BY <2>2, <2>3
<1>2. I /\ [Next]_vars => I'
  <2>1. SUFFICES ASSUME I, [Next]_vars PROVE I'
    OBVIOUS
  <2>2. Types' /\ Heard' /\ LateIsOver'
    BY <2>1, TypesStep, LateStep
  <2>3. config' = config
    BY <2>1, ConfigStays
  <2>4. QED
    BY <2>1, <2>2, <2>3, ContainedStep
<1>3. I => FailureIsContained
  BY DEF FailureIsContained, Reported
<1>4. QED
  BY <1>1, <1>2, <1>3, PTL DEF Spec

-----------------------------------------------------------------------------
(* Boards that answer within the timeouts, with any menu: the number of a  *)
(* stage may be the index of a case, as when the indices start at 1.       *)

\* The board has not got to a result of case k.
NotRun(k) == \A s \in Nat, r \in Outcomes : <<k, s, r>> \notin did

Hung == dev.st = "hung"

\* The board waits in its menu with the lines q to read, unless it hangs.
AtMenu(q) == Hung \/ (dev.st = "menu" /\ inp = q)

\* It waits for the number of a stage of the case.
Chooses == LastStage(case) # 0 /\ (Hung \/ (dev.st = "sub" /\ dev.case = case /\ inp = <<>>))

Named(k) == Line("name", k, "")
Ended(k) == Line("end", k, "")

\* Nothing that was printed is about the case.
Unheard == \A i \in 1..Len(out) : out[i].case # case

\* The board is at no case, and empty lines are all it has to read.
Idle ==
    \/ Hung
    \/ dev.st \in {"boot", "menu", "prompt"} /\ \A i \in 1..Len(inp) : inp[i] = 0

\* The case has not begun; its index may be the last line to read.
Waiting ==
    /\ Unheard /\ NotRun(case)
    /\ \/ Hung
       \/ /\ dev.st \in {"boot", "menu", "prompt"}
          /\ \A i \in 1..Len(inp) : inp[i] = 0 \/ (i = Len(inp) /\ inp[i] = Index(case))

\* Where stage s of the case has got to: what it has printed comes after the first n lines.
\* Its number was written,
Called(s, n) ==
    /\ Len(out) = n
    /\ Hung \/ (dev.st = "sub" /\ dev.case = case /\ s # 0 /\ inp = <<s>>)

\* it runs,
Going(s, n) ==
    Len(out) = n /\ dev.st = "run" /\ dev.case = case /\ dev.stage = s /\ inp = <<>>

\* the board has restarted,
Again(s, n) ==
    /\ s < LastStage(case) => <<case, s, "restart">> \in did
    /\ \/ Len(out) = n /\ dev.st = "boot" /\ inp = <<>>
       \/ Len(out) = n + 1 /\ out[n + 1] = Text("press") /\ AtMenu(<<>>)

\* or it is over, with result r.
Finished(s, n, r) ==
    /\ <<case, s, r>> \in did
    /\ Len(out) > n /\ out[n + 1] = Line("result", case, r)
    /\ \/ Len(out) = n + 1 /\ dev.st = "ended" /\ dev.case = case /\ inp = <<>>
       \/ Len(out) = n + 2 /\ out[n + 2] = Ended(case) /\ dev.st = "prompt" /\ inp = <<>>
       \/ /\ Len(out) = n + 3 /\ out[n + 2] = Ended(case) /\ out[n + 3] = Text("next")
          /\ AtMenu(<<>>)

Course(s, n) == Called(s, n) \/ Going(s, n) \/ Again(s, n) \/ \E r \in Outcomes : Finished(s, n, r)

\* Unless a failure is already kept, the case has failed only if that is the next result.
NoFail(n) ==
    failed = 0 => \A s \in Nat : <<case, s, "FAIL">> \in did =>
                    Len(out) > n /\ out[n + 1] = Line("result", case, "FAIL")

\* The first n stages of the case were gone through.
Clean(n) == failed = 0 => \A s \in 1..n : \E r \in {"PASS", "IGNORE", "restart"} : <<case, s, r>> \in did

\* Line n is the first that is about the case: the board has started it.
Begun(n) ==
    /\ out[n] = Named(case)
    /\ \A i \in 1..(n - 1) : out[i].case # case
    /\ \/ Chooses /\ Len(out) = n /\ NotRun(case)
       \/ LastStage(case) = 0 /\ Course(0, n) /\ NoFail(n)

Starting == Waiting \/ \E n \in 1..Len(out) : Begun(n)

Restarting ==
    /\ Clean(stage) /\ NoFail(Len(out))
    /\ \/ Len(out) = 0 /\ AtMenu(<<Index(case)>>)
       \/ Len(out) = 1 /\ out[1] = Named(case) /\ Chooses

\* The runner and the board are at the same point of the same case.
InStep ==
    /\ pc \in {"press", "menu", "reset", "next", "ready", "raised"} => Idle
    /\ pc \in {"reset", "ready"} /\ case # 0 => Unheard /\ NotRun(case)
    /\ pc = "name" => Starting
    /\ pc = "stageName" => Restarting
    /\ pc \in {"stageReady", "result"} => Course(stage, 0) /\ NoFail(0) /\ Clean(stage - 1)
    /\ pc = "result" => stage = LastStage(case) \/ (Hung /\ Len(out) = 0)

AllStages(k) ==
    /\ <<k, LastStage(k), "PASS">> \in did
    /\ \A s \in 1..(LastStage(k) - 1) : \E r \in {"PASS", "IGNORE", "restart"} : <<k, s, r>> \in did
    /\ \A s \in 0..LastStage(k) : <<k, s, "FAIL">> \notin did

\* What the board did of the cases before the present one and after it.
Others ==
    /\ \A k \in Case : k > case => NotRun(k)
    /\ \A i \in 1..Len(out) : out[i].case <= case
    /\ \A k \in Case : Reported(k, "SKIPPED") => NotRun(k)
    /\ \A k \in Case : Reported(k, "PASS") => AllStages(k)

LateHangs == late => Hung /\ pc \in {"result", "next"}

FastInv ==
    /\ Types /\ Heard /\ Progress /\ FailedIsPresent /\ Earned
    /\ Others /\ LateHangs /\ InStep

-----------------------------------------------------------------------------
(* What the board prints. *)

\* One line more.
Says(l) ==
    /\ Len(out') = Len(out) + 1 /\ out'[Len(out) + 1] = l
    /\ \A i \in 1..Len(out) : out'[i] = out[i]

LEMMA OneSaid ==
    ASSUME Types, NEW l \in OutLine, out' = out \o <<l>>
    PROVE  Says(l) /\ Len(out) \in Nat
<1>1. out \in Seq(OutLine) /\ Len(out) \in Nat
  BY DEF Types, BoardTypes
<1>2. out' \in Seq(OutLine) /\ Len(out') = Len(out) + 1 /\ out'[Len(out) + 1] = l
  BY <1>1
<1>3. \A i \in 1..Len(out) : out'[i] = out[i]
  BY <1>1, ConcatFacts
<1>4. QED
  BY <1>1, <1>2, <1>3 DEF Says

LEMMA TextSaid ==
    ASSUME Types, NEW t \in {"press", "menu", "enter", "next"}, out' = out \o <<Text(t)>>
    PROVE  Says(Text(t))
<1>1. PICK l : l = Text(t)
  OBVIOUS
<1>2. l \in OutLine /\ out' = out \o <<l>>
  BY <1>1, LinesPrinted
<1>3. QED
  BY <1>1, <1>2, OneSaid

LEMMA LineSaid ==
    ASSUME Types, NEW t \in {"name", "end"}, NEW k \in Case, out' = out \o <<Line(t, k, "")>>
    PROVE  Says(Line(t, k, ""))
<1>1. PICK l : l = Line(t, k, "")
  OBVIOUS
<1>2. l \in OutLine /\ out' = out \o <<l>>
  BY <1>1, LinesPrinted
<1>3. QED
  BY <1>1, <1>2, OneSaid

LEMMA ResultSaid ==
    ASSUME Types, NEW r \in Outcomes, NEW k \in Case,
           out' = out \o <<Line("result", k, r)>>
    PROVE  Says(Line("result", k, r))
<1>1. PICK l : l = Line("result", k, r)
  OBVIOUS
<1>2. l \in OutLine /\ out' = out \o <<l>>
  BY <1>1, LinesPrinted
<1>3. QED
  BY <1>1, <1>2, OneSaid

\* Each step of the board.
LEMMA BootFacts ==
    ASSUME Types, Boot
    PROVE  /\ dev.st = "boot" /\ dev'.st = "menu" /\ Says(Text("press")) /\ did' = did
           /\ inp' \in {inp, <<>>}
  BY TextSaid, DevFacts DEF Boot, Board, Types

LEMMA IndexFacts ==
    ASSUME Types, ReadIndex
    PROVE  /\ dev.st = "menu" /\ 1 \in 1..Len(inp) /\ Len(inp) \in Nat /\ did' = did
           /\ inp' \in Seq(Nat) /\ Len(inp') = Len(inp) - 1
           /\ \A i \in 1..Len(inp') : i + 1 \in 1..Len(inp) /\ inp'[i] = inp[i + 1]
           /\ \/ \E k \in Case :
                   /\ Index(k) = inp[1] /\ Says(Named(k))
                   /\ dev' = [st |-> IF LastStage(k) = 0 THEN "run" ELSE "sub", case |-> k, stage |-> 0]
              \/ /\ \A k \in Case : Index(k) # inp[1]
                 /\ dev' = dev
                 /\ \A i \in 1..Len(out') : \/ i \in 1..Len(out) /\ out'[i] = out[i]
                                            \/ i > Len(out) /\ out'[i].case = 0
<1>0. inp \in Seq(Nat) /\ inp # <<>> /\ inp' = Tail(inp) /\ dev.st = "menu" /\ did' = did
  BY DEF ReadIndex, Board, Types, BoardTypes
<1>1. Len(inp) \in Nat /\ Len(inp) # 0
  BY <1>0
<1>2. Reads(1) /\ Head(inp) = inp[1] /\ 1 \in 1..Len(inp)
  BY OneRead DEF ReadIndex, Types
<1>3. inp' \in Seq(Nat) /\ Len(inp') = Len(inp) - 1
  BY <1>0, <1>1
<1>4. CASE \E k \in Case : Index(k) = inp[1]
  <2>1. PICK k \in Case :
          /\ Index(k) = inp[1]
          /\ Board([st |-> IF LastStage(k) = 0 THEN "run" ELSE "sub", case |-> k, stage |-> 0],
                   <<Line("name", k, "")>>, {})
    BY <1>2, <1>4 DEF ReadIndex
  <2>2. Says(Named(k))
    BY <2>1, LineSaid DEF Board, Named
  <2>3. dev' = [st |-> IF LastStage(k) = 0 THEN "run" ELSE "sub", case |-> k, stage |-> 0]
    BY <2>1 DEF Board
  <2>4. QED
    BY <1>0, <1>1, <1>2, <1>3, <2>1, <2>2, <2>3 DEF Reads
<1>5. CASE \A k \in Case : Index(k) # inp[1]
  <2>1. dev' = dev /\ out' = out \o <<Text("menu"), Text("enter")>>
    BY <1>2, <1>5 DEF ReadIndex, Board
  <2>2. PICK l1 : l1 = Text("menu")
    OBVIOUS
  <2>3. PICK l2 : l2 = Text("enter")
    OBVIOUS
  <2>4. l1 \in OutLine /\ l2 \in OutLine /\ l1.case = 0 /\ l2.case = 0
    BY <2>2, <2>3, LinesPrinted
  <2>5. out' = out \o <<l1, l2>>
    BY <2>1, <2>2, <2>3
  <2> HIDE <2>2, <2>3
  <2>6. out \in Seq(OutLine) /\ Len(out) \in Nat
    BY DEF Types, BoardTypes
  <2> DEFINE q == <<l1, l2>>
  <2>7. q \in Seq(OutLine) /\ \A i \in 1..Len(q) : q[i].case = 0
    BY <2>4
  <2> HIDE DEF q
  <2>8. out' = out \o q
    BY <2>5 DEF q
  <2>9. \A i \in 1..Len(out') : \/ i \in 1..Len(out) /\ out'[i] = out[i]
                                \/ i > Len(out) /\ out'[i].case = 0
    BY <2>6, <2>7, <2>8, ConcatFacts
  <2>10. QED
    BY <1>0, <1>1, <1>2, <1>3, <1>5, <2>1, <2>9 DEF Reads
<1>6. QED
  BY <1>4, <1>5

LEMMA StageFacts ==
    ASSUME Types, ReadStage
    PROVE  /\ dev.st = "sub" /\ 1 \in 1..Len(inp) /\ did' = did /\ inp' = Tail(inp)
           /\ inp[1] \in 1..LastStage(dev.case) =>
                out' = out /\ dev'.st = "run" /\ dev'.case = dev.case /\ dev'.stage = inp[1]
<1>1. dev.st = "sub" /\ inp' = Tail(inp) /\ did' = did
  BY DEF ReadStage, Board
<1>2. Head(inp) = inp[1] /\ 1 \in 1..Len(inp)
  BY OneRead DEF ReadStage, Types
<1>3. out \o <<>> = out
  BY DEF Types, BoardTypes
<1>4. ASSUME inp[1] \in 1..LastStage(dev.case)
      PROVE  out' = out /\ dev'.st = "run" /\ dev'.case = dev.case /\ dev'.stage = inp[1]
  <2>1. out' = out \o <<>> /\ dev' = [dev EXCEPT !.st = "run", !.stage = inp[1]]
    BY <1>2, <1>4 DEF ReadStage, Board
  <2>2. QED
    BY <2>1, <1>3 DEF Types, BoardTypes
<1>5. QED
  BY <1>1, <1>2, <1>4

LEMMA ConcludeFacts ==
    ASSUME Types, NEW r \in Outcomes, Conclude(r)
    PROVE  /\ dev.st = "run" /\ dev'.st = "ended" /\ dev'.case = dev.case /\ dev'.stage = dev.stage
           /\ Says(Line("result", dev.case, r)) /\ inp' = inp
           /\ did' = did \cup {<<dev.case, dev.stage, r>>}
<1>1. dev.st = "run" /\ dev.case \in Case
  BY DEF Conclude, Types, BoardTypes, Busy
<1>2. Says(Line("result", dev.case, r))
  BY <1>1, ResultSaid DEF Conclude, Board
<1>3. QED
  BY <1>1, <1>2, DevFacts DEF Conclude, Board, Outcome, Types

LEMMA RestartFacts ==
    ASSUME Types, Restart
    PROVE  /\ dev.st = "run" /\ dev'.st = "boot" /\ out' = out /\ inp' = <<>>
           /\ did' = did \cup {<<dev.case, dev.stage, IF dev.stage < LastStage(dev.case)
                                                      THEN "restart" ELSE "crash">>}
<1>1. out \o <<>> = out
  BY DEF Types, BoardTypes
<1>2. QED
  BY <1>1, DevFacts DEF Restart, Board, Outcome, Types

LEMMA SummaryFacts ==
    ASSUME Types, Summary
    PROVE  /\ dev.st = "ended" /\ dev'.st = "prompt" /\ Says(Ended(dev.case))
           /\ inp' = inp /\ did' = did
<1>1. dev.st = "ended" /\ dev.case \in Case
  BY DEF Summary, Types, BoardTypes, Busy
<1>2. Says(Ended(dev.case))
  BY <1>1, LineSaid DEF Summary, Board, Ended
<1>3. QED
  BY <1>1, <1>2, DevFacts DEF Summary, Board, Types

LEMMA PromptFacts ==
    ASSUME Types, Prompt
    PROVE  /\ dev.st = "prompt" /\ dev'.st = "menu" /\ Says(Text("next"))
           /\ inp' = inp /\ did' = did
  BY TextSaid, DevFacts DEF Prompt, Board, Types

LEMMA HangFacts ==
    ASSUME Types, Hang
    PROVE  /\ dev.st \in {"menu", "sub", "run"} /\ Hung' /\ out' = out /\ inp' = inp /\ did' = did
  BY DevFacts DEF Hang, Types, Hung

LEMMA NamesAndEnds ==
    \A k \in Case : /\ Named(k).t = "name" /\ Named(k).case = k /\ Named(k) # Text("press")
                    /\ Ended(k).t = "end" /\ Ended(k).case = k
  BY DEF Named, Ended, Line, Text

LEMMA BoardAlone ==
    ASSUME Firmware \/ Hang
    PROVE  /\ UNCHANGED <<config, pc, case, attempt, tries, stage, failed, late, ignoreReady, report>>
           /\ ~Hung /\ LastStage(case)' = LastStage(case) /\ Index(case)' = Index(case)
<1>1. config' = config /\ UNCHANGED runnerVars
  BY DEF Firmware, Boot, ReadIndex, ReadStage, Conclude, Restart, Summary, Prompt, Board, Hang
<1>2. ~Hung
  BY DEF Firmware, Boot, ReadIndex, ReadStage, Conclude, Restart, Summary, Prompt, Hang, Hung
<1>3. QED
  BY <1>1, <1>2 DEF runnerVars, LastStage, Index

-----------------------------------------------------------------------------
(* The course of a stage. *)

LEMMA CalledStep ==
    ASSUME Types, case \in Case, NEW n \in Nat, NEW s \in 0..LastStage(case), Called(s, n), NoFail(n),
           Firmware \/ Hang
    PROVE  Course(s, n)' /\ NoFail(n)'
<1>0. UNCHANGED <<case, failed>> /\ ~Hung
  BY BoardAlone
<1>1. Len(out) = n /\ dev.st = "sub" /\ dev.case = case /\ s # 0 /\ inp = <<s>>
  BY <1>0 DEF Called
<1>2. inp[1] = s /\ s \in 1..LastStage(case) /\ Tail(inp) = <<>>
  BY <1>1, CaseFacts
<1>3. CASE ReadStage
  <2>1. out' = out /\ did' = did /\ inp' = <<>> /\ dev'.st = "run" /\ dev'.case = case /\ dev'.stage = s
    BY <1>1, <1>2, <1>3, StageFacts
  <2>2. Going(s, n)'
    BY <2>1, <1>0, <1>1 DEF Going
  <2>3. NoFail(n)'
    BY <2>1, <1>0 DEF NoFail
  <2>4. QED
    BY <2>2, <2>3 DEF Course
<1>4. CASE Hang
  <2>1. Hung' /\ out' = out /\ did' = did
    BY <1>4, HangFacts
  <2>2. Called(s, n)' /\ NoFail(n)'
    BY <2>1, <1>0, <1>1 DEF Called, NoFail
  <2>3. QED
    BY <2>2 DEF Course
<1>5. QED
  BY <1>1, <1>3, <1>4 DEF Firmware, Boot, ReadIndex, Conclude, Restart, Summary, Prompt

LEMMA GoingStep ==
    ASSUME Types, case \in Case, NEW n \in Nat, NEW s \in 0..LastStage(case), Going(s, n), NoFail(n),
           Firmware \/ Hang
    PROVE  Course(s, n)' /\ NoFail(n)'
<1>0. UNCHANGED <<case, failed>> /\ LastStage(case)' = LastStage(case)
  BY BoardAlone
<1>1. Len(out) = n /\ dev.st = "run" /\ dev.case = case /\ dev.stage = s /\ inp = <<>>
  BY DEF Going
<1>2. failed = 0 => \A t \in Nat : <<case, t, "FAIL">> \notin did
  BY <1>1 DEF NoFail
<1>3. ASSUME NEW r \in Outcomes, Conclude(r)
      PROVE  Course(s, n)' /\ NoFail(n)'
  <2>1. /\ dev'.st = "ended" /\ dev'.case = case /\ inp' = <<>>
        /\ did' = did \cup {<<case, s, r>>}
        /\ Len(out') = n + 1 /\ out'[n + 1] = Line("result", case, r)
    BY <1>1, <1>3, ConcludeFacts DEF Says
  <2>2. Finished(s, n, r)'
    BY <2>1, <1>0 DEF Finished
  <2>3. \A t \in Nat : <<case, t, "FAIL">> \in did' => <<case, t, "FAIL">> \in did \/ r = "FAIL"
    BY <2>1
  <2>4. NoFail(n)'
    BY <2>1, <2>3, <1>0, <1>2 DEF NoFail
  <2>5. QED
    BY <2>2, <2>4 DEF Course
<1>4. CASE Restart
  <2>1. /\ dev'.st = "boot" /\ out' = out /\ inp' = <<>>
        /\ did' = did \cup {<<case, s, IF s < LastStage(case) THEN "restart" ELSE "crash">>}
    BY <1>1, <1>4, RestartFacts
  <2>2. Again(s, n)'
    BY <2>1, <1>0, <1>1 DEF Again
  <2>3. \A t \in Nat : <<case, t, "FAIL">> \in did' => <<case, t, "FAIL">> \in did
    BY <2>1
  <2>4. NoFail(n)'
    BY <2>3, <1>0, <1>2 DEF NoFail
  <2>5. QED
    BY <2>2, <2>4 DEF Course
<1>5. CASE Hang
  <2>1. Hung' /\ out' = out /\ did' = did
    BY <1>5, HangFacts
  <2>2. Called(s, n)' /\ NoFail(n)'
    BY <2>1, <1>0, <1>1 DEF Called, NoFail
  <2>3. QED
    BY <2>2 DEF Course
<1>6. QED
  BY <1>1, <1>3, <1>4, <1>5 DEF Firmware, Boot, ReadIndex, ReadStage, Summary, Prompt

LEMMA AgainStep ==
    ASSUME Types, NEW n \in Nat, NEW s \in Nat, Again(s, n), NoFail(n), Firmware \/ Hang
    PROVE  Course(s, n)' /\ NoFail(n)'
<1>0. UNCHANGED <<case, failed>> /\ LastStage(case)' = LastStage(case) /\ ~Hung
  BY BoardAlone
<1>1. s < LastStage(case) => <<case, s, "restart">> \in did
  BY DEF Again
<1>2. failed = 0 => \A t \in Nat : <<case, t, "FAIL">> \notin did
  <2>1. Text("press") # Line("result", case, "FAIL")
    BY DEF Text, Line
  <2>2. QED
    BY <2>1 DEF NoFail, Again
<1>3. CASE Boot
  <2>1. Len(out) = n /\ inp = <<>>
    BY <1>0, <1>3, BootFacts DEF Again, AtMenu
  <2>2. /\ dev'.st = "menu" /\ did' = did /\ inp' = <<>>
        /\ Len(out') = n + 1 /\ out'[n + 1] = Text("press")
    BY <2>1, <1>3, BootFacts DEF Says
  <2>3. Again(s, n)'
    BY <2>2, <1>0, <1>1 DEF Again, AtMenu
  <2>4. NoFail(n)'
    BY <2>2, <1>0, <1>2 DEF NoFail
  <2>5. QED
    BY <2>3, <2>4 DEF Course
<1>4. CASE Hang
  <2>1. Hung' /\ out' = out /\ did' = did /\ dev.st # "boot"
    BY <1>4, HangFacts
  <2>2. Len(out) = n + 1 /\ out[n + 1] = Text("press")
    BY <2>1 DEF Again
  <2>3. Again(s, n)' /\ NoFail(n)'
    BY <2>1, <2>2, <1>0, <1>1 DEF Again, AtMenu, NoFail
  <2>4. QED
    BY <2>3 DEF Course
<1>5. dev.st = "boot" \/ (dev.st = "menu" /\ inp = <<>>)
  BY <1>0 DEF Again, AtMenu
<1>6. QED
  BY <1>3, <1>4, <1>5 DEF Firmware, ReadIndex, ReadStage, Conclude, Restart, Summary, Prompt

LEMMA FinishedStep ==
    ASSUME Types, case \in Case, NEW n \in Nat, NEW s \in Nat, NEW r \in Outcomes,
           Finished(s, n, r), NoFail(n), Firmware \/ Hang
    PROVE  Course(s, n)' /\ NoFail(n)'
<1>0. UNCHANGED <<case, failed>> /\ ~Hung
  BY BoardAlone
<1>1. <<case, s, r>> \in did /\ Len(out) > n /\ out[n + 1] = Line("result", case, r) /\ Len(out) \in Nat
  BY DEF Finished, Types, BoardTypes
<1>2. n + 1 \in 1..Len(out)
  BY <1>1
<1>3. SUFFICES Finished(s, n, r)' /\ did' = did /\ out'[n + 1] = out[n + 1] /\ Len(out') > n
  BY <1>0 DEF Course, NoFail
<1>4. CASE Summary
  <2>1. Len(out) = n + 1 /\ dev.case = case /\ inp = <<>>
    BY <1>0, <1>4, SummaryFacts DEF Finished, AtMenu
  <2>2. dev'.st = "prompt" /\ inp' = <<>> /\ did' = did /\ Says(Ended(case))
    BY <2>1, <1>4, SummaryFacts
  <2>3. Len(out') = n + 2 /\ out'[n + 2] = Ended(case) /\ out'[n + 1] = out[n + 1]
    BY <2>1, <2>2, <1>2 DEF Says
  <2>5. Finished(s, n, r)'
    BY <2>2, <2>3, <1>0, <1>1 DEF Finished
  <2>6. QED
    BY <2>2, <2>3, <2>5
<1>5. CASE Prompt
  <2>1. Len(out) = n + 2 /\ inp = <<>> /\ out[n + 2] = Ended(case)
    BY <1>0, <1>5, PromptFacts DEF Finished, AtMenu
  <2>2. /\ dev'.st = "menu" /\ inp' = <<>> /\ did' = did
        /\ Len(out') = n + 3 /\ out'[n + 3] = Text("next") /\ out'[n + 1] = out[n + 1]
        /\ out'[n + 2] = out[n + 2]
    BY <2>1, <1>2, <1>5, PromptFacts DEF Says
  <2>3. QED
    BY <2>1, <2>2, <1>0, <1>1 DEF Finished, AtMenu
<1>6. CASE Hang
  <2>1. Hung' /\ out' = out /\ did' = did /\ dev.st \notin {"ended", "prompt"}
    BY <1>6, HangFacts
  <2>2. Len(out) = n + 3 /\ out[n + 2] = Ended(case) /\ out[n + 3] = Text("next")
    BY <2>1 DEF Finished
  <2>3. AtMenu(<<>>)'
    BY <2>1, <1>0 DEF AtMenu
  <2>4. Finished(s, n, r)'
    BY <2>1, <2>2, <2>3, <1>0, <1>1 DEF Finished
  <2>5. QED
    BY <2>1, <2>4, <1>1
<1>7. dev.st \in {"ended", "prompt"} \/ (dev.st = "menu" /\ inp = <<>>)
  BY <1>0 DEF Finished, AtMenu
<1>8. QED
  BY <1>4, <1>5, <1>6, <1>7 DEF Firmware, Boot, ReadIndex, ReadStage, Conclude, Restart

LEMMA CourseStep ==
    ASSUME Types, case \in Case, NEW n \in Nat, NEW s \in 0..LastStage(case), Course(s, n), NoFail(n),
           Firmware \/ Hang
    PROVE  Course(s, n)' /\ NoFail(n)'
  BY CalledStep, GoingStep, AgainStep, FinishedStep DEF Course

-----------------------------------------------------------------------------
(* The steps of the board keep it in step with the runner. *)

\* What was printed stays, and what is added is not about the case.
PrintsNothing ==
    \A i \in 1..Len(out') : \/ i \in 1..Len(out) /\ out'[i] = out[i]
                            \/ i > Len(out) /\ out'[i].case = 0

LEMMA SaysText ==
    ASSUME Types, NEW t \in {"press", "menu", "enter", "next"}, Says(Text(t))
    PROVE  PrintsNothing
<1>1. Text(t).case = 0
  BY DEF Text
<1>2. Len(out) \in Nat
  BY DEF Types, BoardTypes
<1>3. QED
  BY <1>1, <1>2 DEF Says, PrintsNothing

\* A board that is at no case and reads no index does not get to one.
LEMMA QuietBoard ==
    ASSUME Types, dev.st \in {"boot", "menu", "prompt"}, Firmware \/ Hang,
           dev.st = "menu" /\ 1 \in 1..Len(inp) => \A k \in Case : inp[1] # Index(k)
    PROVE  /\ did' = did /\ PrintsNothing /\ dev'.st \in {"menu", "hung"}
           /\ \/ inp' \in {inp, <<>>}
              \/ /\ Len(inp) \in Nat /\ Len(inp') = Len(inp) - 1
                 /\ \A i \in 1..Len(inp') : i + 1 \in 1..Len(inp) /\ inp'[i] = inp[i + 1]
<1>1. CASE Boot
  BY <1>1, BootFacts, SaysText
<1>2. CASE ReadIndex
  BY <1>2, IndexFacts DEF PrintsNothing
<1>3. CASE Prompt
  BY <1>3, PromptFacts, SaysText
<1>4. CASE Hang
  <2>1. Len(out) \in Nat
    BY DEF Types, BoardTypes
  <2>2. QED
    BY <2>1, <1>4, HangFacts DEF PrintsNothing, Hung
<1>5. QED
  BY <1>1, <1>2, <1>3, <1>4 DEF Firmware, ReadStage, Conclude, Restart, Summary

LEMMA IdleStep ==
    ASSUME Types, Idle, Firmware \/ Hang
    PROVE  Idle' /\ did' = did /\ PrintsNothing
<1>1. dev.st \in {"boot", "menu", "prompt"} /\ \A i \in 1..Len(inp) : inp[i] = 0
  BY BoardAlone DEF Idle
<1>2. 1 \in 1..Len(inp) => \A k \in Case : inp[1] # Index(k)
  BY <1>1, CaseFacts
<1>3. /\ did' = did /\ PrintsNothing /\ dev'.st \in {"menu", "hung"}
      /\ \A i \in 1..Len(inp') : inp'[i] = 0
  BY <1>1, <1>2, QuietBoard
<1>4. QED
  BY <1>3 DEF Idle, Hung

LEMMA UnheardStays ==
    ASSUME case \in Case, case' = case, Unheard, PrintsNothing
    PROVE  Unheard'
  BY CaseFacts DEF Unheard, PrintsNothing

\* The board reads the index of the case, and prints its name.
LEMMA CaseIsRead ==
    ASSUME Types, case \in Case, ReadIndex, inp[1] = Index(case), Len(inp) = 1
    PROVE  /\ Says(Named(case)) /\ did' = did /\ inp' = <<>>
           /\ dev' = [st |-> IF LastStage(case) = 0 THEN "run" ELSE "sub", case |-> case, stage |-> 0]
<1>1. inp' \in Seq(Nat) /\ Len(inp') = 0 /\ did' = did
  BY IndexFacts
<1>2. inp' = <<>>
  BY <1>1
<1>3. PICK k \in Case :
        /\ Index(k) = inp[1] /\ Says(Named(k))
        /\ dev' = [st |-> IF LastStage(k) = 0 THEN "run" ELSE "sub", case |-> k, stage |-> 0]
  BY IndexFacts
<1>4. k = case
  BY <1>3, CaseFacts
<1>5. QED
  BY <1>1, <1>2, <1>3, <1>4

LEMMA WaitingStep ==
    ASSUME Types, case \in Case, Waiting, Firmware \/ Hang
    PROVE  Starting'
<1>0. UNCHANGED <<case, failed>> /\ LastStage(case)' = LastStage(case) /\ Index(case)' = Index(case) /\ ~Hung
  BY BoardAlone
<1>1. /\ dev.st \in {"boot", "menu", "prompt"} /\ Unheard /\ NotRun(case)
      /\ \A i \in 1..Len(inp) : inp[i] = 0 \/ (i = Len(inp) /\ inp[i] = Index(case))
  BY <1>0 DEF Waiting
<1>2. CASE ReadIndex /\ inp[1] = Index(case)
  <2>1. Len(inp) = 1
    <3>1. 1 \in 1..Len(inp)
      BY <1>2, IndexFacts
    <3>2. QED
      BY <3>1, <1>1, <1>2, CaseFacts
  <2>2. /\ Says(Named(case)) /\ did' = did /\ inp' = <<>>
        /\ dev' = [st |-> IF LastStage(case) = 0 THEN "run" ELSE "sub", case |-> case, stage |-> 0]
    BY <2>1, <1>2, CaseIsRead
  <2>3. PICK n : n = Len(out')
    OBVIOUS
  <2>4. n \in Nat /\ n \in 1..Len(out') /\ out'[n] = Named(case) /\ \A i \in 1..(n - 1) : out'[i] = out[i] /\ i \in 1..Len(out)
    <3>1. Len(out) \in Nat
      BY DEF Types, BoardTypes
    <3>2. QED
      BY <3>1, <2>2, <2>3 DEF Says
  <2>5. NotRun(case)'
    BY <2>2, <1>0, <1>1 DEF NotRun
  <2>6. \A i \in 1..(n - 1) : out'[i].case # case
    BY <2>4, <1>1 DEF Unheard
  <2>7. CASE LastStage(case) = 0
    <3>1. Going(0, n)'
      BY <2>2, <2>3, <2>7, <1>0 DEF Going
    <3>2. NoFail(n)'
      BY <2>5 DEF NoFail, NotRun
    <3>3. Begun(n)'
      BY <3>1, <3>2, <2>4, <2>6, <2>7, <1>0 DEF Begun, Course
    <3>4. QED
      BY <3>3, <2>4 DEF Starting
  <2>8. CASE LastStage(case) # 0
    <3>1. Chooses'
      BY <2>2, <2>8, <1>0 DEF Chooses
    <3>2. Begun(n)'
      BY <3>1, <2>3, <2>4, <2>5, <2>6, <1>0 DEF Begun
    <3>3. QED
      BY <3>2, <2>4 DEF Starting
  <2>9. QED
    BY <2>7, <2>8
<1>3. CASE ~(ReadIndex /\ inp[1] = Index(case))
  <2>1. CASE ~ReadIndex \/ inp[1] = 0
    <3>1. ReadIndex => \A k \in Case : inp[1] # Index(k)
      BY <2>1, CaseFacts
    <3>2. /\ did' = did /\ PrintsNothing /\ dev'.st \in {"menu", "hung"}
          /\ \A i \in 1..Len(inp') : inp'[i] = 0 \/ (i = Len(inp') /\ inp'[i] = Index(case))
      <4>1. CASE ReadIndex
        BY <4>1, <3>1, <1>1, QuietBoard
      <4>2. CASE Boot
        BY <4>2, <1>1, BootFacts, SaysText
      <4>3. CASE Prompt
        BY <4>3, <1>1, PromptFacts, SaysText
      <4>4. CASE Hang
        <5>1. Len(out) \in Nat
          BY DEF Types, BoardTypes
        <5>2. QED
          BY <5>1, <4>4, <1>1, HangFacts DEF PrintsNothing, Hung
      <4>5. QED
        BY <4>1, <4>2, <4>3, <4>4, <1>1 DEF Firmware, ReadStage, Conclude, Restart, Summary
    <3>3. Unheard' /\ NotRun(case)'
      BY <3>2, <1>0, <1>1, UnheardStays DEF NotRun
    <3>4. QED
      BY <3>2, <3>3, <1>0 DEF Starting, Waiting, Hung
  <2>2. CASE ReadIndex /\ inp[1] # 0
    BY <2>2, <1>1, <1>3, IndexFacts
  <2>3. QED
    BY <2>1, <2>2
<1>4. QED
  BY <1>2, <1>3

\* What was printed stays, in any step of the board.
LEMMA OutGrows ==
    ASSUME Types, Heard, Firmware \/ Hang
    PROVE  /\ Len(out) \in Nat /\ Len(out') \in Nat /\ Len(out) <= Len(out')
           /\ \A i \in 1..Len(out) : i \in 1..Len(out') /\ out'[i] = out[i]
<1>1. BoardKeeps
  BY BootKeeps, ReadIndexKeeps, ReadStageKeeps, ConcludeKeeps, RestartKeeps,
     SummaryKeeps, PromptKeeps, HangKeeps DEF Firmware
<1>2. PICK c : Prints(c)
  BY <1>1 DEF BoardKeeps, Goes
<1>3. Len(out) \in Nat /\ Len(out') \in Nat /\ Len(out) <= Len(out')
  BY <1>2 DEF Prints, Types, BoardTypes
<1>4. QED
  BY <1>2, <1>3 DEF Prints

LEMMA ChoosesStep ==
    ASSUME Types, Chooses, Firmware \/ Hang
    PROVE  Chooses' /\ out' = out /\ did' = did
<1>0. case' = case /\ LastStage(case)' = LastStage(case) /\ ~Hung
  BY BoardAlone
<1>1. dev.st = "sub" /\ inp = <<>> /\ LastStage(case) # 0
  BY <1>0 DEF Chooses
<1>2. Hang
  BY <1>1 DEF Firmware, Boot, ReadIndex, ReadStage, Conclude, Restart, Summary, Prompt
<1>3. QED
  BY <1>0, <1>1, <1>2, HangFacts DEF Chooses

LEMMA StartingStep ==
    ASSUME Types, Heard, case \in Case, Starting, Firmware \/ Hang
    PROVE  Starting'
<1>0. UNCHANGED <<case, failed>> /\ LastStage(case)' = LastStage(case)
  BY BoardAlone
<1>1. CASE Waiting
  BY <1>1, WaitingStep
<1>2. ASSUME NEW n \in 1..Len(out), Begun(n)
      PROVE  Starting'
  <2>1. n \in Nat /\ n \in 1..Len(out') /\ out'[n] = Named(case) /\ \A i \in 1..(n - 1) : out'[i].case # case
    BY <1>2, OutGrows DEF Begun
  <2>2. CASE Chooses /\ Len(out) = n /\ NotRun(case)
    <3>1. Chooses' /\ Len(out') = n /\ did' = did
      BY <2>2, ChoosesStep
    <3>2. NotRun(case)'
      BY <3>1, <2>2, <1>0 DEF NotRun
    <3>3. Begun(n)'
      BY <3>1, <3>2, <2>1, <1>0 DEF Begun
    <3>4. QED
      BY <3>3, <2>1 DEF Starting
  <2>3. CASE LastStage(case) = 0 /\ Course(0, n) /\ NoFail(n)
    <3>1. Course(0, n)' /\ NoFail(n)'
      BY <2>1, <2>3, CourseStep
    <3>2. Begun(n)'
      BY <3>1, <2>1, <2>3, <1>0 DEF Begun
    <3>3. QED
      BY <3>2, <2>1 DEF Starting
  <2>4. QED
    BY <2>2, <2>3, <1>2 DEF Begun
<1>3. QED
  BY <1>1, <1>2 DEF Starting

LEMMA RestartingStep ==
    ASSUME Types, case \in Case, stage < LastStage(case), Restarting, Firmware \/ Hang
    PROVE  Restarting'
<1>0. UNCHANGED <<case, failed, stage>> /\ LastStage(case)' = LastStage(case) /\ Index(case)' = Index(case)
      /\ ~Hung
  BY BoardAlone
<1>a. stage \in Nat /\ LastStage(case) # 0
  BY CaseFacts DEF Types, RunTypes
<1>1. Clean(stage) /\ (failed = 0 => \A s \in Nat : <<case, s, "FAIL">> \notin did)
  BY DEF Restarting, NoFail
<1>2. did' = did => Clean(stage)' /\ NoFail(Len(out))'
  BY <1>0, <1>1 DEF Clean, NoFail
<1>3. CASE Len(out) = 0 /\ AtMenu(<<Index(case)>>)
  <2>1. dev.st = "menu" /\ Len(inp) = 1 /\ inp[1] = Index(case)
    BY <1>0, <1>3 DEF AtMenu
  <2>2. CASE ReadIndex
    <3>1. /\ Says(Named(case)) /\ did' = did /\ inp' = <<>>
          /\ dev' = [st |-> "sub", case |-> case, stage |-> 0]
      BY <2>1, <2>2, <1>a, CaseIsRead
    <3>2. Len(out') = 1 /\ out'[1] = Named(case)
      BY <3>1, <1>3 DEF Says
    <3>3. Chooses'
      BY <3>1, <1>a, <1>0 DEF Chooses
    <3>4. QED
      BY <3>1, <3>2, <3>3, <1>0, <1>2 DEF Restarting
  <2>3. CASE Hang
    BY <2>3, <1>0, <1>2, <1>3, HangFacts DEF Restarting, AtMenu
  <2>4. QED
    BY <2>1, <2>2, <2>3 DEF Firmware, Boot, ReadStage, Conclude, Restart, Summary, Prompt
<1>4. CASE Len(out) = 1 /\ out[1] = Named(case) /\ Chooses
  <2>1. Chooses' /\ out' = out /\ did' = did
    BY <1>4, ChoosesStep
  <2>2. QED
    BY <2>1, <1>0, <1>2, <1>4 DEF Restarting
<1>5. QED
  BY <1>3, <1>4 DEF Restarting

LEMMA BoardInStep ==
    ASSUME Types, Heard, InStep, Firmware \/ Hang
    PROVE  InStep'
<1>0. /\ UNCHANGED <<pc, case, stage, failed>> /\ ~Hung /\ LastStage(case)' = LastStage(case)
  BY BoardAlone
<1>a. /\ pc \in {"press", "menu", "reset", "next", "ready", "name", "stageReady", "stageName",
                 "result", "raised"}
      /\ case # 0 => case \in Case
      /\ pc \in {"ready", "name", "stageReady", "stageName", "result"} => case # 0
      /\ pc \in {"stageReady", "stageName"} => stage < LastStage(case)
      /\ stage \in Nat
  BY DEF Types, RunTypes, Plan
<1>1. CASE pc \in {"press", "menu", "reset", "next", "ready", "raised"}
  <2>1. Idle' /\ did' = did /\ PrintsNothing
    BY <1>1, IdleStep DEF InStep
  <2>2. pc \in {"reset", "ready"} /\ case # 0 => Unheard' /\ NotRun(case)'
    BY <2>1, <1>0, <1>a, UnheardStays DEF InStep, NotRun
  <2>3. QED
    BY <2>1, <2>2, <1>0, <1>1 DEF InStep
<1>2. CASE pc = "name"
  <2>1. Starting'
    BY <1>2, <1>a, StartingStep DEF InStep
  <2>2. QED
    BY <2>1, <1>0, <1>2 DEF InStep
<1>3. CASE pc = "stageName"
  <2>1. Restarting'
    BY <1>3, <1>a, RestartingStep DEF InStep
  <2>2. QED
    BY <2>1, <1>0, <1>3 DEF InStep
<1>4. CASE pc \in {"stageReady", "result"}
  <2>1. case \in Case /\ stage \in 0..LastStage(case) /\ Course(stage, 0) /\ NoFail(0) /\ Clean(stage - 1)
        /\ (pc = "result" => stage = LastStage(case))
    BY <1>0, <1>4, <1>a, CaseFacts DEF InStep
  <2>2. PICK s : s = stage
    OBVIOUS
  <2>3. Course(s, 0)' /\ NoFail(0)'
    BY <2>1, <2>2, CourseStep
  <2>4. Course(stage, 0)'
    BY <2>2, <2>3, <1>0
  <2>5. did \subseteq did'
    BY BootKeeps, ReadIndexKeeps, ReadStageKeeps, ConcludeKeeps, RestartKeeps,
       SummaryKeeps, PromptKeeps, HangKeeps DEF Firmware, BoardKeeps
  <2>6. Clean(stage - 1)'
    BY <2>1, <2>5, <1>0 DEF Clean
  <2>7. QED
    BY <2>1, <2>3, <2>4, <2>6, <1>0, <1>4 DEF InStep
<1>5. QED
  BY <1>1, <1>2, <1>3, <1>4, <1>a

LEMMA CourseIsPresent ==
    ASSUME NEW s, NEW n, Course(s, n)
    PROVE  (Busy => dev.case = case) /\ (dev.st = "menu" => inp = <<>>)
  BY DEF Course, Called, Going, Again, Finished, AtMenu, Hung, Busy

\* The board is at no other case, and reads the index of no other.
LEMMA InStepIsPresent ==
    ASSUME Types, InStep
    PROVE  /\ Busy => dev.case = case /\ pc # "next"
           /\ dev.st = "menu" /\ 1 \in 1..Len(inp) =>
                \A k \in Case : inp[1] = Index(k) => k = case
<1>a. /\ pc \in {"press", "menu", "reset", "next", "ready", "name", "stageReady", "stageName",
                 "result", "raised"}
      /\ pc \in {"name", "stageReady", "stageName", "result"} => case \in Case
  BY DEF Types, RunTypes, Plan
<1>1. CASE pc \in {"press", "menu", "reset", "next", "ready", "raised"}
  <2>1. Idle
    BY <1>1 DEF InStep
  <2>2. QED
    BY <2>1, CaseFacts DEF Idle, Busy, Hung
<1>2. CASE pc = "name"
  <2>1. CASE Waiting
    BY <2>1, <1>2, <1>a, CaseFacts DEF Waiting, Busy, Hung
  <2>2. ASSUME NEW n, Begun(n)
        PROVE  (Busy => dev.case = case) /\ (dev.st = "menu" => inp = <<>>)
    BY <2>2, CourseIsPresent DEF Begun, Chooses, Busy, Hung
  <2>3. QED
    BY <2>1, <2>2, <1>2 DEF InStep, Starting
<1>3. CASE pc = "stageName"
  BY <1>3, <1>a, CaseFacts DEF InStep, Restarting, Chooses, AtMenu, Busy, Hung
<1>4. CASE pc \in {"stageReady", "result"}
  BY <1>4, CourseIsPresent DEF InStep
<1>5. QED
  BY <1>1, <1>2, <1>3, <1>4, <1>a

LEMMA BoardOthers ==
    ASSUME Types, Heard, Progress, Others, InStep, Firmware \/ Hang
    PROVE  Others'
<1>0. UNCHANGED <<config, pc, case, report>>
  BY BoardAlone
<1>a. case \in Nat
  BY CaseFacts DEF Types, RunTypes, Plan
<1>1. BoardKeeps
  BY BootKeeps, ReadIndexKeeps, ReadStageKeeps, ConcludeKeeps, RestartKeeps,
     SummaryKeeps, PromptKeeps, HangKeeps DEF Firmware
<1>2. PICK c \in Case \cup {0}, m \in Nat : Goes(c, m)
  BY <1>1 DEF BoardKeeps
<1>3. c \in {0, case}
  BY <1>2, InStepIsPresent DEF Goes, SpeaksOf
<1>4. \A i \in 1..Len(out') : out'[i].case <= case
  BY <1>2, <1>3, <1>a, OutGrows DEF Goes, Prints, Others
<1>5. ASSUME NEW k \in Case, k # case \/ pc = "next", NEW s, NEW r, <<k, s, r>> \in did'
      PROVE  <<k, s, r>> \in did
  BY <1>2, <1>5, InStepIsPresent DEF Goes, Gets
<1>6. \A k \in Case : NotRun(k) /\ (k # case \/ pc = "next") => NotRun(k)'
  BY <1>5 DEF NotRun
<1>7. ASSUME NEW k \in Case, k # case \/ pc = "next", AllStages(k)
      PROVE  AllStages(k)'
  <2>1. did \subseteq did' /\ LastStage(k)' = LastStage(k)
    BY <1>1 DEF BoardKeeps, LastStage
  <2>2. QED
    BY <2>1, <1>5, <1>7 DEF AllStages
<1>8. \A k \in Case : \A r : Reported(k, r)' => Reported(k, r) /\ (k # case \/ pc = "next")
  BY <1>0, RecordedIsOver DEF Reported
<1>9. \A k \in Case : k > case => k # case
  BY <1>a, CaseFacts
<1>10. QED
  BY <1>0, <1>4, <1>6, <1>7, <1>8, <1>9 DEF Others

LEMMA BoardFast ==
    ASSUME FastInv, Firmware \/ Hang
    PROVE  FastInv' /\ UNCHANGED <<Plan, report>>
<1> USE DEF FastInv
<1>0. UNCHANGED <<config, pc, case, failed, late, report>> /\ ~Hung
  BY BoardAlone
<1>1. BoardKeeps
  BY BootKeeps, ReadIndexKeeps, ReadStageKeeps, ConcludeKeeps, RestartKeeps,
     SummaryKeeps, PromptKeeps, HangKeeps DEF Firmware
<1>2. BoardTypes' /\ Heard' /\ did \subseteq did'
  BY <1>1 DEF BoardKeeps
<1>3. ReportTypes' /\ Progress' /\ Earned'
  BY <1>0, <1>2, NoRecord
<1>4. Types' /\ FailedIsPresent'
  <2>1. [Next]_vars
    BY DEF Next
  <2>2. QED
    BY <2>1, <1>0, TypesStep DEF FailedIsPresent
<1>5. Others' /\ InStep'
  BY BoardOthers, BoardInStep
<1>6. LateHangs'
  BY <1>0 DEF LateHangs
<1>7. QED
  BY <1>0, <1>2, <1>3, <1>4, <1>5, <1>6, PlanIsFixed

-----------------------------------------------------------------------------
(* The steps of the runner keep it in step with the board. *)

\* A step of the runner at one case that records nothing.
LEMMA FastQuiet ==
    ASSUME FastInv, [Next]_vars, \E m \in Nat : Moves(m), report' = report,
           case = 0 \/ (pc' = "next" <=> pc = "next"), failed' = failed \/ FailedIsPresent',
           LateHangs', InStep'
    PROVE  FastInv' /\ UNCHANGED <<Plan, report>>
<1> USE DEF FastInv
<1>1. PICK m \in Nat : Moves(m)
  OBVIOUS
<1>2. config' = config /\ case' = case /\ did' = did
      /\ \A i \in 1..Len(out') : i + m \in 1..Len(out) /\ out'[i] = out[i + m]
  BY <1>1 DEF Moves, Drops
<1>3. Types' /\ Heard'
  BY TypesStep
<1>4. Progress' /\ Earned'
  BY <1>2, NoRecord
<1>5. FailedIsPresent'
  BY <1>2 DEF FailedIsPresent
<1>6. Others'
  BY <1>2 DEF Others, NotRun, AllStages, Reported, LastStage
<1>7. QED
  BY <1>2, <1>3, <1>4, <1>5, <1>6, PlanIsFixed

LEMMA FastRecord ==
    ASSUME FastInv, [Next]_vars, NEW m \in Nat, Moves(m), NEW r, Recorded(r, case), failed' = failed,
           LateHangs', InStep', r = "SKIPPED" => NotRun(case),
           Got(r) /\ (r = "PASS" => AllStages(case))
    PROVE  FastInv' /\ Report!Record
<1> USE DEF FastInv
<1>2. config' = config /\ case' = case /\ did' = did
      /\ \A i \in 1..Len(out') : i + m \in 1..Len(out) /\ out'[i] = out[i + m]
  BY DEF Moves, Drops
<1>3. Types' /\ Heard'
  BY TypesStep
<1>4. Progress' /\ Earned' /\ Report!Record
  BY <1>2, RecordKeeps
<1>5. FailedIsPresent'
  BY <1>2 DEF FailedIsPresent
<1>6. \A k \in Case : /\ Reported(k, "SKIPPED")' => Reported(k, "SKIPPED") \/ (k = case /\ NotRun(k))
                      /\ Reported(k, "PASS")' => Reported(k, "PASS") \/ (k = case /\ AllStages(k))
  BY OnlyRecorded
<1>7. \A k \in Case : (NotRun(k) => NotRun(k)') /\ (AllStages(k) => AllStages(k)')
  BY <1>2 DEF NotRun, AllStages, LastStage
<1>8. Others'
  BY <1>2, <1>6, <1>7 DEF Others
<1>9. QED
  BY <1>3, <1>4, <1>5, <1>8

\* Nothing in time: on a board that answers, it hangs or has nothing to read.
LEMMA SilentBoard ==
    ASSUME Types, LateHangs, ~config.slow, TimeIsUp
    PROVE  /\ Find(Awaited) = 0
           /\ Hung \/ (dev.st \in {"menu", "sub"} /\ inp = <<>>)
           /\ pc \notin {"result", "next"} => ~late
<1>1. Find(Awaited) = 0 /\ (late \/ ~BoardMoves)
  BY DEF TimeIsUp
<1>2. dev.st \in {"boot", "menu", "sub", "run", "ended", "prompt", "hung"}
  BY DEF Types, BoardTypes
<1>3. ~BoardMoves => Hung \/ (dev.st \in {"menu", "sub"} /\ inp = <<>>)
  BY <1>2 DEF BoardMoves, Hung
<1>4. QED
  BY <1>1, <1>3 DEF LateHangs

LEMMA ZeroIsIdle ==
    ASSUME Types, Idle, Write(0), dev' = dev
    PROVE  Idle'
<1>1. inp \in Seq(Nat) /\ Len(inp) \in Nat /\ inp' = Append(inp, 0)
  BY DEF Types, BoardTypes, Write
<1>2. Len(inp') = Len(inp) + 1 /\ \A i \in 1..Len(inp') : inp'[i] = IF i <= Len(inp) THEN inp[i] ELSE 0
  BY <1>1
<1>3. CASE Hung
  BY <1>3 DEF Idle, Hung
<1>4. CASE ~Hung
  BY <1>1, <1>2, <1>4 DEF Idle, Hung
<1>5. QED
  BY <1>3, <1>4

LEMMA ResetIsIdle ==
    ASSUME Types, Idle, NEW p, HardReset(p)
    PROVE  Idle'
<1>1. CASE inp' = <<>> /\ dev' = [st |-> "boot", case |-> 0, stage |-> 0]
  BY <1>1 DEF Idle
<1>2. CASE Write(0) /\ dev' = dev
  BY <1>2, ZeroIsIdle
<1>3. QED
  BY <1>1, <1>2 DEF HardReset, ConfirmWrite

LEMMA UnheardDrops ==
    ASSUME Unheard, NEW m, Drops(m), case' = case
    PROVE  Unheard'
  BY DEF Unheard, Drops

\* The index of the case goes to a board that has nothing to read.
LEMMA IndexSent ==
    ASSUME Types, Hung \/ (dev.st = "menu" /\ inp = <<>>), Write(Index(case)), dev' = dev, case' = case
    PROVE  AtMenu(<<Index(case)>>)'
<1>1. PICK n : n = Index(case)
  OBVIOUS
<1>2. Index(case)' = n
  BY <1>1 DEF Index
<1>3. inp = <<>> => inp' = <<n>>
  BY <1>1 DEF Write
<1>4. QED
  BY <1>2, <1>3 DEF Hung, AtMenu

LEMMA NotNamed ==
    ASSUME Types, Find({"name"}) = 0
    PROVE  /\ \A n \in 1..Len(out) : out[n] # Named(case)
           /\ case \in Case /\ Starting => Waiting
<1>1. Named(case).t = "name" /\ Named(case).case = case
  BY DEF Named, Line
<1>2. \A n \in 1..Len(out) : out[n] # Named(case)
  <2>1. \A j \in 1..Len(out) : ~(out[j].t \in {"name"} /\ (out[j].t = "name" => out[j].case = case))
    BY FindFacts DEF Types, BoardTypes
  <2>2. QED
    BY <2>1, <1>1
<1>3. QED
  BY <1>2 DEF Starting, Begun

LEMMA WriteAgainFast ==
    ASSUME FastInv, ~config.slow, WriteAgain
    PROVE  InStep' /\ LateHangs'
<1> USE DEF FastInv
<1>1. /\ UNCHANGED <<config, pc, case, stage, failed, late, out, did, dev>>
      /\ pc \in {"menu", "reset", "name", "stageName"} /\ Write(Repeated) /\ TimeIsUp
  BY DEF WriteAgain
<1>2. Find(Awaited) = 0
  BY <1>1, SilentBoard
<1>c. Hung \/ (dev.st \in {"menu", "sub"} /\ inp = <<>>)
  BY <1>1, SilentBoard
<1>a. LastStage(case)' = LastStage(case) /\ Index(case)' = Index(case) /\ (pc \in {"name", "stageName"} => case \in Case)
  BY <1>1 DEF LastStage, Index, Types, RunTypes, Plan
<1>b. (Hung' <=> Hung) /\ (Unheard => Unheard') /\ (NotRun(case) => NotRun(case)')
  BY <1>1 DEF Hung, Unheard, NotRun
<1>3. CASE pc \in {"menu", "reset"}
  <2>1. Idle' /\ (pc = "reset" /\ case # 0 => Unheard' /\ NotRun(case)')
    BY <1>1, <1>3, <1>b, ZeroIsIdle DEF InStep, Repeated
  <2>2. QED
    BY <2>1, <1>1, <1>3 DEF InStep, LateHangs, Hung
<1>4. CASE pc = "name"
  <2>0. Find({"name"}) = 0
    BY <1>2, <1>4 DEF Awaited
  <2>1. Waiting
    BY <2>0, <1>4, <1>a, NotNamed DEF InStep
  <2>2. Hung \/ (dev.st = "menu" /\ inp = <<>>)
    BY <2>1, <1>c DEF Waiting
  <2>3. AtMenu(<<Index(case)>>)'
    BY <2>2, <1>1, <1>4, IndexSent DEF Repeated
  <2>4. Waiting'
    <3>1. Unheard' /\ NotRun(case)'
      BY <2>1, <1>b DEF Waiting
    <3>2. CASE Hung'
      BY <3>1, <3>2 DEF Waiting
    <3>3. CASE dev'.st = "menu" /\ inp' = <<Index(case)>>'
      <4>1. PICK n : n = Index(case)'
        OBVIOUS
      <4>2. Len(inp') = 1 /\ inp'[1] = n
        BY <3>3, <4>1
      <4>3. QED
        BY <3>1, <3>3, <4>1, <4>2 DEF Waiting
    <3>4. QED
      BY <3>2, <3>3, <2>3 DEF AtMenu
  <2>5. QED
    BY <2>4, <1>1, <1>4 DEF InStep, Starting, LateHangs, Hung
<1>5. CASE pc = "stageName"
  <2>1. Len(out) = 0 /\ Hung
    <3>1. Find({"name"}) = 0
      BY <1>2, <1>5 DEF Awaited
    <3>2. Len(out) = 0 /\ AtMenu(<<Index(case)>>)
      BY <3>1, <1>5, NotNamed DEF InStep, Restarting
    <3>3. QED
      BY <3>2, <1>c DEF AtMenu
  <2>2. Restarting'
    BY <2>1, <1>1, <1>5, <1>a, <1>b DEF InStep, Restarting, AtMenu, Clean, NoFail
  <2>3. QED
    BY <2>2, <1>1, <1>5 DEF InStep, LateHangs, Hung
<1>6. QED
  BY <1>1, <1>3, <1>4, <1>5

LEMMA MenuFast ==
    ASSUME FastInv, AskForMenu \/ SeeMenu \/ MenuFails
    PROVE  InStep' /\ LateHangs' /\ case = 0 /\ failed' = failed
<1> USE DEF FastInv
<1>1. case = 0 /\ case' = 0 /\ failed' = failed
  BY DEF AskForMenu, SeeMenu, MenuFails, Types, RunTypes
<1>2. pc \in {"press", "menu", "reset", "next", "raised"} /\ pc' \in {"menu", "reset", "next", "raised"}
  BY <1>1 DEF AskForMenu, SeeMenu, MenuFails, ConfirmWrite, HardReset, Types, RunTypes
<1>3. Idle
  BY <1>2 DEF InStep
<1>4. Idle'
  <2>1. CASE AskForMenu
    BY <2>1, <1>3, ZeroIsIdle DEF AskForMenu, ConfirmWrite
  <2>2. CASE SeeMenu
    BY <2>2, <1>3, ResetIsIdle DEF SeeMenu
  <2>3. CASE MenuFails
    BY <2>3, <1>3 DEF MenuFails, boardVars, Idle, Hung
  <2>4. QED
    BY <2>1, <2>2, <2>3
<1>5. late' = late /\ pc # "next"
  BY DEF AskForMenu, SeeMenu, MenuFails, Raised, TimeIsUp, Awaited
<1>6. ~late
  BY <1>2, <1>5 DEF LateHangs
<1>7. InStep' /\ LateHangs'
  BY <1>1, <1>2, <1>4, <1>5, <1>6 DEF InStep, LateHangs
<1>8. QED
  BY <1>1, <1>7

LEMMA ConfirmResetFast ==
    ASSUME FastInv, ConfirmReset
    PROVE  InStep' /\ LateHangs' /\ failed' = failed
<1> USE DEF FastInv
<1>1. /\ pc = "reset" /\ Consume(Find(Ready)) /\ pc' = (IF case = 0 THEN "next" ELSE "ready")
      /\ UNCHANGED <<case, failed, late, did, inp, dev>>
  BY DEF ConfirmReset
<1>2. Idle' /\ ~late
  BY <1>1 DEF InStep, LateHangs, Idle, Hung
<1>3. Find(Ready) \in Nat
  BY FindFacts DEF Types, BoardTypes
<1>4. Drops(Find(Ready))
  BY <1>1, <1>3, ConsumeDrops DEF Types
<1>5. case # 0 => Unheard' /\ NotRun(case)'
  BY <1>1, <1>4, UnheardDrops DEF InStep, NotRun
<1>6. QED
  BY <1>1, <1>2, <1>5 DEF InStep, LateHangs

LEMMA StartCaseFast ==
    ASSUME FastInv, StartCase
    PROVE  InStep' /\ LateHangs' /\ failed' = failed
<1> USE DEF FastInv
<1>1. /\ pc = "ready" /\ pc' = "name" /\ Write(Index(case)) /\ case # 0
      /\ UNCHANGED <<case, failed, late, did, dev>>
  BY DEF StartCase, ConfirmWrite, Types, RunTypes
<1>2. Idle /\ Unheard /\ NotRun(case) /\ ~late
  BY <1>1 DEF InStep, LateHangs
<1>3. PICK m \in 0..Len(out) : Consume(m)
  BY DEF StartCase
<1>4. m \in Nat
  BY DEF Types, BoardTypes
<1>5. Drops(m)
  BY <1>3, <1>4, ConsumeDrops DEF Types
<1>6. Unheard' /\ NotRun(case)'
  BY <1>1, <1>2, <1>5, UnheardDrops DEF NotRun
<1>7. Waiting'
  <2>1. PICK n : n = Index(case)
    OBVIOUS
  <2>2. Index(case)' = n
    BY <2>1, <1>1 DEF Index
  <2>3. inp \in Seq(Nat) /\ Len(inp) \in Nat /\ inp' = Append(inp, n)
    BY <2>1, <1>1 DEF Types, BoardTypes, Write
  <2>4. Len(inp') = Len(inp) + 1 /\ \A i \in 1..Len(inp') : inp'[i] = IF i <= Len(inp) THEN inp[i] ELSE n
    BY <2>3
  <2>5. \/ Hung'
        \/ dev'.st \in {"boot", "menu", "prompt"} /\ \A i \in 1..Len(inp') : inp'[i] = 0 \/ (i = Len(inp') /\ inp'[i] = n)
    BY <2>3, <2>4, <1>1, <1>2 DEF Idle, Hung
  <2>6. QED
    BY <2>2, <2>5, <1>6 DEF Waiting
<1>8. QED
  BY <1>1, <1>2, <1>7 DEF InStep, Starting, LateHangs

\* The case has not begun when its start is given up.
LEMMA FailedStart ==
    ASSUME FastInv, ~config.slow, StartFails
    PROVE  Idle /\ Unheard /\ NotRun(case) /\ ~late
<1> USE DEF FastInv
<1>1. TimeIsUp /\ pc \in {"reset", "ready", "name"} /\ case \in Case /\ case # 0
  BY DEF StartFails, Raised, Types, RunTypes, Plan
<1>2. Find(Awaited) = 0
  BY <1>1, SilentBoard
<1>3. Hung \/ (dev.st \in {"menu", "sub"} /\ inp = <<>>)
  BY <1>1, SilentBoard
<1>4. ~late
  BY <1>1 DEF LateHangs
<1>5. CASE pc = "name"
  <2>1. Find({"name"}) = 0
    BY <1>2, <1>5 DEF Awaited
  <2>2. Waiting
    BY <2>1, <1>1, <1>5, NotNamed DEF InStep
  <2>3. QED
    BY <2>2, <1>3, <1>4 DEF Waiting, Idle
<1>6. CASE pc \in {"reset", "ready"}
  BY <1>1, <1>4, <1>6 DEF InStep
<1>7. QED
  BY <1>1, <1>5, <1>6

LEMMA StartFailsFast ==
    ASSUME FastInv, ~config.slow, StartFails
    PROVE  InStep' /\ LateHangs' /\ failed' = failed /\ NotRun(case)
<1> USE DEF FastInv
<1>1. Idle /\ Unheard /\ NotRun(case) /\ ~late
  BY FailedStart
<1>2. UNCHANGED <<case, failed, late, out, did>>
  BY DEF StartFails
<1>3. Idle' /\ pc' \in {"ready", "reset", "next"}
  <2>1. CASE HardReset("ready")
    BY <2>1, <1>1, ResetIsIdle DEF HardReset, ConfirmWrite
  <2>2. CASE pc' = "next" /\ UNCHANGED <<inp, dev>>
    BY <2>2, <1>1 DEF Idle, Hung
  <2>3. QED
    BY <2>1, <2>2 DEF StartFails
<1>4. Unheard' /\ NotRun(case)'
  BY <1>1, <1>2 DEF Unheard, NotRun
<1>5. QED
  BY <1>1, <1>2, <1>3, <1>4 DEF InStep, LateHangs

LEMMA NextCaseFast ==
    ASSUME FastInv, [Next]_vars, NextCase
    PROVE  FastInv' /\ UNCHANGED <<Plan, report>>
<1> USE DEF FastInv
<1>1. /\ case' \in Case /\ case' > case /\ UNCHANGED <<config, did, report, out>>
      /\ \A k \in Plan : k > case => case' <= k
      /\ pc = "next" /\ pc' \in {"reset", "ready"} /\ failed' = 0
  BY NextCaseMoves
<1>2. case \in Nat /\ case' \in Nat /\ \A k \in Case : k \in Nat
  BY <1>1, CaseFacts DEF Types, RunTypes, Plan
<1>3. Types' /\ Heard'
  BY TypesStep
<1>4. Plan' = Plan
  BY <1>1, PlanIsFixed
<1>5. Progress'
  <2>1. \A k \in Plan : k < case' <=> k < case \/ k = case
    BY <1>1, <1>2 DEF Plan
  <2>2. QED
    BY <2>1, <1>1, <1>4 DEF Progress
<1>6. FailedIsPresent' /\ Earned'
  BY <1>1 DEF FailedIsPresent, Earned, Reported, LastStage
<1>7. \A i \in 1..Len(out) : out[i].case \in Nat /\ out[i].case <= case
  BY <1>2, LineFacts DEF Others, Types, BoardTypes
<1>8. Others'
  <2>1. \A k \in Case : k > case' => k > case
    BY <1>1, <1>2
  <2>2. \A i \in 1..Len(out) : out[i].case <= case'
    BY <1>1, <1>2, <1>7
  <2>3. QED
    BY <2>1, <2>2, <1>1 DEF Others, NotRun, AllStages, Reported, LastStage
<1>9. Unheard' /\ NotRun(case)'
  <2>1. Unheard'
    BY <1>1, <1>2, <1>7 DEF Unheard
  <2>2. NotRun(case')
    BY <1>1 DEF Others
  <2>3. QED
    BY <2>1, <2>2, <1>1 DEF NotRun
<1>10. Idle'
  <2>1. Idle
    BY <1>1 DEF InStep
  <2>2. CASE config.reset
    BY <2>1, <2>2, ResetIsIdle DEF NextCase
  <2>3. CASE ~config.reset
    BY <2>1, <2>3 DEF NextCase, Idle, Hung
  <2>4. QED
    BY <2>2, <2>3
<1>11. InStep' /\ LateHangs'
  BY <1>1, <1>9, <1>10 DEF InStep, LateHangs, NextCase
<1>12. QED
  BY <1>1, <1>3, <1>4, <1>5, <1>6, <1>8, <1>11

LEMMA FindIs ==
    ASSUME Types, NEW ts, NEW n \in 1..Len(out),
           out[n].t \in ts, out[n].t = "name" => out[n].case = case,
           \A j \in 1..(n - 1) : ~(out[j].t \in ts /\ (out[j].t = "name" => out[j].case = case))
    PROVE  Find(ts) = n
<1>1. out \in Seq(OutLine) /\ Len(out) \in Nat
  BY DEF Types, BoardTypes
<1>2. Find(ts) # 0
  BY <1>1, FindFacts
<1>3. /\ Find(ts) \in 1..Len(out) /\ out[Find(ts)].t \in ts
      /\ out[Find(ts)].t = "name" => out[Find(ts)].case = case
      /\ \A j \in 1..(Find(ts) - 1) : ~(out[j].t \in ts /\ (out[j].t = "name" => out[j].case = case))
  BY <1>1, <1>2, FindFacts
<1>4. PICK f : f = Find(ts)
  OBVIOUS
<1>5. ~(f < n)
  BY <1>3, <1>4
<1>6. ~(n < f)
  BY <1>3, <1>4
<1>7. QED
  BY <1>3, <1>4, <1>5, <1>6

LEMMA Consumed ==
    ASSUME Types, NEW m \in 0..Len(out), Consume(m)
    PROVE  /\ out' \in Seq(OutLine) /\ Len(out') = Len(out) - m /\ Len(out) \in Nat
           /\ \A i \in 1..Len(out') : out'[i] = out[i + m]
<1>1. out \in Seq(OutLine) /\ Len(out) \in Nat /\ m \in Nat /\ m <= Len(out)
  BY DEF Types, BoardTypes
<1>2. out' = SubSeq(out, m + 1, Len(out))
  BY DEF Consume
<1>3. out' \in Seq(OutLine) /\ \A i \in 1..Len(out') : out'[i] = out[i + m]
  BY <1>1, <1>2, SuffixFacts
<1>4. Len(out') = Len(out) - m
  BY <1>1, <1>2
<1>5. QED
  BY <1>1, <1>3, <1>4

\* What comes after the first n lines is all that is left when these are matched.
LEMMA CourseShifts ==
    ASSUME Types, NEW n \in 0..Len(out), NEW s, Course(s, n), NoFail(n), Consume(n),
           UNCHANGED <<case, failed, dev, inp, did>>
    PROVE  Course(s, 0)' /\ NoFail(0)'
<1>1. /\ Len(out') = Len(out) - n /\ Len(out) \in Nat /\ n \in Nat
      /\ \A i \in 1..Len(out') : out'[i] = out[i + n]
  BY Consumed
<1>2. /\ Len(out) > n => out'[1] = out[n + 1]
      /\ Len(out) > n + 1 => out'[2] = out[n + 2]
      /\ Len(out) > n + 2 => out'[3] = out[n + 3]
  BY <1>1
<1>3. \A j \in 0..3 : Len(out) = n + j <=> Len(out') = j
  BY <1>1
<1>4. LastStage(case)' = LastStage(case) /\ (Hung' <=> Hung) /\ (AtMenu(<<>>)' <=> AtMenu(<<>>))
  BY DEF LastStage, Hung, AtMenu
<1>5. Len(out) > n <=> Len(out') > 0
  BY <1>1
<1>6. NoFail(0)'
  BY <1>2, <1>5 DEF NoFail
<1>7. CASE Called(s, n)
  BY <1>1, <1>4, <1>6, <1>7 DEF Called, Course
<1>8. CASE Going(s, n)
  BY <1>1, <1>6, <1>8 DEF Going, Course
<1>9. CASE Again(s, n)
  <2>1. Again(s, 0)'
    BY <1>1, <1>2, <1>4, <1>9 DEF Again
  <2>2. QED
    BY <2>1, <1>6 DEF Course
<1>10. ASSUME NEW r \in Outcomes, Finished(s, n, r)
       PROVE  Course(s, 0)'
  <2>1. Finished(s, 0, r)'
    BY <1>1, <1>2, <1>4, <1>10 DEF Finished
  <2>2. QED
    BY <2>1 DEF Course
<1>11. QED
  BY <1>6, <1>7, <1>8, <1>9, <1>10 DEF Course

\* The number of the next stage goes to a board that waits for it.
LEMMA StageSent ==
    ASSUME Types, stage \in Nat, Chooses, Len(out') = 0, EnterStage, UNCHANGED <<case, dev>>
    PROVE  Course(stage, 0)'
<1>1. PICK n : n = stage + 1
  OBVIOUS
<1>2. stage' = n /\ n # 0 /\ inp' = Append(inp, n)
  BY <1>1 DEF EnterStage, Write
<1>3. inp = <<>> => inp' = <<n>>
  BY <1>2
<1>4. Called(stage, 0)'
  BY <1>2, <1>3 DEF Chooses, Called, Hung
<1>5. QED
  BY <1>4 DEF Course

LEMMA SeeNameFast ==
    ASSUME FastInv, SeeName
    PROVE  InStep' /\ LateHangs' /\ failed' = failed
<1> USE DEF FastInv
<1>1. /\ pc \in {"name", "stageName"} /\ Find({"name"}) # 0 /\ Consume(Find({"name"}))
      /\ UNCHANGED <<case, failed, late, did, dev>> /\ case \in Case /\ stage \in Nat
      /\ pc = "name" => stage = 0
      /\ pc = "stageName" => LastStage(case) # 0
  BY CaseFacts DEF SeeName, Types, RunTypes, Plan
<1>2. ~late /\ LastStage(case) \in Nat /\ LastStage(case)' = LastStage(case)
  BY <1>1, CaseFacts DEF LateHangs, LastStage
<1>3. /\ LastStage(case) = 0 => pc' = "result" /\ stage' = stage /\ inp' = inp
      /\ LastStage(case) # 0 => /\ EnterStage /\ stage' = stage + 1
                                /\ pc' = IF stage + 1 = LastStage(case) THEN "result" ELSE "stageReady"
  BY DEF SeeName, EnterStage
<1>4. CASE pc = "name"
  <2>1. ~Waiting
    <3>1. Find({"name"}) \in 1..Len(out) /\ out[Find({"name"})].t = "name" /\ out[Find({"name"})].case = case
      BY <1>1, FindFacts DEF Types, BoardTypes
    <3>2. QED
      BY <3>1 DEF Waiting, Unheard
  <2>2. PICK n \in 1..Len(out) : Begun(n)
    BY <2>1, <1>4 DEF InStep, Starting
  <2>3. Find({"name"}) = n
    <3>1. out[n] = Named(case) /\ \A j \in 1..(n - 1) : out[j].case # case
      BY <2>2 DEF Begun
    <3>2. out[n].t = "name" /\ out[n].case = case
      BY <3>1, <1>1, NamesAndEnds
    <3>3. QED
      BY <3>1, <3>2, FindIs
  <2>4. Consume(n) /\ n \in 0..Len(out)
    BY <2>3, <1>1 DEF Types, BoardTypes
  <2>5. CASE Chooses /\ Len(out) = n /\ NotRun(case)
    <3>1. Len(out') = 0
      BY <2>4, <2>5, Consumed
    <3>2. LastStage(case) # 0
      BY <2>5 DEF Chooses
    <3>3. Course(stage, 0)'
      BY <3>1, <3>2, <2>5, <1>1, <1>3, StageSent
    <3>4. NoFail(0)'
      BY <2>5, <1>1 DEF NoFail, NotRun
    <3>5. stage' = 1 /\ pc' \in {"result", "stageReady"} /\ (pc' = "result" => stage' = LastStage(case))
      BY <3>2, <1>1, <1>3, <1>4
    <3>6. Clean(stage - 1)'
      BY <3>5 DEF Clean
    <3>7. QED
      BY <3>3, <3>4, <3>5, <3>6, <1>1, <1>2 DEF InStep, LateHangs
  <2>6. CASE LastStage(case) = 0 /\ Course(0, n) /\ NoFail(n)
    <3>1. inp' = inp /\ pc' = "result" /\ stage' = 0
      BY <2>6, <1>1, <1>3, <1>4
    <3>2. Course(0, 0)' /\ NoFail(0)'
      BY <3>1, <2>4, <2>6, <1>1, CourseShifts
    <3>3. Course(stage, 0)' /\ Clean(stage - 1)'
      BY <3>1, <3>2 DEF Clean
    <3>4. QED
      BY <3>1, <3>2, <3>3, <2>6, <1>1, <1>2 DEF InStep, LateHangs
  <2>7. QED
    BY <2>2, <2>5, <2>6 DEF Begun
<1>5. CASE pc = "stageName"
  <2>1. Clean(stage) /\ NoFail(Len(out))
    BY <1>5 DEF InStep, Restarting
  <2>2. Len(out) = 1 /\ out[1] = Named(case) /\ Chooses
    <3>1. Len(out) # 0
      BY <1>1, FindFacts DEF Types, BoardTypes
    <3>2. QED
      BY <3>1, <1>5 DEF InStep, Restarting
  <2>3. Find({"name"}) = 1
    <3>1. out[1].t = "name" /\ out[1].case = case
      BY <2>2, <1>1, NamesAndEnds
    <3>2. 1 \in 1..Len(out)
      BY <2>2
    <3>3. QED
      BY <3>1, <3>2, FindIs
  <2>4. Len(out') = 0
    <3>1. 1 \in 0..Len(out) /\ Consume(1)
      BY <2>2, <2>3, <1>1
    <3>2. QED
      BY <3>1, <2>2, Consumed
  <2>5. Course(stage, 0)'
    BY <2>2, <2>4, <1>1, <1>3, <1>5, StageSent
  <2>6. NoFail(0)'
    BY <2>1, <1>1 DEF NoFail
  <2>7. /\ stage' = stage + 1 /\ stage' - 1 = stage
        /\ pc' \in {"result", "stageReady"} /\ (pc' = "result" => stage' = LastStage(case))
    BY <1>1, <1>3, <1>5
  <2>8. Clean(stage - 1)'
    BY <2>1, <2>7, <1>1 DEF Clean
  <2>9. QED
    BY <2>5, <2>6, <2>7, <2>8, <1>1, <1>2 DEF InStep, LateHangs
<1>6. QED
  BY <1>1, <1>4, <1>5

LEMMA ParsedFirst ==
    ASSUME NEW i \in Nat, i > 1, out[1].t = "result", \A j \in 2..(i - 1) : out[j].t # "result"
    PROVE  Parsed(i) = out[1]
<1> DEFINE rs == {j \in 1..(i - 1) : out[j].t = "result"}
<1>1. rs = {1}
  OBVIOUS
<1>2. Parsed(i) = IF rs = {} THEN Line("result", case, "FAIL")
                  ELSE out[CHOOSE j \in rs : \A k \in rs : k <= j]
  BY DEF Parsed
<1> HIDE DEF rs
<1>3. (CHOOSE j \in rs : \A k \in rs : k <= j) = 1
  BY <1>1
<1>4. QED
  BY <1>1, <1>2, <1>3

\* Two lines after a result there is a prompt, and the board is back in its menu.
LEMMA FinishedFacts ==
    ASSUME Types, case \in Case, NEW s, NEW r \in Outcomes, Finished(s, 0, r)
    PROVE  /\ <<case, s, r>> \in did /\ Len(out) \in 1..3
           /\ out[1] = Line("result", case, r) /\ out[1].t = "result"
           /\ out[1].case = case /\ out[1].result = r
           /\ Len(out) >= 2 => out[2].t = "end"
           /\ Len(out) = 2 => dev.st = "prompt" /\ inp = <<>>
           /\ Len(out) = 3 => out[3].t = "next" /\ AtMenu(<<>>)
<1>1. <<case, s, r>> \in did /\ out[1] = Line("result", case, r) /\ Len(out) \in 1..3
  BY DEF Finished
<1>2. Line("result", case, r).t = "result" /\ Line("result", case, r).case = case
      /\ Line("result", case, r).result = r
  BY DEF Line
<1>3. Ended(case).t = "end"
  BY DEF Ended, Line
<1>4. Text("next").t = "next"
  BY DEF Text
<1>5. QED
  BY <1>1, <1>2, <1>3, <1>4 DEF Finished

LEMMA ThirdOfThree ==
    ASSUME NEW n \in 1..3, NEW i \in 1..n, i # 1, n >= 2 => i # 2
    PROVE  i = 3 /\ n = 3
  OBVIOUS

LEMMA NextStageFast ==
    ASSUME FastInv, NextStage
    PROVE  InStep' /\ LateHangs' /\ (failed' = failed \/ FailedIsPresent')
<1> USE DEF FastInv
<1>1. PICK i : i = Find(Ready)
  OBVIOUS
<1>2. /\ pc = "stageReady" /\ pc' = "stageName" /\ i # 0 /\ Consume(i) /\ Write(Index(case))
      /\ failed' = IF failed = 0 /\ (\E j \in 1..(i - 1) : out[j].t = "end") /\ Parsed(i).result = "FAIL"
                   THEN Parsed(i).case ELSE failed
      /\ UNCHANGED <<case, stage, late, did, dev>>
  BY <1>1 DEF NextStage, ConfirmWrite
<1>3. i \in 1..Len(out) /\ out[i].t \in Ready /\ \A j \in 1..(i - 1) : out[j].t \notin Ready
  BY <1>1, <1>2, FindFacts DEF Types, BoardTypes, Ready
<1> HIDE <1>1
<1>4. /\ case \in Case /\ case # 0 /\ stage \in Nat /\ stage < LastStage(case) /\ ~late
      /\ Course(stage, 0) /\ NoFail(0) /\ Clean(stage - 1) /\ Len(out) \in Nat
  BY <1>2, CaseFacts DEF Types, BoardTypes, RunTypes, Plan, InStep, LateHangs
<1>5. SUFFICES ASSUME /\ i = Len(out) /\ AtMenu(<<>>) /\ failed' \in {failed, case}
                      /\ failed' = 0 => /\ \A s \in Nat : <<case, s, "FAIL">> \notin did
                                        /\ \E r \in {"PASS", "IGNORE", "restart"} : <<case, stage, r>> \in did
               PROVE  InStep' /\ LateHangs' /\ (failed' = failed \/ FailedIsPresent')
  <2>1. CASE Again(stage, 0)
    <3>1. Len(out) = 1 /\ out[1] = Text("press") /\ AtMenu(<<>>) /\ <<case, stage, "restart">> \in did
      BY <2>1, <1>3, <1>4 DEF Again
    <3>2. i = 1
      BY <3>1, <1>3
    <3>3. failed' = failed
      BY <3>2, <1>2
    <3>4. Text("press") # Line("result", case, "FAIL")
      BY DEF Text, Line
    <3>5. failed = 0 => \A s \in Nat : <<case, s, "FAIL">> \notin did
      BY <3>1, <3>4, <1>4 DEF NoFail
    <3>6. QED
      BY <3>1, <3>2, <3>3, <3>5, <1>5
  <2>2. ASSUME NEW r \in Outcomes, Finished(stage, 0, r)
        PROVE  /\ i = Len(out) /\ AtMenu(<<>>) /\ failed' \in {failed, case}
               /\ failed' = 0 => /\ \A s \in Nat : <<case, s, "FAIL">> \notin did
                                 /\ \E q \in {"PASS", "IGNORE", "restart"} : <<case, stage, q>> \in did
    <3>1. /\ <<case, stage, r>> \in did /\ Len(out) \in 1..3 /\ out[1] = Line("result", case, r)
          /\ out[1].t = "result" /\ out[1].case = case /\ out[1].result = r
          /\ Len(out) >= 2 => out[2].t = "end"
          /\ Len(out) = 3 => AtMenu(<<>>)
      BY <2>2, <1>4, FinishedFacts
    <3>2. i = 3 /\ Len(out) = 3
      <4>1. i # 1 /\ (Len(out) >= 2 => i # 2)
        BY <3>1, <1>3 DEF Ready
      <4>2. Len(out) \in 1..3 /\ i \in 1..Len(out)
        BY <3>1, <1>3
      <4>3. QED
        BY <4>1, <4>2, ThirdOfThree
    <3>3. Parsed(i) = out[1]
      BY <3>1, <3>2, ParsedFirst
    <3>4. 2 \in 1..(i - 1) /\ out[2].t = "end"
      BY <3>1, <3>2
    <3>5. failed' = IF failed = 0 /\ r = "FAIL" THEN case ELSE failed
      BY <3>1, <3>3, <3>4, <1>2
    <3>6. failed = 0 /\ r # "FAIL" => \A s \in Nat : <<case, s, "FAIL">> \notin did
      <4>1. r # "FAIL" => out[1] # Line("result", case, "FAIL")
        BY <3>1 DEF Line
      <4>2. QED
        BY <4>1, <1>4 DEF NoFail
    <3>7. QED
      BY <3>1, <3>2, <3>5, <3>6, <1>4
  <2>3. ~Called(stage, 0) /\ ~Going(stage, 0)
    BY <1>3 DEF Called, Going
  <2>4. QED
    BY <2>1, <2>2, <2>3, <1>4, <1>5 DEF Course
<1>6. Len(out') = 0
  <2>1. i \in 0..Len(out)
    BY <1>3
  <2>2. QED
    BY <2>1, <1>2, <1>4, <1>5, Consumed
<1>7. AtMenu(<<Index(case)>>)'
  BY <1>2, <1>5, IndexSent DEF AtMenu
<1>8. Clean(stage)'
  <2>1. \A s \in 1..stage : s \in 1..(stage - 1) \/ s = stage
    BY <1>4
  <2>2. failed' = 0 => failed = 0
    BY <1>4, <1>5
  <2>3. QED
    BY <2>1, <2>2, <1>2, <1>4, <1>5 DEF Clean
<1>9. NoFail(Len(out))'
  BY <1>2, <1>5 DEF NoFail
<1>10. Restarting'
  BY <1>6, <1>7, <1>8, <1>9 DEF Restarting
<1>11. QED
  BY <1>2, <1>4, <1>5, <1>10 DEF InStep, LateHangs, FailedIsPresent

\* A stage that is not over when its time is up is one during which the board has hung.
LEMMA StageFailsFast ==
    ASSUME FastInv, ~config.slow, StageFails
    PROVE  InStep' /\ LateHangs' /\ failed' = failed
<1> USE DEF FastInv
<1>1. /\ pc \in {"stageReady", "stageName"} /\ pc' = "result" /\ TimeIsUp
      /\ UNCHANGED <<case, stage, failed, did, dev, out, inp>>
  BY DEF StageFails, Raised, boardVars
<1>2. Find(Awaited) = 0
  BY <1>1, SilentBoard
<1>3. Hung \/ (dev.st \in {"menu", "sub"} /\ inp = <<>>)
  BY <1>1, SilentBoard
<1>a. case \in Case /\ stage \in Nat /\ Len(out) \in Nat
  BY <1>1 DEF Types, BoardTypes, RunTypes, Plan
<1>4. SUFFICES ASSUME Hung /\ Len(out) = 0 /\ NoFail(0) /\ Clean(stage - 1)
               PROVE  InStep' /\ LateHangs' /\ failed' = failed
  <2>1. CASE pc = "stageReady"
    <3>1. Find(Ready) = 0
      BY <1>2, <2>1 DEF Awaited
    <3>2. \A j \in 1..Len(out) : out[j].t \notin {"press", "next"}
      BY <3>1, FindFacts DEF Types, BoardTypes, Ready
    <3>3. Course(stage, 0) /\ NoFail(0) /\ Clean(stage - 1)
      BY <2>1 DEF InStep
    <3>4. Called(stage, 0) => Hung /\ Len(out) = 0
      BY <1>3 DEF Called, Hung
    <3>5. ~Going(stage, 0)
      BY <1>3 DEF Going, Hung
    <3>6. ~Again(stage, 0)
      <4>1. Text("press").t = "press"
        BY DEF Text
      <4>2. QED
        BY <4>1, <1>3, <3>2 DEF Again, Hung
    <3>7. ASSUME NEW r \in Outcomes, Finished(stage, 0, r)
          PROVE  FALSE
      <4>1. Len(out) \in 1..3 /\ (Len(out) = 2 => dev.st = "prompt") /\ (Len(out) = 3 => out[3].t = "next")
        BY <3>7, <1>a, FinishedFacts
      <4>2. Len(out) # 3
        BY <4>1, <3>2
      <4>3. QED
        BY <4>1, <4>2, <3>7, <1>3 DEF Finished, Hung
    <3>8. QED
      BY <3>3, <3>4, <3>5, <3>6, <3>7, <1>4 DEF Course
  <2>2. CASE pc = "stageName"
    <3>1. Find({"name"}) = 0
      BY <1>2, <2>2 DEF Awaited
    <3>2. Len(out) = 0 /\ AtMenu(<<Index(case)>>) /\ Clean(stage) /\ NoFail(Len(out))
      BY <3>1, <2>2, NotNamed DEF InStep, Restarting
    <3>3. Hung
      <4>1. PICK n : n = Index(case)
        OBVIOUS
      <4>2. <<n>> # <<>>
        OBVIOUS
      <4>3. QED
        BY <4>1, <4>2, <3>2, <1>3 DEF AtMenu, Hung
    <3>4. Clean(stage - 1)
      BY <3>2, <1>a DEF Clean
    <3>5. QED
      BY <3>2, <3>3, <3>4, <1>4
  <2>3. QED
    BY <2>1, <2>2, <1>1
<1>5. Hung' /\ Len(out') = 0 /\ NoFail(0)' /\ Clean(stage - 1)'
  BY <1>1, <1>4 DEF Hung, NoFail, Clean
<1>6. Course(stage, 0)'
  BY <1>5 DEF Course, Called
<1>7. QED
  BY <1>1, <1>5, <1>6 DEF InStep, LateHangs

\* A result is only recorded when the board is back in its menu, or hangs.
LEMMA ResultFast ==
    ASSUME FastInv, pc = "result", pc' = "next", Idle, UNCHANGED <<inp, dev, late>>
    PROVE  InStep' /\ LateHangs'
<1>1. Idle' /\ (Hung' <=> Hung)
  BY DEF Idle, Hung
<1>2. QED
  BY <1>1 DEF InStep, LateHangs, FastInv

LEMMA SeeResultFast ==
    ASSUME FastInv, SeeResult
    PROVE  /\ InStep' /\ LateHangs' /\ failed' = failed
           /\ \E m \in Nat : Moves(m)
           /\ \E r \in Outcomes :
                /\ Recorded(r, case)
                /\ Got(r) /\ (r = "PASS" => AllStages(case))
<1> USE DEF FastInv
<1>1. PICK i : i = Find({"end"})
  OBVIOUS
<1>2. /\ pc = "result" /\ pc' = "next" /\ i # 0 /\ Record(Parsed(i))
      /\ UNCHANGED <<failed, late, inp, dev>>
  BY <1>1 DEF SeeResult, Record
<1>3. i \in 1..Len(out) /\ out[i].t = "end"
  BY <1>1, <1>2, FindFacts DEF Types, BoardTypes
<1>4. /\ case \in Case /\ case # 0 /\ stage \in Nat /\ Course(stage, 0) /\ NoFail(0) /\ Clean(stage - 1)
      /\ stage = LastStage(case) \/ Len(out) = 0
  BY <1>2 DEF Types, RunTypes, Plan, InStep
<1>5. stage = LastStage(case) /\ Len(out) \in Nat /\ Len(out) # 0
  BY <1>3, <1>4 DEF Types, BoardTypes
<1>6. PICK r \in Outcomes : Finished(stage, 0, r)
  <2>1. ~Called(stage, 0) /\ ~Going(stage, 0)
    BY <1>5 DEF Called, Going
  <2>2. ~Again(stage, 0)
    <3>1. Text("press").t = "press"
      BY DEF Text
    <3>2. QED
      BY <3>1, <1>3, <1>5 DEF Again
  <2>3. QED
    BY <2>1, <2>2, <1>4 DEF Course
<1>7. /\ <<case, stage, r>> \in did /\ Len(out) \in 1..3 /\ out[1] = Line("result", case, r)
      /\ out[1].t = "result" /\ out[1].case = case /\ out[1].result = r
      /\ Len(out) = 2 => dev.st = "prompt" /\ inp = <<>>
      /\ Len(out) = 3 => out[3].t = "next" /\ AtMenu(<<>>)
  BY <1>4, <1>6, FinishedFacts
<1>8. i = 2
  BY <1>3, <1>7
<1>9. Parsed(i) = out[1]
  BY <1>7, <1>8, ParsedFirst
<1>10. Idle
  <2>1. Len(out) \in {2, 3}
    BY <1>3, <1>7, <1>8
  <2>2. QED
    BY <2>1, <1>7 DEF Idle, AtMenu
<1>11. InStep' /\ LateHangs'
  BY <1>2, <1>10, ResultFast
<1>12. PICK x : x = Parsed(i)
  OBVIOUS
<1>13. x.case = case /\ x.result = r /\ Record(x)
  BY <1>2, <1>7, <1>9, <1>12
<1>14. (failed # 0 /\ Recorded("FAIL", failed)) \/ (failed = 0 /\ Recorded(r, case))
  BY <1>2, <1>4, <1>13, RecordFacts
<1>15. failed # 0 => failed = case
  BY DEF FailedIsPresent
<1>16. failed = 0 /\ r = "PASS" => AllStages(case)
  <2>1. SUFFICES ASSUME failed = 0, r = "PASS"
                 PROVE  AllStages(case)
    OBVIOUS
  <2>2. \A s \in Nat : <<case, s, "FAIL">> \notin did
    <3>1. out[1] # Line("result", case, "FAIL")
      BY <2>1, <1>7 DEF Line
    <3>2. QED
      BY <2>1, <3>1, <1>4 DEF NoFail
  <2>3. \A s \in 1..(LastStage(case) - 1) : \E q \in {"PASS", "IGNORE", "restart"} : <<case, s, q>> \in did
    BY <2>1, <1>4, <1>5 DEF Clean
  <2>4. \A s \in 0..LastStage(case) : s \in Nat
    BY <1>4, <1>5
  <2>5. QED
    BY <2>1, <2>2, <2>3, <2>4, <1>5, <1>7 DEF AllStages
<1>17. \E m \in Nat : Moves(m)
  BY SeeResultMoves
<1>18. \E q \in Outcomes :
         /\ Recorded(q, case)
         /\ Got(q) /\ (q = "PASS" => AllStages(case))
  <2>1. Got(r) /\ Got("FAIL")
    BY <1>4, <1>5, <1>7 DEF Got
  <2>2. QED
    BY <2>1, <1>14, <1>15, <1>16
<1>19. QED
  BY <1>2, <1>11, <1>17, <1>18

LEMMA NoResultFast ==
    ASSUME FastInv, ~config.slow, NoResult
    PROVE  InStep' /\ LateHangs' /\ failed' = failed /\ Moves(0) /\ Recorded("FAIL", case)
<1> USE DEF FastInv
<1>1. pc = "result" /\ pc' = "next" /\ TimeIsUp /\ UNCHANGED <<failed, late, inp, dev>>
  BY DEF NoResult, Raised, Record, boardVars
<1>2. Hung \/ (dev.st \in {"menu", "sub"} /\ inp = <<>>)
  BY <1>1, SilentBoard
<1>3. Course(stage, 0)
  BY <1>1 DEF InStep
<1>4. Idle
  <2>1. dev.st = "sub" => inp # <<>>
    BY <1>3 DEF Course, Called, Going, Again, Finished, AtMenu, Hung
  <2>2. QED
    BY <2>1, <1>2 DEF Idle
<1>5. QED
  BY <1>1, <1>4, ResultFast, NoResultMoves

LEMMA SameInStep ==
    ASSUME InStep, UNCHANGED <<pc, case, stage, failed, out, inp, dev, did>>
    PROVE  InStep'
<1>1. /\ (Hung' <=> Hung) /\ LastStage(case)' = LastStage(case) /\ Index(case)' = Index(case)
      /\ (Unheard' <=> Unheard) /\ (NotRun(case)' <=> NotRun(case))
  BY DEF Hung, LastStage, Index, Unheard, NotRun
<1>2. /\ Idle' <=> Idle
      /\ Waiting' <=> Waiting
      /\ Chooses' <=> Chooses
      /\ AtMenu(<<>>)' <=> AtMenu(<<>>)
      /\ AtMenu(<<Index(case)>>)' <=> AtMenu(<<Index(case)>>)
  BY <1>1 DEF Idle, Waiting, Chooses, AtMenu
<1>3. \A n : (NoFail(n)' <=> NoFail(n)) /\ (Clean(n)' <=> Clean(n))
  BY DEF NoFail, Clean
<1>4. \A s, n : Course(s, n)' <=> Course(s, n)
  <2>1. \A s, n : /\ Called(s, n)' <=> Called(s, n)
                  /\ Going(s, n)' <=> Going(s, n)
                  /\ Again(s, n)' <=> Again(s, n)
    BY <1>1, <1>2 DEF Called, Going, Again
  <2>2. \A s, n, r : Finished(s, n, r)' <=> Finished(s, n, r)
    BY <1>1, <1>2 DEF Finished
  <2>3. QED
    BY <2>1, <2>2 DEF Course
<1>5. Starting' <=> Starting
  <2>1. \A n : Begun(n)' <=> Begun(n)
    BY <1>1, <1>2, <1>3, <1>4 DEF Begun
  <2>2. QED
    BY <1>2, <2>1 DEF Starting
<1>6. Restarting' <=> Restarting
  <2>1. (NoFail(Len(out))' <=> NoFail(Len(out))) /\ (Clean(stage)' <=> Clean(stage))
    BY DEF NoFail, Clean
  <2>2. QED
    BY <1>2, <2>1 DEF Restarting
<1>7. (Course(stage, 0)' <=> Course(stage, 0)) /\ (Clean(stage - 1)' <=> Clean(stage - 1))
  BY <1>3, <1>4 DEF Clean
<1>8. QED
  BY <1>1, <1>2, <1>3, <1>5, <1>6, <1>7 DEF InStep

LEMMA FastStep ==
    ASSUME FastInv, ~config.slow, [Next]_vars
    PROVE  FastInv' /\ (Report!Record \/ UNCHANGED <<Plan, report>>)
<1> USE DEF FastInv
<1>0. Moves(0) => \E m \in Nat : Moves(m)
  OBVIOUS
<1>1. CASE WriteAgain
  <2>1. pc' = pc /\ failed' = failed
    BY <1>1 DEF WriteAgain
  <2>2. QED
    BY <2>1, <1>0, <1>1, WriteAgainMoves, WriteAgainFast, FastQuiet
<1>2. CASE AskForMenu \/ SeeMenu \/ MenuFails
  <2>1. InStep' /\ LateHangs' /\ case = 0 /\ failed' = failed
    BY <1>2, MenuFast
  <2>2. (\E m \in Nat : Moves(m)) /\ report' = report
    BY <1>0, <1>2, AskForMenuMoves, SeeMenuMoves, MenuFailsMoves
  <2>3. QED
    BY <2>1, <2>2, FastQuiet
<1>3. CASE ConfirmReset
  BY <1>3, ConfirmResetMoves, ConfirmResetFast, FastQuiet
<1>4. CASE NextCase
  BY <1>4, NextCaseFast
<1>5. CASE StartCase
  <2>1. pc' # "next" /\ pc # "next"
    BY <1>5 DEF StartCase, ConfirmWrite
  <2>2. QED
    BY <2>1, <1>5, StartCaseMoves, StartCaseFast, FastQuiet
<1>6. CASE StartFails
  <2>1. InStep' /\ LateHangs' /\ failed' = failed /\ NotRun(case)
    BY <1>6, StartFailsFast
  <2>2. /\ Moves(0) /\ pc # "next"
        /\ (report' = report /\ pc' # "next") \/ Recorded("SKIPPED", case)
    BY <1>6, StartFailsMoves
  <2>3. CASE report' = report /\ pc' # "next"
    BY <2>1, <2>2, <2>3, <1>0, FastQuiet
  <2>4. CASE Recorded("SKIPPED", case)
    BY <2>1, <2>2, <2>4, FastRecord DEF Got
  <2>5. QED
    BY <2>2, <2>3, <2>4
<1>7. CASE SeeName
  BY <1>7, SeeNameMoves, SeeNameFast, FastQuiet
<1>8. CASE NextStage
  BY <1>8, NextStageMoves, NextStageFast, FastQuiet
<1>9. CASE StageFails
  BY <1>0, <1>9, StageFailsMoves, StageFailsFast, FastQuiet
<1>10. CASE SeeResult
  <2>1. InStep' /\ LateHangs' /\ failed' = failed
    BY <1>10, SeeResultFast
  <2>2. PICK m \in Nat : Moves(m)
    BY <1>10, SeeResultFast
  <2>3. PICK r \in Outcomes :
          /\ Recorded(r, case)
          /\ Got(r) /\ (r = "PASS" => AllStages(case))
    BY <1>10, SeeResultFast
  <2>4. QED
    BY <2>1, <2>2, <2>3, FastRecord
<1>11. CASE NoResult
  BY <1>11, NoResultFast, FastRecord DEF Got
<1>12. CASE Firmware \/ Hang
  BY <1>12, BoardFast
<1>13. CASE Over \/ UNCHANGED vars
  <2>1. /\ UNCHANGED <<config, pc, case, stage, failed, late, report>>
        /\ UNCHANGED <<out, inp, dev, did>>
    BY <1>13 DEF Over, vars, runnerVars, boardVars
  <2>2. Drops(0) /\ Writes /\ Resets
    BY <2>1, NothingDropped DEF Types, Writes, Resets
  <2>3. Moves(0)
    BY <2>1, <2>2 DEF Moves, Reached
  <2>4. LateHangs'
    BY <2>1 DEF LateHangs, Hung
  <2>5. InStep'
    BY <2>1, SameInStep
  <2>6. QED
    BY <2>1, <2>3, <2>4, <2>5, <1>0, FastQuiet
<1>14. QED
  BY <1>1, <1>2, <1>3, <1>4, <1>5, <1>6, <1>7, <1>8, <1>9, <1>10, <1>11, <1>12, <1>13 DEF Next, Runner

LEMMA FastInit == Init => FastInv
<1> SUFFICES ASSUME Init PROVE FastInv
  OBVIOUS
<1>1. Types /\ Heard /\ Progress /\ FailedIsPresent /\ Earned
  BY RunInvInit DEF RunInv
<1>2. Others
  BY DEF Init, Others, NotRun, Reported
<1>3. InStep /\ LateHangs
  BY DEF Init, InStep, Idle, LateHangs
<1>4. QED
  BY <1>1, <1>2, <1>3 DEF FastInv

-----------------------------------------------------------------------------
(* What the runner records. *)

\* What the board prints and reads cannot be taken for that of another case: it answers
\* within the timeouts, or no number of a stage is the index of a case.
Unmistakable == StagesApart \/ \A c \in Configs : ~c.slow

RunnerInv == config \in Configs /\ (StagesApart => RunInv) /\ (~config.slow => FastInv)

LEMMA RunnerInvInit == Init => RunnerInv
  BY RunInvInit, FastInit DEF RunnerInv, Init

LEMMA RunnerInvStep ==
    ASSUME RunnerInv, [Next]_vars
    PROVE  RunnerInv' /\ (Unmistakable => Report!Record \/ UNCHANGED <<Plan, report>>)
<1>1. config' = config
  BY ConfigStays
<1>2. StagesApart => RunInv' /\ (Report!Record \/ UNCHANGED <<Plan, report>>)
  BY RunInvStep DEF RunnerInv, Kept
<1>3. ~config.slow => FastInv' /\ (Report!Record \/ UNCHANGED <<Plan, report>>)
  BY FastStep DEF RunnerInv
<1>4. StagesApart' = StagesApart
  BY DEF StagesApart, Index, LastStage
<1>5. QED
  BY <1>1, <1>2, <1>3, <1>4 DEF RunnerInv, Unmistakable

\* PassMeansPassed: no PASS of another case, or of another start, becomes the record of a
\* case (SeeResult, and _parse_unity_test_output behind it).
THEOREM PassIsEarned == ASSUME Unmistakable PROVE Spec => []PassMeansPassed
<1>1. RunnerInv /\ [Next]_vars => RunnerInv'
  BY RunnerInvStep
<1>2. RunnerInv => PassMeansPassed
  BY DEF RunnerInv, RunInv, FastInv, Unmistakable, Earned, PassMeansPassed
<1>3. QED
  BY <1>1, <1>2, RunnerInvInit, PTL DEF Spec

\* ReportSpec: the runner keeps the promise of CaseReport, one record for each case of
\* the plan, in order and under its own name (run_all_single_board_cases).
THEOREM RunnerKeepsReport == ASSUME Unmistakable PROVE Spec => ReportSpec
<1>1. Init => Report!Init
  BY DEF Init, Report!Init
<1>2. RunnerInv /\ [Next]_vars => RunnerInv' /\ [Report!Record]_<<Plan, report>>
  BY RunnerInvStep
<1>3. QED
  BY <1>1, <1>2, RunnerInvInit, PTL DEF Spec, ReportSpec, Report!Spec

\* IgnoredIsExplained: what _prepare_and_start_case gives up has come to no result, on a
\* board that answers within the timeouts, and no IGNORE of another case becomes the
\* record of a case.
THEOREM IgnoredWasExplained == ASSUME Unmistakable PROVE Spec => []IgnoredIsExplained
<1>1. RunnerInv /\ [Next]_vars => RunnerInv'
  BY RunnerInvStep
<1>2. RunnerInv => IgnoredIsExplained
  <2>1. \A k \in Case : 0..LastStage(k) \subseteq Nat
    OBVIOUS
  <2>2. RunnerInv => Earned /\ (~config.slow => Others)
    BY DEF RunnerInv, RunInv, FastInv, Unmistakable
  <2>3. QED
    BY <2>1, <2>2 DEF Others, NotRun, Earned, IgnoredIsExplained
<1>3. QED
  BY <1>1, <1>2, RunnerInvInit, PTL DEF Spec

\* PassMeansAllStages, for any menu: the sub-case loop of _run_multi_stage_case does not
\* lose the failure of a stage, or a stage, on a board that answers within the timeouts.
THEOREM AllStagesPassed == Spec => []PassMeansAllStages
<1>1. RunnerInv /\ [Next]_vars => RunnerInv'
  BY RunnerInvStep
<1>2. RunnerInv => PassMeansAllStages
  BY DEF RunnerInv, FastInv, Others, AllStages, PassMeansAllStages
<1>3. QED
  BY <1>1, <1>2, RunnerInvInit, PTL DEF Spec

=============================================================================
