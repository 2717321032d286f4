--------------------------- MODULE EvidenceProofs ---------------------------
(***************************************************************************)
(* A suite that keeps the promise of Evidence is sound, whatever its cases *)
(* and whatever can happen to them, and nothing it said is taken back.     *)
(***************************************************************************)
EXTENDS Evidence, TLAPS

\* What happened, and what is said of it, are of their kinds.
SuiteTypes ==
  /\ happened \in [Case -> Happening \cup {Nothing}]
  /\ verdict \in [Case -> {"none", "pass", "fail"}]

\* Every pass has its evidence, and success means that every case passed.
Passed == {c \in Case : verdict[c] = "pass"}
PassesHaveEvidence == \A c \in Passed : happened[c] \in Supports[c]
SuccessIsEveryPass == report = "ok" => Passed = Case

IInv == SuiteTypes /\ PassesHaveEvidence /\ SuccessIsEveryPass

\* What happens to a case that is not judged touches no pass.
LEMMA HappenKeeps ==
  ASSUME IInv, NEW c \in Case, Happen(c)
  PROVE  IInv'
<1>1. SuiteTypes'
  BY DEF IInv, SuiteTypes, Happen
<1>2. Passed' = Passed /\ c \notin Passed
  BY DEF Happen, Passed
<1>3. \A other \in Passed : happened'[other] = happened[other]
  BY <1>2 DEF IInv, SuiteTypes, Happen, Passed
<1>4. PassesHaveEvidence' /\ SuccessIsEveryPass'
  BY <1>2, <1>3 DEF IInv, PassesHaveEvidence, SuccessIsEveryPass, Happen
<1>5. QED
  BY <1>1, <1>4 DEF IInv

\* A verdict adds at most its own case to the passes, and only with evidence.
LEMMA JudgeKeeps ==
  ASSUME IInv, NEW c \in Case, Judge(c)
  PROVE  IInv'
<1>1. PICK v \in {"pass", "fail"} :
        /\ v = "pass" => happened[c] \in Supports[c]
        /\ verdict' = [verdict EXCEPT ![c] = v]
  BY DEF Judge
<1>2. SuiteTypes'
  BY <1>1 DEF IInv, SuiteTypes, Judge
<1>3. Passed' = IF v = "pass" THEN Passed \cup {c} ELSE Passed
  BY <1>1 DEF IInv, SuiteTypes, Judge, Passed
<1>4. PassesHaveEvidence'
  BY <1>1, <1>3 DEF IInv, PassesHaveEvidence, Judge
<1>5. SuccessIsEveryPass'
  BY DEF Judge, SuccessIsEveryPass
<1>6. QED
  BY <1>2, <1>4, <1>5 DEF IInv

\* The end of a suite changes its report alone.
LEMMA EndKeeps ==
  ASSUME IInv, Conclude \/ GiveUp
  PROVE  IInv'
<1>1. happened' = happened /\ verdict' = verdict /\ Passed' = Passed
  BY DEF Conclude, GiveUp, Passed
<1>2. report' = "ok" => Passed = Case
  BY DEF Conclude, GiveUp, Passed
<1>3. QED
  BY <1>1, <1>2 DEF IInv, SuiteTypes, PassesHaveEvidence, SuccessIsEveryPass

\* The invariant holds in every state of every run of a suite.
THEOREM Invariant == Spec => []IInv
<1> DEFINE Step == Next \/ UNCHANGED vars
<1>1. ASSUME Init PROVE IInv
  <2>1. Passed = {} /\ report = "running"
    BY <1>1 DEF Init, Passed
  <2>2. QED
    BY <1>1, <2>1 DEF Init, IInv, SuiteTypes, PassesHaveEvidence, SuccessIsEveryPass
<1>2. ASSUME IInv, UNCHANGED vars PROVE IInv'
  BY <1>2 DEF IInv, SuiteTypes, PassesHaveEvidence, SuccessIsEveryPass, Passed, vars
<1>3. ASSUME IInv, Step PROVE IInv'
  BY <1>2, <1>3, HappenKeeps, JudgeKeeps, EndKeeps DEF Next
<1>4. QED
  BY <1>1, <1>3, PTL DEF Spec

\* Success is reported only with evidence for every case.
THEOREM Soundness == Spec => []Sound
<1>1. ASSUME IInv, report = "ok", NEW c \in Case PROVE happened[c] \in Supports[c]
  BY <1>1 DEF IInv, PassesHaveEvidence, SuccessIsEveryPass
<1>2. IInv => Sound
  BY <1>1 DEF Sound
<1>3. QED
  BY <1>2, Invariant, PTL

\* Nothing is taken back: a case that was judged keeps its verdict and the evidence
\* it was judged on, and after its report a suite changes nothing.
THEOREM NothingIsTakenBack ==
  Spec => [][/\ report = "running"
             /\ \A c \in Case : verdict[c] # "none" =>
                  verdict'[c] = verdict[c] /\ happened'[c] = happened[c]]_vars
<1> DEFINE Kept == /\ report = "running"
                   /\ \A c \in Case : verdict[c] # "none" =>
                        verdict'[c] = verdict[c] /\ happened'[c] = happened[c]
<1>1. ASSUME IInv, NEW c \in Case, Happen(c) \/ Judge(c) PROVE Kept
  <2>1. report = "running" /\ verdict[c] = "none"
    BY <1>1 DEF Happen, Judge
  <2>2. ASSUME NEW other \in Case \ {c}
        PROVE  verdict'[other] = verdict[other] /\ happened'[other] = happened[other]
    BY <1>1, <2>2 DEF IInv, SuiteTypes, Happen, Judge
  <2>3. QED
    BY <2>1, <2>2
<1>2. ASSUME Conclude \/ GiveUp PROVE Kept
  BY <1>2 DEF Conclude, GiveUp
<1>3. IInv /\ [Next]_vars => [Kept]_vars
  <2> HIDE DEF Kept
  <2>1. QED
    BY <1>1, <1>2 DEF Next
<1>4. QED
  BY <1>3, Invariant, PTL DEF Spec
=============================================================================
