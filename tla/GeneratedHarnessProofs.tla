----------------------- MODULE GeneratedHarnessProofs -----------------------
(***************************************************************************)
(* Proofs about GeneratedHarness, for every list of cases and every set of *)
(* values.  The argument is about one number: exit code 0, which the child *)
(* leaves with in two ways of opposite meaning.                            *)
(***************************************************************************)
EXTENDS GeneratedHarness, TLAPS

-----------------------------------------------------------------------------
(* What the helpers of the model return *)

\* Every status the child can leave is a wait status.
LEMMA StatusTypes ==
  /\ Alive \in Status
  /\ \A n \in 0 .. 255 : Exited(n) \in Status
  /\ \A f : Signalled(f) \in Status
  /\ \A e : trap_handler(e) \in Status
BY DEF Status, Alive, Exited, Signalled, SignalOf, Signals, trap_handler

\* Each wait status is told apart from the others.
LEMMA StatusFields ==
  /\ Alive.how = "alive"
  /\ \A n : Exited(n).how = "exited" /\ Exited(n).code = n
  /\ \A f : Signalled(f).how = "signalled"
BY DEF Alive, Exited, Signalled

\* The happenings of the model are in their type.
LEMMA RecordTypes ==
  /\ Nothing \in Happening
  /\ \A r \in {0, 1}, v \in Values \cup {0}, f \in Faults \cup {"none"},
        a \in Phase :
       [returned |-> r, value |-> v, fault |-> f, at |-> a] \in Happening
BY DEF Nothing, Happening, Phase

\* Every case expects one of two things.
LEMMA CaseTypes ==
  ASSUME NEW c \in Case
  PROVE  Expects(c) \in {"EXPECT_RETURN", "EXPECT_CHERI_TRAP"}
<1>1. Cases[c] \in generated_bpf_case
  BY GeneratedAssumption DEF Case
<1>2. QED
  BY <1>1 DEF Expects, generated_bpf_case

\* run_case and the comparison of the child return what their types say.
LEMMA ResultTypes ==
  /\ \A t, st : run_case(t, st) \in {0, 1}
  /\ \A t, v : Compare(t, v) \in {0, 20, 21}
BY DEF run_case, Compare

-----------------------------------------------------------------------------
(* Type correctness *)

\* main starts with every variable in its type.
LEMMA InitType == Init => TypeOK
<1> SUFFICES ASSUME Init PROVE TypeOK
  OBVIOUS
<1>1. 1 \in 1 .. Len(Cases) + 1
  BY GeneratedAssumption
<1>2. did \in [Case -> Happening]
  BY RecordTypes DEF Init
<1>3. QED
  BY <1>1, <1>2, StatusTypes DEF Init, TypeOK, Running, Phase

\* What main records of a case keeps its variables in their types.
LEMMA RecordType ==
  ASSUME TypeOK, current \in Case, NEW r \in {0, 1}, Record(r)
  PROVE  /\ pc' = "case" /\ exit' = exit
         /\ current' = current + 1
         /\ current' \in 1 .. Len(Cases) + 1
         /\ failures' \in 0 .. current' - 1
         /\ verdict' \in [Case -> {"none", "pass", "fail"}]
<1>1. /\ Len(Cases) \in Nat /\ current \in 1 .. Len(Cases)
      /\ failures \in 0 .. current - 1
  BY GeneratedAssumption DEF TypeOK, Case
<1>2. /\ pc' = "case" /\ exit' = exit
      /\ current' = current + 1 /\ failures' = failures + r
  BY DEF Record
<1>3. failures' \in 0 .. current' - 1 /\ current' \in 1 .. Len(Cases) + 1
  BY <1>1, <1>2
<1>4. verdict' \in [Case -> {"none", "pass", "fail"}]
  BY DEF Record, TypeOK
<1>5. QED
  BY <1>2, <1>3, <1>4

\* The steps of the parent (run_case and main) keep the types.
LEMMA ParentType == TypeOK /\ InStep /\ ParentStep => TypeOK'
<1> SUFFICES ASSUME TypeOK, InStep, ParentStep
             PROVE  TypeOK'
  OBVIOUS
<1>1. CASE Fork
  <2>1. Alive \in Status
    BY StatusTypes
  <2>2. QED
    BY <1>1, <2>1 DEF Fork, TypeOK, Phase
<1>2. CASE ForkFails
  <2>1. Record(1) /\ current \in Case
    BY <1>2 DEF ForkFails
  <2>2. child' \in Phase /\ caught' = {} /\ rc' = 0 /\ status' \in Status
    BY <1>2, StatusTypes DEF ForkFails, Phase
  <2>3. did' = did
    BY <1>2 DEF ForkFails
  <2>4. QED
    BY <2>1, <2>2, <2>3, RecordType DEF TypeOK
<1>3. CASE Reap \/ ReapFails
  <2>1. PICK r \in {0, 1} : Record(r)
    BY <1>3, ResultTypes DEF Reap, ReapFails
  <2>2. current \in Case /\ UNCHANGED childVars
    BY <1>3 DEF Reap, ReapFails, InStep
  <2>3. QED
    BY <2>1, <2>2, RecordType DEF TypeOK, childVars
<1>4. CASE Return
  BY <1>4 DEF Return, childVars, Running, TypeOK
<1>5. QED
  BY <1>1, <1>2, <1>3, <1>4 DEF ParentStep

\* While there is a child, it runs a case of the suite.
LEMMA ChildHasCase ==
  ASSUME TypeOK, InStep, child \notin {"none", "gone"}
  PROVE  /\ pc = "wait" /\ current \in Case
         /\ did[current] \in Happening
         /\ status.how = "alive"
BY DEF TypeOK, InStep, Status

\* A fault adds itself to what happened and ends the child.
LEMMA FaultHappens ==
  ASSUME TypeOK, InStep, Fault
  PROVE  \E f \in Faults :
           /\ did' = [did EXCEPT ![current] =
                        [returned |-> did[current].returned,
                         value |-> did[current].value,
                         fault |-> f, at |-> child]]
           /\ [returned |-> did[current].returned, value |-> did[current].value,
               fault |-> f, at |-> child] \in Happening
           /\ child' = "gone"
           /\ \/ status' = trap_handler(Expects(current))
              \/ status' = Signalled(f)
<1>1. PICK f \in Faults :
        /\ did' = [did EXCEPT ![current] =
                    [returned |-> @.returned, value |-> @.value, fault |-> f,
                     at |-> child]]
        /\ Leave(IF SignalOf(f) \in caught
                 THEN trap_handler(Expects(current)) ELSE Signalled(f))
  BY DEF Fault
<1>2. did[current] \in Happening /\ child \in Phase
  BY ChildHasCase DEF Fault, TypeOK
<1>3. /\ did[current].returned \in {0, 1}
      /\ did[current].value \in Values \cup {0}
  BY <1>2 DEF Happening
<1>4. [returned |-> did[current].returned, value |-> did[current].value,
       fault |-> f, at |-> child] \in Happening
  BY <1>2, <1>3, RecordTypes
<1>5. QED
  BY <1>1, <1>4 DEF Leave

\* The steps of the child (load_compile_and_call and its trap handler) keep
\* the types.
LEMMA ChildType == TypeOK /\ InStep /\ ChildStep => TypeOK'
<1> SUFFICES ASSUME TypeOK, InStep, ChildStep
             PROVE  TypeOK'
  OBVIOUS
<1> USE DEF TypeOK
<1>1. CASE InstallTrapHandlers
  <2>0. Exited(11) \in Status
    BY StatusTypes
  <2>1. child' \in Phase /\ status' \in Status
    BY <1>1, <2>0 DEF InstallTrapHandlers, Leave, Phase
  <2>2. caught' \in SUBSET TrapSignals
    BY <1>1 DEF InstallTrapHandlers
  <2>3. QED
    BY <1>1, <2>1, <2>2 DEF InstallTrapHandlers, parentVars
<1>2. CASE ReadCreateRegister \/ LoadElf \/ Compile
  <2>1. child' \in Phase
    BY <1>2 DEF ReadCreateRegister, LoadElf, Compile, Prepare, Phase
  <2>2. rc' \in {rc, 1, 2}
    BY <1>2 DEF ReadCreateRegister, LoadElf, Compile, Prepare
  <2>3. UNCHANGED <<parentVars, caught, status, did>>
    BY <1>2 DEF ReadCreateRegister, LoadElf, Compile, Prepare
  <2>4. QED
    BY <2>1, <2>2, <2>3 DEF parentVars
<1>3. CASE CallReturns
  <2>1. PICK v \in Values :
          did' = [did EXCEPT ![current] =
                   [returned |-> 1, value |-> v, fault |-> "none",
                    at |-> "none"]]
    BY <1>3 DEF CallReturns
  <2>2. [returned |-> 1, value |-> v, fault |-> "none", at |-> "none"]
          \in Happening
    BY RecordTypes DEF Phase
  <2>3. did' \in [Case -> Happening]
    BY <2>1, <2>2
  <2>4. QED
    BY <1>3, <2>3 DEF CallReturns, parentVars, Phase
<1>4. CASE FreeAndCompare
  <2>1. rc' \in {0, 20, 21}
    BY <1>4, ResultTypes DEF FreeAndCompare
  <2>2. QED
    BY <1>4, <2>1 DEF FreeAndCompare, parentVars, Phase
<1>5. CASE ExitChild
  BY <1>5, StatusTypes DEF ExitChild, Leave, parentVars, Phase
<1>6. CASE Fault
  <2>1. did' \in [Case -> Happening]
    BY <1>6, FaultHappens
  <2>2. child' \in Phase /\ status' \in Status
    BY <1>6, FaultHappens, StatusTypes DEF Phase
  <2>3. QED
    BY <1>6, <2>1, <2>2 DEF Fault, parentVars
<1>7. QED
  BY <1>1, <1>2, <1>3, <1>4, <1>5, <1>6 DEF ChildStep

-----------------------------------------------------------------------------
(* The two processes stay in step *)

\* A child runs only between fork and waitpid, and only for a case of the list.
LEMMA InStepKept == TypeOK /\ InStep /\ [Next]_vars => InStep'
<1> SUFFICES ASSUME TypeOK, InStep, [Next]_vars
             PROVE  InStep'
  OBVIOUS
<1>1. CASE Fork \/ ForkFails
  BY <1>1, StatusFields DEF Fork, ForkFails, Record, InStep
<1>2. CASE Reap \/ ReapFails
  <2>1. pc' = "case" /\ exit' = exit /\ UNCHANGED childVars
    BY <1>2 DEF Reap, ReapFails, Record
  <2>2. child = "gone" /\ exit = Running
    BY <1>2 DEF Reap, ReapFails, InStep
  <2>3. QED
    BY <2>1, <2>2 DEF childVars, InStep
<1>3. CASE Return
  BY <1>3 DEF Return, childVars, Running, InStep
<1>4. CASE InstallTrapHandlers
  BY <1>4, StatusFields DEF InstallTrapHandlers, Leave, parentVars, InStep
<1>5. CASE ReadCreateRegister \/ LoadElf \/ Compile
  BY <1>5 DEF ReadCreateRegister, LoadElf, Compile, Prepare, parentVars, InStep
<1>6. CASE CallReturns \/ FreeAndCompare
  BY <1>6 DEF CallReturns, FreeAndCompare, parentVars, InStep
<1>7. CASE ExitChild
  BY <1>7, StatusFields DEF ExitChild, Leave, parentVars, InStep
<1>8. CASE Fault
  <2>1. child' = "gone" /\ status'.how # "alive"
    BY <1>8, FaultHappens, StatusFields DEF trap_handler
  <2>2. QED
    BY <1>8, <2>1 DEF Fault, parentVars, InStep
<1>9. CASE UNCHANGED vars
  BY <1>9 DEF vars, parentVars, childVars, InStep
<1>10. QED
  BY <1>1, <1>2, <1>3, <1>4, <1>5, <1>6, <1>7, <1>8, <1>9
     DEF Next, ParentStep, ChildStep, Finished

-----------------------------------------------------------------------------
(* The evidence chain: exit code, status, verdict *)

\* What main records of a case keeps the history of the others.
LEMMA RecordHistory ==
  ASSUME TypeOK, InStep, HistoryInStep, current \in Case, exit = Running,
         NEW r \in {0, 1}, Record(r), did' = did
  PROVE  HistoryInStep'
<1>1. current \in Nat /\ failures \in Nat /\ Case \subseteq Nat
  BY GeneratedAssumption DEF TypeOK, Case
<1>2. /\ pc' = "case" /\ current' = current + 1 /\ exit' = exit
      /\ failures' = failures + r
      /\ verdict' = [verdict EXCEPT ![current] =
                      IF r = 0 THEN "pass" ELSE "fail"]
  BY DEF Record
<1>3. \A c \in Case : c > current' => did'[c] = Nothing
  BY <1>1, <1>2 DEF HistoryInStep
<1>4. current' \in Case => did'[current'] = Nothing
  BY <1>1, <1>2 DEF HistoryInStep
<1>5. \A c \in Case : c < current' <=> c < current \/ c = current
  BY <1>1, <1>2
<1>6. /\ verdict'[current] = IF r = 0 THEN "pass" ELSE "fail"
      /\ \A c \in Case : c # current => verdict'[c] = verdict[c]
  BY <1>2 DEF TypeOK
<1>7. \A c \in Case : c < current' <=> verdict'[c] # "none"
  BY <1>5, <1>6 DEF HistoryInStep
<1>8. failures' = 0 <=> failures = 0 /\ r = 0
  BY <1>1, <1>2
<1>9. failures' = 0 <=> \A c \in Case : c < current' => verdict'[c] = "pass"
  BY <1>1, <1>5, <1>6, <1>8 DEF HistoryInStep
<1>10. exit' # 0
  BY <1>2 DEF Running
<1>11. QED
  BY <1>3, <1>4, <1>7, <1>9, <1>10 DEF HistoryInStep

\* The history is that of the cases main has come to.
LEMMA HistoryKept ==
  TypeOK /\ InStep /\ HistoryInStep /\ [Next]_vars => HistoryInStep'
<1> SUFFICES ASSUME TypeOK, InStep, HistoryInStep, [Next]_vars
             PROVE  HistoryInStep'
  OBVIOUS
<1>1. CASE Fork
  BY <1>1 DEF Fork, HistoryInStep
<1>2. CASE ForkFails \/ Reap \/ ReapFails
  <2>1. PICK r \in {0, 1} : Record(r)
    BY <1>2, ResultTypes DEF ForkFails, Reap, ReapFails
  <2>2. current \in Case /\ exit = Running /\ did' = did
    BY <1>2 DEF ForkFails, Reap, ReapFails, InStep, childVars
  <2>3. QED
    BY <2>1, <2>2, RecordHistory
<1>3. CASE Return
  BY <1>3 DEF Return, childVars, HistoryInStep
<1>4. CASE ChildStep
  <2>1. UNCHANGED parentVars /\ child \notin {"none", "gone"}
    BY <1>4 DEF ChildStep, InstallTrapHandlers, ReadCreateRegister, LoadElf,
                Compile, Prepare, CallReturns, FreeAndCompare, ExitChild, Fault
  <2>2. pc = "wait" /\ current \in Nat /\ Case \subseteq Nat
    BY <2>1, ChildHasCase DEF Case
  <2>3. \A c \in Case : c # current => did'[c] = did[c]
    BY <1>4 DEF ChildStep, InstallTrapHandlers, ReadCreateRegister, LoadElf,
         Compile, Prepare, CallReturns, FreeAndCompare, ExitChild, Fault, TypeOK
  <2>4. \A c \in Case : c > current => c # current
    BY <2>2
  <2>5. QED
    BY <2>1, <2>2, <2>3, <2>4 DEF parentVars, HistoryInStep
<1>5. CASE UNCHANGED vars
  BY <1>5 DEF vars, parentVars, childVars, HistoryInStep
<1>6. QED
  BY <1>1, <1>2, <1>3, <1>4, <1>5 DEF Next, ParentStep, Finished

\* Exit code 0 of the comparison is the expected value of a control.
LEMMA CompareJustifies ==
  ASSUME NEW c \in Case, NEW h, h.returned = 1, h.fault = "none",
         Compare(Cases[c], h.value) = 0
  PROVE  Justifies(c, h)
BY CaseTypes DEF Compare, Justifies, Expects

\* Exit code 0 of the handler is a fault of a case that must trap.
LEMMA HandlerJustifies ==
  ASSUME NEW c \in Case, NEW h, h.fault # "none",
         trap_handler(Expects(c)).code = 0
  PROVE  Justifies(c, h)
<1>1. Expects(c) = "EXPECT_CHERI_TRAP"
  BY StatusFields DEF trap_handler
<1>2. QED
  BY <1>1 DEF Justifies

\* What the status says of the child is true of what happened to its case.
LEMMA StatusKept ==
  TypeOK /\ InStep /\ HistoryInStep /\ StatusTruthful /\ [Next]_vars
    => StatusTruthful'
<1> SUFFICES ASSUME TypeOK, InStep, HistoryInStep, StatusTruthful, [Next]_vars,
                    pc' = "wait"
             PROVE  StatusTruthful'
  BY DEF StatusTruthful
<1>1. CASE Fork
  <2>1. did'[current'] = Nothing /\ child' = "start" /\ status'.how = "alive"
    BY <1>1, StatusFields DEF Fork, HistoryInStep
  <2>2. QED
    BY <2>1 DEF StatusTruthful, Nothing
<1>2. CASE ForkFails \/ Reap \/ ReapFails \/ Return
  BY <1>2 DEF ForkFails, Reap, ReapFails, Return, Record
<1>3. CASE InstallTrapHandlers
  <2>1. UNCHANGED <<pc, current, did>> /\ child = "start"
    BY <1>3 DEF InstallTrapHandlers, parentVars
  <2>2. \/ child' = "setup" /\ status' = status
        \/ child' = "gone" /\ status' = Exited(11)
    BY <1>3 DEF InstallTrapHandlers, Leave
  <2>3. status.how = "alive"
    BY <2>1, ChildHasCase
  <2>4. QED
    BY <2>1, <2>2, <2>3, StatusFields DEF StatusTruthful
<1>4. CASE ReadCreateRegister \/ LoadElf \/ Compile
  <2>1. UNCHANGED <<pc, current, did, status>>
    BY <1>4 DEF ReadCreateRegister, LoadElf, Compile, Prepare, parentVars
  <2>2. /\ child \in {"setup", "load", "compile"}
        /\ \/ child' \in {"load", "compile", "call"}
           \/ child' = "exit" /\ rc' \in {1, 2}
    BY <1>4 DEF ReadCreateRegister, LoadElf, Compile, Prepare
  <2>3. status.how = "alive"
    BY <2>2, ChildHasCase
  <2>4. QED
    BY <2>1, <2>2, <2>3 DEF StatusTruthful
<1>5. CASE CallReturns
  <2>1. /\ UNCHANGED <<pc, current, status>>
        /\ child = "call" /\ child' = "free"
    BY <1>5 DEF CallReturns, parentVars
  <2>2. current \in Case /\ status.how = "alive"
    BY <2>1, ChildHasCase
  <2>3. did'[current].returned = 1 /\ did'[current].fault = "none"
    BY <1>5, <2>2 DEF CallReturns, TypeOK
  <2>4. QED
    BY <2>1, <2>2, <2>3 DEF StatusTruthful
<1>6. CASE FreeAndCompare
  <2>1. /\ UNCHANGED <<pc, current, did, status>>
        /\ child = "free" /\ child' = "exit"
        /\ rc' = Compare(Cases[current], did[current].value)
    BY <1>6 DEF FreeAndCompare, parentVars
  <2>2. /\ current \in Case /\ status.how = "alive"
        /\ did[current].returned = 1 /\ did[current].fault = "none"
    BY <2>1, ChildHasCase DEF StatusTruthful
  <2>3. rc' = 0 => Justifies(current, did[current])
    BY <2>1, <2>2, CompareJustifies
  <2>4. Justifies(current, did[current])' <=> Justifies(current, did[current])
    BY <2>1 DEF Justifies, Expects
  <2>5. QED
    BY <2>1, <2>2, <2>3, <2>4 DEF StatusTruthful
<1>7. CASE ExitChild
  <2>1. /\ UNCHANGED <<pc, current, did, rc>>
        /\ child = "exit" /\ child' = "gone" /\ status' = Exited(rc)
    BY <1>7 DEF ExitChild, Leave, parentVars
  <2>2. /\ pc = "wait"
        /\ rc = 0 => Justifies(current, did[current])
    BY <2>1, ChildHasCase DEF StatusTruthful
  <2>3. Justifies(current, did[current])' <=> Justifies(current, did[current])
    BY <2>1 DEF Justifies, Expects
  <2>4. QED
    BY <2>1, <2>2, <2>3, StatusFields DEF StatusTruthful
<1>8. CASE Fault
  <2>1. UNCHANGED <<pc, current>> /\ current \in Case
    BY <1>8, ChildHasCase DEF Fault, parentVars
  <2>2. /\ child' = "gone"
        /\ did'[current].fault # "none"
        /\ \/ status' = trap_handler(Expects(current))
           \/ status'.how = "signalled"
    BY <1>8, <2>1, FaultHappens, StatusFields
       DEF TypeOK, Faults, CapabilityFaults
  <2>3. trap_handler(Expects(current)).how = "exited"
    BY StatusFields DEF trap_handler
  <2>4. trap_handler(Expects(current)).code = 0
          => Justifies(current, did'[current])
    BY <2>1, <2>2, HandlerJustifies
  <2>5. Justifies(current, did[current])' <=> Justifies(current, did'[current])
    BY <2>1 DEF Justifies, Expects
  <2>6. QED
    BY <2>1, <2>2, <2>3, <2>4, <2>5 DEF StatusTruthful
<1>9. CASE UNCHANGED vars
  <2>1. UNCHANGED <<pc, current, child, did, rc, status>>
    BY <1>9 DEF vars, parentVars, childVars
  <2>2. Justifies(current, did[current])' <=> Justifies(current, did[current])
    BY <2>1 DEF Justifies, Expects
  <2>3. QED
    BY <2>1, <2>2 DEF StatusTruthful
<1>10. QED
  BY <1>1, <1>2, <1>3, <1>4, <1>5, <1>6, <1>7, <1>8, <1>9
     DEF Next, ParentStep, ChildStep, Finished

\* run_case never passes a case on anything but its evidence.
LEMMA PassIsJustified ==
  ASSUME TypeOK, InStep, StatusTruthful, Reap,
         run_case(Cases[current], status) = 0
  PROVE  Justifies(current, did[current])
<1>1. pc = "wait" /\ status.how # "alive" /\ current \in Case
  BY DEF Reap, InStep
<1>2. status.how \in {"exited", "signalled"}
  BY <1>1 DEF TypeOK, Status
<1>3. CASE status.how = "signalled"
  <2>1. Expects(current) = "EXPECT_CHERI_TRAP"
    BY <1>3 DEF run_case, WIFSIGNALED, Expects
  <2>2. QED
    BY <1>1, <1>3, <2>1 DEF StatusTruthful, Justifies
<1>4. CASE status.how = "exited"
  <2>1. status.code = 0
    BY <1>4 DEF run_case, WIFSIGNALED
  <2>2. QED
    BY <1>1, <1>4, <2>1 DEF StatusTruthful
<1>5. QED
  BY <1>2, <1>3, <1>4

\* A pass, once given, stays justified: what happened to a judged case is over.
LEMMA VerdictKept ==
  /\ TypeOK /\ InStep /\ HistoryInStep /\ StatusTruthful /\ VerdictSound
  /\ [Next]_vars
  => VerdictSound'
<1> SUFFICES ASSUME TypeOK, InStep, HistoryInStep, StatusTruthful, VerdictSound,
                    [Next]_vars, NEW c \in Case, verdict'[c] = "pass"
             PROVE  Justifies(c, did'[c])
  BY DEF VerdictSound, Justifies, Expects
<1>1. CASE Reap
  <2>1. did' = did
    BY <1>1 DEF Reap, childVars
  <2>2. CASE c = current
    <3>1. run_case(Cases[current], status) = 0
      BY <1>1, <2>2 DEF Reap, Record, TypeOK
    <3>2. QED
      BY <1>1, <2>1, <2>2, <3>1, PassIsJustified
  <2>3. CASE c # current
    <3>1. verdict'[c] = verdict[c]
      BY <1>1, <2>3 DEF Reap, Record, TypeOK
    <3>2. QED
      BY <2>1, <3>1 DEF VerdictSound
  <2>4. QED
    BY <2>2, <2>3
<1>2. CASE ForkFails \/ ReapFails
  <2>1. did' = did /\ c # current /\ verdict'[c] = verdict[c]
    BY <1>2 DEF ForkFails, ReapFails, Record, childVars, TypeOK
  <2>2. QED
    BY <2>1 DEF VerdictSound
<1>3. CASE Fork \/ Return
  <2>1. did' = did /\ verdict' = verdict
    BY <1>3 DEF Fork, Return, childVars
  <2>2. QED
    BY <2>1 DEF VerdictSound
<1>4. CASE ChildStep
  <2>1. UNCHANGED parentVars /\ child \notin {"none", "gone"}
    BY <1>4 DEF ChildStep, InstallTrapHandlers, ReadCreateRegister, LoadElf,
                Compile, Prepare, CallReturns, FreeAndCompare, ExitChild, Fault
  <2>2. current \in Case /\ verdict[current] = "none"
    BY <2>1, ChildHasCase DEF HistoryInStep, TypeOK
  <2>3. c # current /\ verdict[c] = "pass"
    BY <2>1, <2>2 DEF parentVars
  <2>4. did'[c] = did[c]
    BY <1>4, <2>3 DEF ChildStep, InstallTrapHandlers, ReadCreateRegister,
       LoadElf, Compile, Prepare, CallReturns, FreeAndCompare, ExitChild,
       Fault, TypeOK
  <2>5. QED
    BY <2>3, <2>4 DEF VerdictSound
<1>5. CASE UNCHANGED vars
  BY <1>5 DEF vars, parentVars, childVars, VerdictSound
<1>6. QED
  BY <1>1, <1>2, <1>3, <1>4, <1>5 DEF Next, ParentStep, Finished

-----------------------------------------------------------------------------
(* The theorems *)

\* The inductive invariant holds in every state of every run of the suite.
THEOREM Invariant == Spec => []IInv
<1>1. Init => IInv
  <2> SUFFICES ASSUME Init PROVE IInv
    OBVIOUS
  <2>1. TypeOK
    BY InitType
  <2>2. InStep /\ StatusTruthful
    BY StatusFields DEF Init, InStep, StatusTruthful, Running
  <2>3. HistoryInStep /\ VerdictSound
    BY DEF Init, HistoryInStep, VerdictSound, Case, Running
  <2>4. QED
    BY <2>1, <2>2, <2>3 DEF IInv
<1>2. IInv /\ [Next]_vars => IInv'
  <2> SUFFICES ASSUME IInv, [Next]_vars PROVE IInv'
    OBVIOUS
  <2>1. TypeOK'
    <3>1. CASE ParentStep
      BY <3>1, ParentType DEF IInv
    <3>2. CASE ChildStep
      BY <3>2, ChildType DEF IInv
    <3>3. CASE UNCHANGED vars
      BY <3>3 DEF IInv, TypeOK, vars, parentVars, childVars
    <3>4. QED
      BY <3>1, <3>2, <3>3 DEF Next, Finished
  <2>2. InStep' /\ HistoryInStep'
    BY InStepKept, HistoryKept DEF IInv
  <2>3. StatusTruthful' /\ VerdictSound'
    BY StatusKept, VerdictKept DEF IInv
  <2>4. QED
    BY <2>1, <2>2, <2>3 DEF IInv
<1>3. QED
  BY <1>1, <1>2, PTL DEF Spec

\* However the child leaves with its 0, run_case passes no case without the
\* evidence that case needs.
THEOREM VerdictsAreSound == Spec => []VerdictSound
<1>1. IInv => VerdictSound
  BY DEF IInv
<1>2. QED
  BY <1>1, Invariant, PTL

-----------------------------------------------------------------------------
(* The other direction: what went right is not failed *)

\* A step that leaves child, code and happening of the case alone changes nothing.
LEMMA FairUnchanged ==
  ASSUME UNCHANGED <<pc, current, child, did, rc, status>>, StatusFair, NoFalseAlarm
  PROVE  StatusFair' /\ NoFalseAlarm'
BY DEF StatusFair, NoFalseAlarm, CleanRun, Expects

\* A fault ends a clean run, and one of the generated code is what a trap case
\* expects, whether the handler catches it or the signal ends the child.
LEMMA FaultIsFair ==
  ASSUME TypeOK, InStep, Fault
  PROVE  StatusFair' /\ NoFalseAlarm'
<1>1. /\ UNCHANGED <<pc, current>> /\ current \in Case
      /\ child' = "gone"
  BY ChildHasCase, FaultHappens DEF Fault, parentVars
<1>2. did'[current].fault # "none"
  BY <1>1, FaultHappens DEF TypeOK, Faults, CapabilityFaults
<1>3. \/ status' = trap_handler(Expects(current))
      \/ status'.how = "signalled"
  BY FaultHappens, StatusFields
<1>4. ASSUME Expects(current) = "EXPECT_CHERI_TRAP"
      PROVE  run_case(Cases[current], status') = 0
  <2>1. Cases[current].expectation = "EXPECT_CHERI_TRAP"
    BY <1>4 DEF Expects
  <2>2. CASE status'.how = "signalled"
    BY <2>1, <2>2 DEF run_case, WIFSIGNALED
  <2>3. CASE status' = trap_handler(Expects(current))
    <3>1. status' = Exited(0)
      BY <1>4, <2>3 DEF trap_handler
    <3>2. status'.how = "exited" /\ status'.code = 0
      BY <3>1, StatusFields
    <3>3. QED
      BY <3>2 DEF run_case, WIFSIGNALED
  <2>4. QED
    BY <1>3, <2>2, <2>3
<1>5. ~CleanRun(current)'
  BY <1>1, <1>2 DEF CleanRun
<1>6. QED
  BY <1>1, <1>4, <1>5 DEF StatusFair, NoFalseAlarm, Expects

\* Every step keeps both.
LEMMA FairKept ==
  ASSUME TypeOK, InStep, HistoryInStep, StatusTruthful, StatusFair, NoFalseAlarm,
         [Next]_vars
  PROVE  StatusFair' /\ NoFalseAlarm'
<1>1. CASE Fork
  <2>1. did'[current'] = Nothing /\ child' = "start"
    BY <1>1 DEF Fork, HistoryInStep
  <2>2. QED
    BY <2>1 DEF StatusFair, NoFalseAlarm, Nothing
<1>2. CASE ForkFails \/ Reap \/ ReapFails \/ Return
  BY <1>2 DEF ForkFails, Reap, ReapFails, Return, Record, StatusFair, NoFalseAlarm
<1>3. CASE InstallTrapHandlers
  <2>1. /\ UNCHANGED <<pc, current, did>>
        /\ child = "start" /\ child' \in {"setup", "gone"}
    BY <1>3 DEF InstallTrapHandlers, parentVars, Leave
  <2>2. /\ did[current].returned = 0 /\ did[current].at = "none"
    BY <2>1, ChildHasCase DEF StatusTruthful, StatusFair
  <2>3. ~CleanRun(current)'
    BY <2>1, <2>2 DEF CleanRun
  <2>4. QED
    BY <2>1, <2>2, <2>3 DEF StatusFair, NoFalseAlarm
<1>4. CASE ReadCreateRegister \/ LoadElf \/ Compile
  <2>1. /\ UNCHANGED <<pc, current, did>>
        /\ child \in {"setup", "load", "compile"}
        /\ child' \in {"load", "compile", "call", "exit"}
    BY <1>4 DEF ReadCreateRegister, LoadElf, Compile, Prepare, parentVars
  <2>2. /\ did[current].returned = 0 /\ did[current].at = "none"
    BY <2>1, ChildHasCase DEF StatusTruthful, StatusFair
  <2>3. ~CleanRun(current)'
    BY <2>1, <2>2 DEF CleanRun
  <2>4. QED
    BY <2>1, <2>2, <2>3 DEF StatusFair, NoFalseAlarm
<1>5. CASE CallReturns
  <2>1. /\ UNCHANGED <<pc, current>> /\ child = "call" /\ child' = "free"
    BY <1>5 DEF CallReturns, parentVars
  <2>2. did'[current].at = "none"
    BY <1>5, <2>1, ChildHasCase DEF CallReturns, TypeOK
  <2>3. QED
    BY <2>1, <2>2 DEF StatusFair, NoFalseAlarm
<1>6. CASE FreeAndCompare
  <2>1. /\ UNCHANGED <<pc, current, did>>
        /\ child = "free" /\ child' = "exit"
        /\ rc' = Compare(Cases[current], did[current].value)
    BY <1>6 DEF FreeAndCompare, parentVars
  <2>2. did[current].at = "none"
    BY <2>1, ChildHasCase DEF StatusFair
  <2>3. Expects(current) = "EXPECT_RETURN" /\ CleanRun(current) => rc' = 0
    BY <2>1 DEF Compare, CleanRun, Expects
  <2>4. QED
    BY <2>1, <2>2, <2>3 DEF StatusFair, NoFalseAlarm, CleanRun, Expects
<1>7. CASE ExitChild
  <2>1. /\ UNCHANGED <<pc, current, did>>
        /\ child = "exit" /\ child' = "gone" /\ status' = Exited(rc)
    BY <1>7 DEF ExitChild, Leave, parentVars
  <2>2. /\ did[current].at = "none"
        /\ Expects(current) = "EXPECT_RETURN" /\ CleanRun(current) => rc = 0
    BY <2>1, ChildHasCase DEF StatusFair
  <2>3. status'.how = "exited" /\ status'.code = rc
    BY <2>1, StatusFields
  <2>4. rc = 0 => run_case(Cases[current], status') = 0
    BY <2>3 DEF run_case, WIFSIGNALED
  <2>5. QED
    BY <2>1, <2>2, <2>4 DEF StatusFair, NoFalseAlarm, CleanRun, Expects
<1>8. CASE Fault
  BY <1>8, FaultIsFair
<1>9. CASE UNCHANGED vars
  BY <1>9, FairUnchanged DEF vars, parentVars, childVars
<1>10. QED
  BY <1>1, <1>2, <1>3, <1>4, <1>5, <1>6, <1>7, <1>8, <1>9
     DEF Next, ParentStep, ChildStep, Finished

\* run_case fails no control that ran clean to its exit, and no trap case whose
\* generated code faulted.
THEOREM NothingFailedWrongly == Spec => []NoFalseAlarm
<1>1. Init => StatusFair /\ NoFalseAlarm
  BY DEF Init, StatusFair, NoFalseAlarm
<1>2. IInv /\ StatusFair /\ NoFalseAlarm /\ [Next]_vars => (StatusFair /\ NoFalseAlarm)'
  BY FairKept DEF IInv
<1>3. QED
  BY <1>1, <1>2, Invariant, PTL DEF Spec

-----------------------------------------------------------------------------
(* The harness implements the promise of Evidence *)

\* Running means that main has not returned.
LEMMA ReportOfExit ==
  /\ exit = Running <=> report = "running"
  /\ exit = 0 <=> report = "ok"
BY DEF report, Running

\* A step that leaves the history, the verdicts and the exit alone is not seen
\* by Evidence.
LEMMA Unseen ==
  ASSUME did' = did, verdict' = verdict, exit' = exit
  PROVE  UNCHANGED E1!vars
BY DEF E1!vars, report

\* A step of the child adds to what happened to the current case.
LEMMA ChildHappens ==
  ASSUME IInv, TypeOK', ChildStep
  PROVE  current \in Case /\ (E1!Happen(current) \/ UNCHANGED E1!vars)
<1>1. UNCHANGED parentVars /\ child \notin {"none", "gone"}
  BY DEF ChildStep, InstallTrapHandlers, ReadCreateRegister, LoadElf,
         Compile, Prepare, CallReturns, FreeAndCompare, ExitChild, Fault
<1>2. current \in Case /\ verdict[current] = "none" /\ exit = Running
  BY <1>1, ChildHasCase DEF IInv, HistoryInStep, InStep, TypeOK
<1>3. report = "running" /\ verdict' = verdict /\ exit' = exit
  BY <1>1, <1>2, ReportOfExit DEF parentVars
<1>4. report' = report
  BY <1>3 DEF report
<1>5. CASE did' = did
  BY <1>2, <1>3, <1>5, Unseen
<1>6. CASE did' # did
  <2>1. \E h : did' = [did EXCEPT ![current] = h]
    BY <1>6 DEF ChildStep, InstallTrapHandlers, ReadCreateRegister, LoadElf,
         Compile, Prepare, CallReturns, FreeAndCompare, ExitChild, Fault
  <2>2. PICK h : did' = [did EXCEPT ![current] = h]
    BY <2>1
  <2>3. h = did'[current] /\ did'[current] \in Happening
    BY <1>2, <2>2 DEF IInv, TypeOK
  <2>4. QED
    BY <1>2, <1>3, <1>4, <2>2, <2>3 DEF E1!Happen
<1>7. QED
  BY <1>5, <1>6

\* What main records of a case is a verdict that Evidence allows.
LEMMA RecordJudges ==
  ASSUME IInv, current \in Case, exit = Running, NEW r \in {0, 1}, Record(r),
         did' = did, r = 0 => Justifies(current, did[current])
  PROVE  E1!Judge(current)
<1>1. verdict[current] = "none" /\ did[current] \in Happening
  BY DEF IInv, HistoryInStep, TypeOK
<1>2. exit' = exit
  BY DEF Record
<1>3. report = "running" /\ report' = report
  BY <1>2, ReportOfExit DEF report
<1>4. PICK v \in {"pass", "fail"} :
        /\ verdict' = [verdict EXCEPT ![current] = v]
        /\ v = "pass" => r = 0
  BY DEF Record
<1>5. v = "pass" => did[current] \in
        [c \in Case |-> {h \in Happening : Justifies(c, h)}][current]
  BY <1>1, <1>4
<1>6. QED
  BY <1>1, <1>3, <1>4, <1>5 DEF E1!Judge

\* main's return value says what Evidence asks of it.
LEMMA ReturnConcludes ==
  ASSUME IInv, Return
  PROVE  E1!Conclude
<1>1. exit = Running /\ current \notin Case
  BY DEF Return, IInv, InStep
<1>2. \A c \in Case : c < current
  BY <1>1, GeneratedAssumption DEF IInv, TypeOK, Case
<1>3. \A c \in Case : verdict[c] # "none"
  BY <1>2 DEF IInv, HistoryInStep
<1>4. failures = 0 <=> \A c \in Case : verdict[c] = "pass"
  BY <1>2 DEF IInv, HistoryInStep
<1>5. exit' = IF failures # 0 THEN 1 ELSE 0
  BY DEF Return
<1>6. report = "running"
  BY <1>1, ReportOfExit
<1>7. report' = IF \A c \in Case : verdict[c] = "pass" THEN "ok" ELSE "failed"
  BY <1>4, <1>5 DEF report, Running
<1>8. did' = did /\ verdict' = verdict
  BY DEF Return, childVars
<1>9. QED
  BY <1>3, <1>6, <1>7, <1>8 DEF E1!Conclude

\* The steps of main: what run_case returns, after a wait or a call that failed, judges
\* the case, the end of the loop concludes, and a fork is not seen.
LEMMA MainRefines ==
  ASSUME IInv, Fork \/ ForkFails \/ Reap \/ ReapFails \/ Return
  PROVE  E1!Next \/ UNCHANGED E1!vars
<1>1. ASSUME ForkFails \/ Reap \/ ReapFails PROVE current \in Case /\ exit = Running /\ did' = did
  BY <1>1 DEF ForkFails, Reap, ReapFails, IInv, InStep, childVars
<1>2. CASE ForkFails \/ ReapFails
  <2>1. E1!Judge(current)
    BY <1>1, <1>2, RecordJudges DEF ForkFails, ReapFails
  <2>2. QED
    BY <1>1, <1>2, <2>1 DEF E1!Next
<1>3. CASE Reap
  <2>1. Record(run_case(Cases[current], status))
    BY <1>3 DEF Reap
  <2>2. run_case(Cases[current], status) = 0 => Justifies(current, did[current])
    BY <1>3, PassIsJustified DEF IInv
  <2>3. E1!Judge(current)
    BY <1>1, <1>3, <2>1, <2>2, ResultTypes, RecordJudges
  <2>4. QED
    BY <1>1, <1>3, <2>3 DEF E1!Next
<1>4. CASE Fork
  BY <1>4, Unseen DEF Fork
<1>5. QED
  BY <1>2, <1>3, <1>4, ReturnConcludes DEF E1!Next

\* Every run of the suite is a run of Evidence.
THEOREM Refinement == Spec => KeepsPromise
<1>1. Init => E1!Init
  BY DEF Init, E1!Init, report
<1>2. ASSUME IInv, IInv', Next PROVE E1!Next \/ UNCHANGED E1!vars
  <2>1. ASSUME ChildStep PROVE E1!Next \/ UNCHANGED E1!vars
    BY <1>2, <2>1, ChildHappens DEF E1!Next, IInv
  <2>2. ASSUME Finished PROVE UNCHANGED E1!vars
    BY <2>2, Unseen DEF Finished, vars, parentVars, childVars
  <2>3. QED
    BY <1>2, <2>1, <2>2, MainRefines DEF Next, ParentStep
<1>3. ASSUME UNCHANGED vars PROVE UNCHANGED E1!vars
  BY <1>3, Unseen DEF vars, parentVars, childVars
<1>4. IInv /\ IInv' /\ [Next]_vars => [E1!Next]_(E1!vars)
  BY <1>2, <1>3
<1>5. QED
  BY <1>1, <1>4, Invariant, PTL DEF Spec, KeepsPromise, E1!Spec
-----------------------------------------------------------------------------
(* A run has an end *)

\* A step of run_case or main takes main on.
LEMMA ParentAdvances ==
  ASSUME TypeOK, ParentStep
  PROVE  MainPlace' > MainPlace
<1>1. current \in Nat
  BY GeneratedAssumption DEF TypeOK
<1>2. CASE Fork \/ Return
  BY <1>1, <1>2 DEF Fork, Return, MainPlace
<1>3. CASE ForkFails \/ Reap \/ ReapFails
  <2>1. pc' = "case" /\ current' = current + 1
    BY <1>3 DEF ForkFails, Reap, ReapFails, Record
  <2>2. QED
    BY <1>1, <2>1 DEF MainPlace
<1>4. QED
  BY <1>2, <1>3 DEF ParentStep

\* A step of the child, or its fault, takes the child on.
LEMMA ChildAdvances ==
  ASSUME TypeOK, ChildStep
  PROVE  MainPlace' = MainPlace /\ ChildPlace' > ChildPlace
<1>1. UNCHANGED parentVars
  BY DEF ChildStep, InstallTrapHandlers, ReadCreateRegister, LoadElf, Compile, Prepare,
         CallReturns, FreeAndCompare, ExitChild, Fault
<1>2. MainPlace' = MainPlace
  BY <1>1 DEF parentVars, MainPlace
<1>3. CASE InstallTrapHandlers \/ ExitChild
  BY <1>2, <1>3 DEF InstallTrapHandlers, ExitChild, Leave, ChildPlace
<1>4. CASE ReadCreateRegister \/ LoadElf \/ Compile
  BY <1>2, <1>4 DEF ReadCreateRegister, LoadElf, Compile, Prepare, ChildPlace
<1>5. CASE CallReturns \/ FreeAndCompare
  BY <1>2, <1>5 DEF CallReturns, FreeAndCompare, ChildPlace
<1>6. CASE Fault
  <2>1. child \notin {"none", "gone"} /\ child' = "gone"
    BY <1>6 DEF Fault, Leave
  <2>2. QED
    BY <1>2, <2>1 DEF ChildPlace, TypeOK, Phase
<1>7. QED
  BY <1>2, <1>3, <1>4, <1>5, <1>6 DEF ChildStep

\* No step of the suite, failing calls and faults included, goes back.
THEOREM NothingIsDoneTwice == Spec => Advances
<1> DEFINE Further ==
      MainPlace' > MainPlace \/ (MainPlace' = MainPlace /\ ChildPlace' > ChildPlace)
<1>1. IInv /\ [Next]_vars => [Further]_vars
  BY ParentAdvances, ChildAdvances DEF IInv, Next, Finished
<1>2. QED
  BY <1>1, Invariant, PTL DEF Spec, Advances
=============================================================================
