----------------------- MODULE HelperMapHarnessProofs -----------------------
(***************************************************************************)
(* Proofs about HelperMapHarness, for every list of cases, every set of    *)
(* values and both builds of the suite.                                    *)
(***************************************************************************)
EXTENDS HelperMapHarness, TLAPS

-----------------------------------------------------------------------------
(* What the helpers of the model return *)

\* Every status the child can leave is a wait status.
LEMMA StatusTypes ==
  /\ Alive \in Status
  /\ \A n \in 0 .. 255 : Exited(n) \in Status
  /\ \A f : Signalled(f) \in Status
  /\ \A e : trap_handler(e) \in Status
BY DEF Status, Alive, Exited, Signalled, SignalOf, Signals, trap_handler

\* Each wait status is told apart from the others.
LEMMA StatusFields ==
  /\ Alive.how = "alive"
  /\ \A n : /\ Exited(n) # Alive
            /\ Exited(n).how = "exited"
            /\ Exited(n).code = n
  /\ \A f : /\ Signalled(f) # Alive
            /\ Signalled(f).how = "signalled"
            /\ Signalled(f).signal = SignalOf(f)
BY DEF Alive, Exited, Signalled

\* run_case_child fills its struct run_outcome within its type.
LEMMA OutcomeTypes ==
  /\ \A n \in 0 .. 255 : Errored(n) \in Outcome
  /\ \A s \in Signals \cup {0}, n \in 0 .. 255 : Trapped(s, n) \in Outcome
  /\ \A v \in Values : Returned(v) \in Outcome
BY DEF Errored, Trapped, Returned, Outcome

LEMMA OutcomeOfType ==
  ASSUME NEW st \in Status, NEW bytes \in Bytes
  PROVE  OutcomeOf(st, bytes) \in Outcome
<1>1. st.signal \in Signals \cup {0} /\ st.code \in 0 .. 255
  BY DEF Status
<1>2. bytes.value \in Values \cup {0}
  BY DEF Bytes
<1>3. Returned(bytes.value) \in Outcome
  BY <1>2 DEF Returned, Outcome
<1>4. SIGPROT \in Signals
  BY DEF Signals
<1>5. QED
  BY <1>1, <1>3, <1>4, OutcomeTypes DEF OutcomeOf

\* The records of the model are in their types.
LEMMA RecordTypes ==
  /\ NoBytes \in Bytes
  /\ Nothing \in Happening
  /\ NoOutcome \in Outcome
  /\ \A v \in Values \cup {0} : [n |-> WordSize, value |-> v] \in Bytes
  /\ \A r \in {0, 1}, v \in Values \cup {0}, f \in Faults \cup {"none"},
        a \in Phase :
       [returned |-> r, value |-> v, fault |-> f, at |-> a] \in Happening
BY OutcomeTypes
   DEF NoBytes, Bytes, Nothing, Happening, NoOutcome, Phase, WordSize

-----------------------------------------------------------------------------
(* Type correctness *)

\* main starts with every variable in its type.
LEMMA InitType == Init => TypeOK /\ Located
<1> SUFFICES ASSUME Init PROVE TypeOK /\ Located
  OBVIOUS
<1>1. 1 \in 1 .. Len(Cases) + 1
  BY HarnessAssumption
<1>2. did \in [Case -> Happening]
  BY RecordTypes DEF Init
<1>3. QED
  BY <1>1, <1>2, RecordTypes, StatusTypes
     DEF Init, TypeOK, Running, Located, Busy, Phase

\* The steps of the parent (run_case_child and main) keep the types.
LEMMA ParentType == TypeOK /\ Located /\ ParentStep => TypeOK'
<1> SUFFICES ASSUME TypeOK, Located, ParentStep
             PROVE  TypeOK'
  OBVIOUS
<1> USE DEF TypeOK
<1>1. CASE OpenPipe
  <2>1. Errored(90) \in Outcome
    BY OutcomeTypes
  <2>2. pc' \in {"fork", "judge"} /\ outcome' \in Outcome
    BY <1>1, <2>1, RecordTypes DEF OpenPipe
  <2>3. open' \in SUBSET (ParentEnds \cup ChildEnds)
    BY <1>1, StatusFields DEF OpenPipe
  <2>4. /\ child' \in Phase /\ caught' \in SUBSET TrapSignals
        /\ rc' \in 0 .. 255 /\ status' \in Status
        /\ received' \in Bytes /\ sent' \in Bytes
    BY <1>1, RecordTypes, StatusTypes DEF OpenPipe, Phase
  <2>5. QED
    BY <1>1, <2>2, <2>3, <2>4 DEF OpenPipe
<1>2. CASE Fork
  BY <1>2 DEF Fork, Phase
<1>3. CASE ForkFails
  <2>1. Errored(91) \in Outcome
    BY OutcomeTypes
  <2>2. QED
    BY <1>3, <2>1 DEF ForkFails, childVars
<1>4. CASE CloseWriteEnd
  BY <1>4 DEF CloseWriteEnd, childVars
<1>5. CASE ReadResult
  BY <1>5 DEF ReadResult, childVars
<1>6. CASE Reap
  BY <1>6, OutcomeOfType DEF Reap, childVars, pipeVars
<1>7. CASE ReapFails
  <2>1. Errored(92) \in Outcome
    BY OutcomeTypes
  <2>2. QED
    BY <1>7, <2>1 DEF ReapFails, childVars, pipeVars
<1>8. CASE Judge
  <2>0. current \in Case /\ Len(Cases) \in Nat
    BY <1>8, HarnessAssumption DEF Judge, Located, Busy
  <2>1. failures' \in 0 .. current' - 1
    BY <1>8, <2>0 DEF Judge, Case
  <2>2. verdict' \in [Case -> {"none", "pass", "fail"}]
    BY <1>8 DEF Judge
  <2>3. current' \in 1 .. Len(Cases) + 1
    BY <1>8, <2>0 DEF Judge, Case
  <2>4. QED
    BY <1>8, <2>1, <2>2, <2>3 DEF Judge, childVars, pipeVars
<1>9. CASE Return
  BY <1>9 DEF Return, childVars, pipeVars, Running
<1>10. QED
  BY <1>1, <1>2, <1>3, <1>4, <1>5, <1>6, <1>7, <1>8, <1>9 DEF ParentStep

\* While there is a child, it runs a case of the suite.
LEMMA ChildHasCase ==
  ASSUME TypeOK, Located, InStep, child \notin {"none", "gone"}
  PROVE  /\ current \in Case
         /\ did[current] \in Happening
         /\ pc \in {"close", "read", "wait"}
BY DEF TypeOK, Located, InStep, Busy

\* The steps of the child (load_compile_and_call) keep the types.
LEMMA ChildType == TypeOK /\ Located /\ InStep /\ ChildStep => TypeOK'
<1> SUFFICES ASSUME TypeOK, Located, InStep, ChildStep
             PROVE  TypeOK'
  OBVIOUS
<1> USE DEF TypeOK
<1>1. CASE InstallTrapHandlers
  <2>1. Exited(11) \in Status
    BY StatusTypes
  <2>2. child' \in Phase /\ status' \in Status
    BY <1>1, <2>1 DEF InstallTrapHandlers, Leave, Phase
  <2>3. /\ caught' \in SUBSET TrapSignals
        /\ open' \in SUBSET (ParentEnds \cup ChildEnds)
    BY <1>1 DEF InstallTrapHandlers, Leave
  <2>4. QED
    BY <1>1, <2>2, <2>3 DEF InstallTrapHandlers, parentVars
<1>2. CASE CreateAndRegister \/ Load \/ Compile
  <2>1. child' \in Phase
    BY <1>2 DEF CreateAndRegister, Load, Compile, Prepare, Phase
  <2>2. rc' \in {rc, 2, 3, 4}
    BY <1>2 DEF CreateAndRegister, Load, Compile, Prepare
  <2>3. UNCHANGED <<parentVars, caught, status, did, pipeVars>>
    BY <1>2 DEF CreateAndRegister, Load, Compile, Prepare
  <2>4. QED
    BY <2>1, <2>2, <2>3 DEF parentVars, pipeVars
<1>3. CASE CallReturns
  <2>1. PICK v \in Values :
          did' = [did EXCEPT ![current] =
                   [returned |-> 1, value |-> v, fault |-> "none",
                    at |-> "none"]]
    BY <1>3 DEF CallReturns
  <2>2. [returned |-> 1, value |-> v, fault |-> "none", at |-> "none"]
          \in Happening
    BY RecordTypes DEF Phase
  <2>3. did' \in [Case -> Happening]
    BY <2>1, <2>2
  <2>4. QED
    BY <1>3, <2>3 DEF CallReturns, parentVars, pipeVars, Phase
<1>4. CASE WriteResult
  <2>1. did[current].value \in Values \cup {0}
    BY <1>4, ChildHasCase DEF WriteResult, Happening
  <2>2. sent' \in Bytes
    BY <1>4, <2>1, RecordTypes DEF WriteResult
  <2>3. QED
    BY <1>4, <2>2 DEF WriteResult, parentVars, Phase
<1>5. CASE ExitChild
  BY <1>5, StatusTypes DEF ExitChild, Leave, parentVars, Phase
<1>6. CASE Fault
  <2>1. PICK f \in FaultsOn(Purecap) :
          /\ did' = [did EXCEPT ![current] =
                      [returned |-> @.returned, value |-> @.value, fault |-> f,
                       at |-> child]]
          /\ Leave(IF SignalOf(f) \in caught
                   THEN trap_handler(Expects(current)) ELSE Signalled(f))
    BY <1>6 DEF Fault
  <2>2. f \in Faults
    BY DEF FaultsOn
  <2>3. /\ did[current].returned \in {0, 1}
        /\ did[current].value \in Values \cup {0}
    BY <1>6, ChildHasCase DEF Fault, Happening
  <2>4. [returned |-> did[current].returned, value |-> did[current].value,
         fault |-> f, at |-> child] \in Happening
    BY <2>2, <2>3, RecordTypes
  <2>5. did' \in [Case -> Happening]
    BY <2>1, <2>4
  <2>6. /\ child' \in Phase
        /\ status' \in Status
        /\ open' \in SUBSET (ParentEnds \cup ChildEnds)
    BY <2>1, StatusTypes DEF Leave, Phase
  <2>7. QED
    BY <1>6, <2>5, <2>6 DEF Fault, parentVars
<1>7. QED
  BY <1>1, <1>2, <1>3, <1>4, <1>5, <1>6 DEF ChildStep

-----------------------------------------------------------------------------
(* The two processes stay in step *)

\* A step that runs a case runs one of the list.
LEMMA LocatedKept == TypeOK /\ Located /\ [Next]_vars => Located'
<1> SUFFICES ASSUME TypeOK, Located, [Next]_vars
             PROVE  Located'
  OBVIOUS
<1> USE DEF Located, Busy
<1>1. CASE OpenPipe \/ Fork \/ ForkFails \/ CloseWriteEnd \/ ReadResult
  BY <1>1 DEF OpenPipe, Fork, ForkFails, CloseWriteEnd, ReadResult
<1>2. CASE Reap \/ ReapFails
  BY <1>2 DEF Reap, ReapFails
<1>3. CASE Judge \/ Return
  BY <1>3 DEF Judge, Return
<1>4. CASE ChildStep
  <2>1. UNCHANGED parentVars
    BY <1>4 DEF ChildStep, InstallTrapHandlers, CreateAndRegister, Load,
                Compile, Prepare, CallReturns, WriteResult, ExitChild, Fault
  <2>2. QED
    BY <2>1 DEF parentVars
<1>5. CASE UNCHANGED vars
  BY <1>5 DEF vars, parentVars
<1>6. QED
  BY <1>1, <1>2, <1>3, <1>4, <1>5 DEF Next, ParentStep, Finished

\* The parent reaps what it forked before it goes on (run_case_child), and
\* the child runs only between fork and waitpid.
LEMMA InStepKept == TypeOK /\ InStep /\ [Next]_vars => InStep'
<1> SUFFICES ASSUME TypeOK, InStep, [Next]_vars
             PROVE  InStep'
  OBVIOUS
<1> USE DEF InStep
<1>1. CASE OpenPipe
  BY <1>1, StatusFields DEF OpenPipe
<1>2. CASE Fork \/ ForkFails
  BY <1>2 DEF Fork, ForkFails, childVars
<1>3. CASE CloseWriteEnd \/ ReadResult
  BY <1>3 DEF CloseWriteEnd, ReadResult, childVars
<1>4. CASE Reap \/ ReapFails
  BY <1>4 DEF Reap, ReapFails, childVars
<1>5. CASE Judge
  BY <1>5 DEF Judge, childVars
<1>6. CASE Return
  BY <1>6 DEF Return, childVars, Running
<1>7. CASE InstallTrapHandlers
  <2>1. Exited(11).how # "alive"
    BY StatusFields
  <2>2. QED
    BY <1>7, <2>1 DEF InstallTrapHandlers, Leave, parentVars
<1>8. CASE CreateAndRegister \/ Load \/ Compile
  BY <1>8 DEF CreateAndRegister, Load, Compile, Prepare, parentVars
<1>9. CASE CallReturns
  BY <1>9 DEF CallReturns, parentVars
<1>10. CASE WriteResult
  BY <1>10 DEF WriteResult, parentVars
<1>11. CASE ExitChild
  BY <1>11, StatusFields DEF ExitChild, Leave, parentVars
<1>12. CASE Fault
  <2>1. PICK st : st.how # "alive" /\ Leave(st)
    BY <1>12, StatusFields DEF Fault, trap_handler
  <2>2. UNCHANGED parentVars /\ child \notin {"none", "gone"}
    BY <1>12 DEF Fault
  <2>3. QED
    BY <2>1, <2>2 DEF Leave, parentVars
<1>13. CASE UNCHANGED vars
  BY <1>13 DEF vars, parentVars, childVars
<1>14. QED
  BY <1>1, <1>2, <1>3, <1>4, <1>5, <1>6, <1>7, <1>8, <1>9, <1>10, <1>11,
     <1>12, <1>13 DEF Next, ParentStep, ChildStep, Finished

\* Every end of the pipe the parent or the child opened is closed on every
\* path through run_case_child.
LEMMA EndsKept == TypeOK /\ InStep /\ EndsInStep /\ [Next]_vars => EndsInStep'
<1> SUFFICES ASSUME TypeOK, InStep, EndsInStep, [Next]_vars
             PROVE  EndsInStep'
  OBVIOUS
<1> USE DEF InStep, EndsInStep, ParentEnds, ChildEnds
<1>1. CASE OpenPipe
  BY <1>1, StatusFields DEF OpenPipe
<1>2. CASE Fork
  BY <1>2 DEF Fork
<1>3. CASE ForkFails
  BY <1>3 DEF ForkFails, childVars
<1>4. CASE CloseWriteEnd
  BY <1>4 DEF CloseWriteEnd, childVars
<1>5. CASE ReadResult
  BY <1>5 DEF ReadResult, childVars
<1>6. CASE Reap \/ ReapFails
  BY <1>6 DEF Reap, ReapFails, childVars, pipeVars, TypeOK
<1>7. CASE Judge \/ Return
  BY <1>7 DEF Judge, Return, childVars, pipeVars
<1>8. CASE InstallTrapHandlers
  BY <1>8 DEF InstallTrapHandlers, Leave, parentVars
<1>9. CASE CreateAndRegister \/ Load \/ Compile
  BY <1>9 DEF CreateAndRegister, Load, Compile, Prepare, parentVars, pipeVars
<1>10. CASE CallReturns \/ WriteResult
  BY <1>10 DEF CallReturns, WriteResult, parentVars, pipeVars
<1>11. CASE ExitChild
  BY <1>11 DEF ExitChild, Leave, parentVars
<1>12. CASE Fault
  BY <1>12 DEF Fault, Leave, parentVars
<1>13. CASE UNCHANGED vars
  BY <1>13 DEF vars, parentVars, childVars, pipeVars
<1>14. QED
  BY <1>1, <1>2, <1>3, <1>4, <1>5, <1>6, <1>7, <1>8, <1>9, <1>10, <1>11,
     <1>12, <1>13 DEF Next, ParentStep, ChildStep, Finished

-----------------------------------------------------------------------------
(* The evidence chain: status, bytes, outcome, verdict *)

\* The history is that of the cases main has come to.
LEMMA HistoryKept ==
  TypeOK /\ Located /\ InStep /\ HistoryInStep /\ [Next]_vars => HistoryInStep'
<1> SUFFICES ASSUME TypeOK, Located, InStep, HistoryInStep, [Next]_vars
             PROVE  HistoryInStep'
  OBVIOUS
<1> USE DEF HistoryInStep
<1>0. current \in Nat /\ failures \in Nat /\ Case \subseteq Nat
  BY HarnessAssumption DEF TypeOK, Case
<1>1. CASE OpenPipe \/ Fork \/ ForkFails \/ CloseWriteEnd \/ ReadResult
  BY <1>1 DEF OpenPipe, Fork, ForkFails, CloseWriteEnd, ReadResult, childVars
<1>2. CASE Reap \/ ReapFails
  BY <1>2 DEF Reap, ReapFails, childVars
<1>3. CASE Judge
  <2>0. current \in Case /\ exit = Running
    BY <1>3 DEF Judge, Located, Busy, InStep
  <2>1. PICK v \in {"pass", "fail"} :
          /\ verdict' = [verdict EXCEPT ![current] = v]
          /\ failures' = failures + (IF v = "pass" THEN 0 ELSE 1)
    BY <1>3 DEF Judge
  <2>2. \A c \in Case : verdict'[c] = IF c = current THEN v ELSE verdict[c]
    BY <2>0, <2>1 DEF TypeOK
  <2>3. current' = current + 1 /\ pc' = "case" /\ did' = did /\ exit' = exit
    BY <1>3 DEF Judge, childVars
  <2>4. \A c \in Case : /\ c < current' <=> c < current \/ c = current
                        /\ c > current' => c > current
    BY <1>0, <2>3
  <2>5. \A c \in Case : c < current' <=> verdict'[c] # "none"
    BY <2>1, <2>2, <2>4
  <2>6. failures' = 0 <=> \A c \in Case : c < current' => verdict'[c] = "pass"
    BY <1>0, <2>0, <2>1, <2>2, <2>4
  <2>7. current' \in Case => did'[current'] = Nothing
    BY <1>0, <2>3
  <2>8. QED
    BY <2>0, <2>3, <2>4, <2>5, <2>6, <2>7 DEF Running
<1>4. CASE Return
  BY <1>4 DEF Return, childVars, Running
<1>5. CASE ChildStep
  <2>1. UNCHANGED parentVars /\ child \notin {"none", "gone"}
    BY <1>5 DEF ChildStep, InstallTrapHandlers, CreateAndRegister, Load,
                Compile, Prepare, CallReturns, WriteResult, ExitChild, Fault
  <2>2. pc \in {"close", "read", "wait"} /\ current \in Case
    BY <2>1, ChildHasCase
  <2>3. \A c \in Case : c # current => did'[c] = did[c]
    BY <1>5 DEF ChildStep, InstallTrapHandlers, CreateAndRegister, Load,
                Compile, Prepare, CallReturns, WriteResult, ExitChild, Fault,
                TypeOK
  <2>4. QED
    BY <1>0, <2>1, <2>2, <2>3 DEF parentVars
<1>6. CASE UNCHANGED vars
  BY <1>6 DEF vars, parentVars, childVars
<1>7. QED
  BY <1>1, <1>2, <1>3, <1>4, <1>5, <1>6 DEF Next, ParentStep, Finished

\* The wait status, the bytes in the pipe and the bytes read speak the truth
\* about the current case (load_compile_and_call, write_all, trap_handler).
LEMMA StatusKept ==
  TypeOK /\ Located /\ InStep /\ HistoryInStep /\ StatusTruthful /\ [Next]_vars
    => StatusTruthful'
<1> SUFFICES ASSUME TypeOK, Located, InStep, HistoryInStep, StatusTruthful,
                    [Next]_vars, Busy'
             PROVE  StatusTruthful'
  BY DEF StatusTruthful
<1> USE DEF StatusTruthful, Busy
<1>1. CASE OpenPipe
  <2>1. did'[current'] = Nothing /\ child' = "none" /\ status' = Alive
    BY <1>1 DEF OpenPipe, HistoryInStep
  <2>2. sent'.n = 0 /\ received'.n = 0
    BY <1>1 DEF OpenPipe, NoBytes
  <2>3. QED
    BY <2>1, <2>2, StatusFields DEF Nothing, WordSize
<1>2. CASE Fork
  <2>1. did[current] = Nothing
    BY <1>2 DEF Fork, HistoryInStep, Located
  <2>2. QED
    BY <1>2, <2>1 DEF Fork, Nothing, InStep
<1>3. CASE ForkFails \/ CloseWriteEnd
  BY <1>3 DEF ForkFails, CloseWriteEnd, childVars
<1>4. CASE ReadResult
  BY <1>4 DEF ReadResult, childVars
<1>5. CASE Reap \/ ReapFails
  BY <1>5 DEF Reap, ReapFails, childVars, pipeVars
<1>6. CASE Judge \/ Return
  BY <1>6 DEF Judge, Return
<1>7. CASE InstallTrapHandlers
  <2>1. \/ child' = "setup" /\ status' = status
        \/ child' = "gone" /\ status' = Exited(11)
    BY <1>7 DEF InstallTrapHandlers, Leave
  <2>2. UNCHANGED <<pc, current, received, sent, did, rc>>
    BY <1>7 DEF InstallTrapHandlers, parentVars
  <2>3. Exited(11).how = "exited" /\ Exited(11).code = 11
    BY StatusFields
  <2>4. child = "start"
    BY <1>7 DEF InstallTrapHandlers
  <2>5. QED
    BY <2>1, <2>2, <2>3, <2>4
<1>8. CASE CreateAndRegister \/ Load \/ Compile
  <2>1. UNCHANGED <<pc, current, received, sent, did, status>>
    BY <1>8 DEF CreateAndRegister, Load, Compile, Prepare, parentVars, pipeVars
  <2>2. /\ child \in {"setup", "load", "compile"}
        /\ \/ child' \in {"load", "compile", "call"}
           \/ child' = "exit" /\ rc' \in {2, 3, 4}
    BY <1>8 DEF CreateAndRegister, Load, Compile, Prepare
  <2>3. QED
    BY <2>1, <2>2
<1>9. CASE CallReturns
  <2>1. current \in Case /\ did[current].fault = "none"
    BY <1>9, ChildHasCase DEF CallReturns
  <2>2. did'[current].returned = 1 /\ did'[current].fault = "none"
    BY <1>9, <2>1 DEF CallReturns, TypeOK
  <2>3. /\ UNCHANGED <<pc, current, received, sent, status, rc>>
        /\ child = "call" /\ child' = "write"
    BY <1>9 DEF CallReturns, parentVars, pipeVars
  <2>4. status.how = "alive" /\ sent.n # WordSize /\ received.n # WordSize
    BY <2>3 DEF InStep
  <2>5. QED
    BY <2>2, <2>3, <2>4, StatusFields
<1>10. CASE WriteResult
  <2>1. UNCHANGED <<pc, current, received, did, status>>
    BY <1>10 DEF WriteResult, parentVars
  <2>2. /\ child = "write" /\ child' = "exit" /\ rc' \in {0, 5}
        /\ sent' = sent \/ sent'.value = did[current].value
    BY <1>10 DEF WriteResult
  <2>3. QED
    BY <2>1, <2>2
<1>11. CASE ExitChild
  <2>1. UNCHANGED <<pc, current, received, sent, did, rc>>
    BY <1>11 DEF ExitChild, parentVars
  <2>2. /\ child = "exit" /\ child' = "gone"
        /\ status'.how = "exited" /\ status'.code = rc
    BY <1>11, StatusFields DEF ExitChild, Leave
  <2>3. rc < 100 /\ rc \in Nat
    BY <2>2, ChildHasCase DEF TypeOK
  <2>4. QED
    BY <2>1, <2>2, <2>3, ChildHasCase
<1>12. CASE Fault
  <2>1. PICK f \in FaultsOn(Purecap) :
          /\ did' = [did EXCEPT ![current] =
                      [returned |-> @.returned, value |-> @.value, fault |-> f,
                       at |-> child]]
          /\ Leave(IF SignalOf(f) \in caught
                   THEN trap_handler(Expects(current)) ELSE Signalled(f))
    BY <1>12 DEF Fault
  <2>2. /\ UNCHANGED <<pc, current, received, sent, rc>>
        /\ child \notin {"none", "gone"}
    BY <1>12 DEF Fault, parentVars
  <2>3. /\ did'[current].returned = did[current].returned
        /\ did'[current].value = did[current].value
        /\ did'[current].fault = f
    BY <2>1, <2>2, ChildHasCase DEF TypeOK
  <2>4. CASE SignalOf(f) \in caught
    <3>1. f \in Faults \ {"kill"}
      BY <2>4 DEF TypeOK, TrapSignals, SignalOf, SIGPROT, SIGSEGV, SIGKILL,
                  FaultsOn, Faults, CapabilityFaults
    <3>2. /\ child' = "gone"
          /\ status'.how = "exited"
          /\ status'.code \in {31, 100}
      BY <2>1, <2>4, StatusFields DEF Leave, trap_handler
    <3>3. QED
      BY <2>2, <2>3, <3>1, <3>2
  <2>5. CASE SignalOf(f) \notin caught
    <3>1. /\ child' = "gone"
          /\ status'.how = "signalled"
          /\ status'.signal = SignalOf(f)
      BY <2>1, <2>5, StatusFields DEF Leave
    <3>2. f \in Faults
      BY DEF FaultsOn
    <3>3. QED
      BY <2>2, <2>3, <3>1, <3>2
  <2>6. QED
    BY <2>4, <2>5
<1>13. CASE UNCHANGED vars
  BY <1>13 DEF vars, parentVars, childVars, pipeVars
<1>14. QED
  BY <1>1, <1>2, <1>3, <1>4, <1>5, <1>6, <1>7, <1>8, <1>9, <1>10, <1>11,
     <1>12, <1>13 DEF Next, ParentStep, ChildStep, Finished

\* What Reap concludes from a truthful status and truthful bytes is true.
LEMMA OutcomeOfTruthful ==
  ASSUME NEW h, NEW st \in Status, NEW bytes,
         st.how # "alive",
         st.how = "exited" =>
           /\ st.code = 0 => h.returned = 1 /\ h.fault = "none"
           /\ st.code = 100 => h.fault \in Faults \ {"kill"},
         st.how = "signalled" =>
           h.fault \in Faults /\ st.signal = SignalOf(h.fault),
         bytes.n = WordSize => h.returned = 1 /\ bytes.value = h.value
  PROVE  LET o == OutcomeOf(st, bytes) IN
         /\ o.returned = 1
              => h.returned = 1 /\ h.value = o.value /\ h.fault = "none"
         /\ o.signalled = 1 => h.fault \in Faults
         /\ o.signalled = 1 /\ Purecap /\ o.signal = SIGPROT
              => h.fault # "kill"
<1>1. CASE st.how = "signalled"
  <2>1. OutcomeOf(st, bytes) = Trapped(st.signal, 0)
    BY <1>1 DEF OutcomeOf, WIFSIGNALED
  <2>2. h.fault = "kill" => st.signal # SIGPROT
    BY <1>1 DEF SignalOf, SIGPROT, SIGKILL, CapabilityFaults
  <2>3. QED
    BY <1>1, <2>1, <2>2 DEF Trapped
<1>2. CASE st.how = "exited" /\ st.code = 100
  <2>1. OutcomeOf(st, bytes) = Trapped(IF Purecap THEN SIGPROT ELSE 0, 100)
    BY <1>2 DEF OutcomeOf, WIFSIGNALED
  <2>2. QED
    BY <1>2, <2>1 DEF Trapped
<1>3. CASE st.how = "exited" /\ st.code = 0 /\ bytes.n = WordSize
  <2>1. OutcomeOf(st, bytes) = Returned(bytes.value)
    BY <1>3 DEF OutcomeOf, WIFSIGNALED
  <2>2. QED
    BY <1>3, <2>1 DEF Returned
<1>4. CASE st.how = "exited" /\ st.code # 100
             /\ ~(st.code = 0 /\ bytes.n = WordSize)
  <2>1. OutcomeOf(st, bytes) = Errored(st.code)
    BY <1>4 DEF OutcomeOf, WIFSIGNALED
  <2>2. QED
    BY <2>1 DEF Errored
<1>5. st.how \in {"exited", "signalled"}
  BY DEF Status
<1>6. QED
  BY <1>1, <1>2, <1>3, <1>4, <1>5

\* The parent's struct run_outcome is true of the case it judges.
LEMMA OutcomeKept ==
  /\ TypeOK /\ Located /\ InStep /\ HistoryInStep /\ StatusTruthful
  /\ OutcomeTruthful
  /\ [Next]_vars
  => OutcomeTruthful'
<1> SUFFICES ASSUME TypeOK, Located, InStep, HistoryInStep, StatusTruthful,
                    OutcomeTruthful, [Next]_vars
             PROVE  OutcomeTruthful'
  OBVIOUS
<1> USE DEF OutcomeTruthful
<1>0. \A n : Errored(n).returned = 0 /\ Errored(n).signalled = 0
  BY DEF Errored
<1>1. CASE OpenPipe
  BY <1>0, <1>1 DEF OpenPipe
<1>2. CASE Fork \/ ForkFails
  BY <1>0, <1>2 DEF Fork, ForkFails
<1>3. CASE CloseWriteEnd \/ ReadResult
  BY <1>3 DEF CloseWriteEnd, ReadResult
<1>4. CASE Reap
  <2>1. /\ outcome' = OutcomeOf(status, received) /\ did' = did
        /\ current' = current /\ pc' = "judge"
        /\ status.how # "alive" /\ pc = "wait"
    BY <1>4 DEF Reap, childVars
  <2>2. status \in Status
    BY DEF TypeOK
  <2>3. QED
    BY <2>1, <2>2, OutcomeOfTruthful DEF StatusTruthful, Busy
<1>5. CASE ReapFails
  BY <1>0, <1>5 DEF ReapFails
<1>6. CASE Judge \/ Return
  BY <1>6 DEF Judge, Return
<1>7. CASE ChildStep
  <2>1. UNCHANGED parentVars /\ child \notin {"none", "gone"}
    BY <1>7 DEF ChildStep, InstallTrapHandlers, CreateAndRegister, Load,
                Compile, Prepare, CallReturns, WriteResult, ExitChild, Fault
  <2>2. pc # "judge"
    BY <2>1 DEF InStep
  <2>3. QED
    BY <2>1, <2>2 DEF parentVars
<1>8. CASE UNCHANGED vars
  BY <1>8 DEF vars, parentVars, childVars
<1>9. QED
  BY <1>1, <1>2, <1>3, <1>4, <1>5, <1>6, <1>7, <1>8
     DEF Next, ParentStep, Finished

\* case_passed never passes a case on anything but the evidence it needs.
LEMMA PassIsJustified ==
  ASSUME TypeOK, Located, OutcomeTruthful, pc = "judge",
         case_passed(Cases[current], outcome)
  PROVE  Justifies(current, did[current])
<1>1. Expects(current) \in Expectation
  <2>1. current \in 1 .. Len(Cases)
    BY DEF Located, Busy, Case
  <2>2. Cases[current] \in helper_map_case
    BY <2>1, HarnessAssumption
  <2>3. QED
    BY <2>2 DEF Expects, helper_map_case
<1>2. outcome.signalled = 1 => did[current].fault # "none"
  BY DEF OutcomeTruthful, Faults, CapabilityFaults
<1>3. CASE Expects(current) = "EXPECT_RETURN"
  BY <1>3 DEF case_passed, Justifies, OutcomeTruthful, Expects
<1>4. CASE Expects(current) = "EXPECT_TRAP" /\ Purecap
  <2>1. outcome.signalled = 1 /\ outcome.signal = SIGPROT
    BY <1>4 DEF case_passed, Expects
  <2>2. did[current].fault \in Faults \ {"kill"}
    BY <1>4, <2>1 DEF OutcomeTruthful
  <2>3. QED
    BY <1>4, <2>2 DEF Justifies
<1>5. CASE Expects(current) = "EXPECT_TRAP" /\ ~Purecap
  BY <1>2, <1>5 DEF case_passed, Justifies, OutcomeTruthful, Expects
<1>6. QED
  BY <1>1, <1>3, <1>4, <1>5 DEF Expectation

LEMMA VerdictKept ==
  /\ TypeOK /\ Located /\ InStep /\ HistoryInStep /\ OutcomeTruthful
  /\ VerdictSound
  /\ [Next]_vars
  => VerdictSound'
<1> SUFFICES ASSUME TypeOK, Located, InStep, HistoryInStep, OutcomeTruthful,
                    VerdictSound, [Next]_vars,
                    NEW c \in Case, verdict'[c] = "pass"
             PROVE  Justifies(c, did'[c])
  BY DEF VerdictSound, Justifies, Expects
<1>1. CASE Judge
  <2>1. did' = did
    BY <1>1 DEF Judge, childVars
  <2>2. CASE c = current
    <3>1. case_passed(Cases[current], outcome)
      BY <1>1, <2>2 DEF Judge, TypeOK
    <3>2. QED
      BY <1>1, <2>1, <2>2, <3>1, PassIsJustified DEF Judge
  <2>3. CASE c # current
    <3>1. verdict'[c] = verdict[c]
      BY <1>1, <2>3 DEF Judge, TypeOK
    <3>2. QED
      BY <2>1, <3>1 DEF VerdictSound
  <2>4. QED
    BY <2>2, <2>3
<1>2. CASE ParentStep /\ ~Judge
  <2>1. did' = did /\ verdict' = verdict
    BY <1>2 DEF ParentStep, OpenPipe, Fork, ForkFails, CloseWriteEnd,
                ReadResult, Reap, ReapFails, Return, childVars
  <2>2. QED
    BY <2>1 DEF VerdictSound
<1>3. CASE ChildStep
  <2>1. UNCHANGED parentVars /\ child \notin {"none", "gone"}
    BY <1>3 DEF ChildStep, InstallTrapHandlers, CreateAndRegister, Load,
                Compile, Prepare, CallReturns, WriteResult, ExitChild, Fault
  <2>2. current \in Case /\ verdict[current] = "none"
    BY <2>1, ChildHasCase DEF HistoryInStep, TypeOK
  <2>3. c # current /\ verdict[c] = "pass"
    BY <2>1, <2>2 DEF parentVars
  <2>4. did'[c] = did[c]
    BY <1>3, <2>3 DEF ChildStep, InstallTrapHandlers, CreateAndRegister, Load,
         Compile, Prepare, CallReturns, WriteResult, ExitChild, Fault, TypeOK
  <2>5. QED
    BY <2>3, <2>4 DEF VerdictSound
<1>4. CASE UNCHANGED vars
  BY <1>4 DEF vars, parentVars, childVars, VerdictSound
<1>5. QED
  BY <1>1, <1>2, <1>3, <1>4 DEF Next, Finished

-----------------------------------------------------------------------------
(* The theorems *)

\* The inductive invariant holds in every state of every run of the suite.
THEOREM Invariant == Spec => []IInv
<1>1. Init => IInv
  <2> SUFFICES ASSUME Init PROVE IInv
    OBVIOUS
  <2>1. TypeOK /\ Located
    BY InitType
  <2>2. InStep /\ EndsInStep /\ StatusTruthful /\ OutcomeTruthful
    BY StatusFields DEF Init, InStep, EndsInStep, StatusTruthful,
       OutcomeTruthful, Busy
  <2>3. HistoryInStep /\ VerdictSound
    BY DEF Init, HistoryInStep, VerdictSound, Case, Running
  <2>4. QED
    BY <2>1, <2>2, <2>3 DEF IInv
<1>2. IInv /\ [Next]_vars => IInv'
  <2> SUFFICES ASSUME IInv, [Next]_vars PROVE IInv'
    OBVIOUS
  <2>1. TypeOK'
    <3>1. CASE ParentStep
      BY <3>1, ParentType DEF IInv
    <3>2. CASE ChildStep
      BY <3>2, ChildType DEF IInv
    <3>3. CASE UNCHANGED vars
      BY <3>3 DEF IInv, TypeOK, vars, parentVars, childVars, pipeVars
    <3>4. QED
      BY <3>1, <3>2, <3>3 DEF Next, Finished
  <2>2. Located' /\ InStep' /\ EndsInStep'
    BY LocatedKept, InStepKept, EndsKept DEF IInv
  <2>3. HistoryInStep' /\ StatusTruthful' /\ OutcomeTruthful'
    BY HistoryKept, StatusKept, OutcomeKept DEF IInv
  <2>4. VerdictSound'
    BY VerdictKept DEF IInv
  <2>5. QED
    BY <2>1, <2>2, <2>3, <2>4 DEF IInv
<1>3. QED
  BY <1>1, <1>2, PTL DEF Spec

\* Type correctness of the harness.
THEOREM TypeCorrect == Spec => []TypeOK
<1>1. IInv => TypeOK
  BY DEF IInv
<1>2. QED
  BY <1>1, Invariant, PTL

\* Whatever the generated code does to the child and however the two processes
\* interleave, case_passed passes no case without the evidence it needs.
THEOREM VerdictsAreSound == Spec => []VerdictSound
<1>1. IInv => VerdictSound
  BY DEF IInv
<1>2. QED
  BY <1>1, Invariant, PTL

\* main returns 0 only with that evidence for every case of the suite.
THEOREM SuiteIsSound == Spec => []SuiteSound
<1>1. IInv => SuiteSound
  <2> SUFFICES ASSUME IInv, exit = 0, NEW c \in Case
               PROVE  Justifies(c, did[c])
    BY DEF SuiteSound
  <2>1. pc = "done" /\ current \notin Case
    BY DEF IInv, InStep, Running
  <2>2. c < current
    BY <2>1, HarnessAssumption DEF IInv, TypeOK, Case
  <2>3. failures = 0 /\ verdict[c] = "pass"
    BY <2>2 DEF IInv, HistoryInStep
  <2>4. QED
    BY <2>3 DEF IInv, VerdictSound
<1>2. QED
  BY <1>1, Invariant, PTL

\* No path through run_case_child leaves a descriptor or a child behind.
THEOREM NothingIsLeaked == Spec => []NothingLeaks
<1>1. IInv => NothingLeaks
  BY DEF IInv, NothingLeaks, EndsInStep, InStep
<1>2. QED
  BY <1>1, Invariant, PTL

-----------------------------------------------------------------------------
(* A clean child is not failed *)

\* The parent's steps: what it reads is what the child had sent for good.
LEMMA ParentFair ==
  ASSUME TypeOK, Located, InStep, EndsInStep, HistoryInStep, StatusTruthful,
         StatusFair, ParentStep
  PROVE  StatusFair'
<1> USE DEF StatusFair, Busy
<1>1. CASE OpenPipe
  <2>1. sent'.n = 0 /\ child' = "none" /\ pc' \in {"fork", "judge"}
    BY <1>1 DEF OpenPipe, NoBytes
  <2>2. QED
    BY <2>1 DEF WordSize
<1>2. CASE Fork
  <2>1. did'[current'].returned = 0
    BY <1>2 DEF Fork, Nothing, HistoryInStep, Located
  <2>2. /\ child' = "start" /\ pc' = "close" /\ "childWrite" \in open'
        /\ sent' = sent
    BY <1>2 DEF Fork, ChildEnds
  <2>3. sent.n # WordSize
    BY <1>2 DEF Fork, InStep
  <2>4. QED
    BY <2>1, <2>2, <2>3
<1>3. CASE ForkFails
  BY <1>3 DEF ForkFails, childVars, InStep
<1>4. CASE CloseWriteEnd
  BY <1>4 DEF CloseWriteEnd, childVars
<1>5. CASE ReadResult
  <2>1. /\ received' = sent /\ sent' = sent /\ pc = "read" /\ pc' = "wait"
        /\ UNCHANGED <<child, status, rc, did, current>>
        /\ open' = open \ {"parentRead"}
    BY <1>5 DEF ReadResult, childVars
  <2>2. child # "none"
    BY <2>1 DEF InStep
  <2>3. sent.n = WordSize \/ "childWrite" \notin open
    BY <1>5 DEF ReadResult, WriteEnds
  <2>4. child \in {"exit", "gone"}
    BY <2>1, <2>2, <2>3
  <2>5. QED
    BY <2>1, <2>4
<1>6. CASE Reap \/ ReapFails
  BY <1>6 DEF Reap, ReapFails, childVars, pipeVars
<1>7. CASE Judge \/ Return
  BY <1>7 DEF Judge, Return, childVars, pipeVars
<1>8. QED
  BY <1>1, <1>2, <1>3, <1>4, <1>5, <1>6, <1>7 DEF ParentStep

\* The child's steps: only a clean call whose write failed leaves with 5, and
\* whatever else goes wrong leaves its mark on the history.
LEMMA ChildFair ==
  ASSUME TypeOK, Located, InStep, StatusTruthful, StatusFair, ChildStep
  PROVE  StatusFair'
<1>0. /\ UNCHANGED <<pc, current, received>> /\ child \notin {"none", "gone"}
  BY DEF ChildStep, InstallTrapHandlers, CreateAndRegister, Load,
         Compile, Prepare, CallReturns, WriteResult, ExitChild, Fault, parentVars
<1>a. /\ current \in Case /\ pc \in {"close", "read", "wait"}
      /\ "childWrite" \in open
  BY <1>0, ChildHasCase DEF StatusFair
<1> USE DEF StatusFair, Busy
<1>1. CASE InstallTrapHandlers
  <2>1. /\ child = "start" /\ child' \in {"setup", "gone"}
        /\ UNCHANGED <<sent, did>>
        /\ child' = "setup" => open' = open \ {"childRead"}
    BY <1>1 DEF InstallTrapHandlers, Leave
  <2>2. did'[current'].returned = 0
    BY <1>0, <1>a, <2>1 DEF StatusTruthful
  <2>3. sent.n # WordSize /\ pc # "wait"
    BY <1>a, <2>1
  <2>4. QED
    BY <1>0, <1>a, <2>1, <2>2, <2>3
<1>2. CASE CreateAndRegister \/ Load \/ Compile
  <2>1. /\ child \in {"setup", "load", "compile"}
        /\ child' \in {"load", "compile", "call", "exit"}
        /\ UNCHANGED <<sent, did, open>>
    BY <1>2 DEF CreateAndRegister, Load, Compile, Prepare, pipeVars
  <2>2. did'[current'].returned = 0
    BY <1>0, <1>a, <2>1 DEF StatusTruthful
  <2>3. sent.n # WordSize /\ pc # "wait"
    BY <1>a, <2>1
  <2>4. QED
    BY <1>0, <1>a, <2>1, <2>2, <2>3
<1>3. CASE CallReturns
  <2>1. child = "call" /\ child' = "write" /\ UNCHANGED <<sent, open>>
    BY <1>3 DEF CallReturns, pipeVars
  <2>2. sent.n # WordSize /\ pc # "wait"
    BY <1>a, <2>1
  <2>3. QED
    BY <1>0, <1>a, <2>1, <2>2
<1>4. CASE WriteResult
  <2>1. /\ child = "write" /\ child' = "exit" /\ open' = open
        /\ rc' = 5 \/ (rc' = 0 /\ sent'.n = WordSize)
    BY <1>4 DEF WriteResult
  <2>2. pc # "wait"
    BY <1>a, <2>1
  <2>3. QED
    BY <1>0, <1>a, <2>1, <2>2
<1>5. CASE ExitChild
  <2>1. /\ child = "exit" /\ child' = "gone" /\ UNCHANGED <<sent, did>>
        /\ status'.how = "exited" /\ status'.code = rc
    BY <1>5, StatusFields DEF ExitChild, Leave
  <2>2. QED
    BY <1>0, <1>a, <2>1
<1>6. CASE Fault
  <2>1. PICK f \in Faults :
          did' = [did EXCEPT ![current] =
                    [returned |-> @.returned, value |-> @.value, fault |-> f,
                     at |-> child]]
    BY <1>6 DEF Fault, FaultsOn
  <2>2. did'[current].fault = f
    BY <1>a, <2>1 DEF TypeOK
  <2>3. did'[current'].fault # "none"
    BY <1>0, <2>2 DEF Faults, CapabilityFaults
  <2>4. child' = "gone" /\ sent' = sent
    BY <1>6 DEF Fault, Leave
  <2>5. QED
    BY <1>0, <1>a, <2>3, <2>4
<1>7. QED
  BY <1>1, <1>2, <1>3, <1>4, <1>5, <1>6 DEF ChildStep

\* run_case_child passes on what a clean child sent.
LEMMA ReapIsFair ==
  ASSUME TypeOK, Located, InStep, StatusTruthful, StatusFair, Reap
  PROVE  NoFalseAlarm'
<1> SUFFICES ASSUME Expects(current)' = "EXPECT_RETURN", CleanRun(current)'
             PROVE  \/ case_passed(Cases[current], outcome)'
                    \/ outcome'.exit_status \in {5, 92}
  BY DEF NoFalseAlarm
<1>1. /\ pc = "wait" /\ outcome' = OutcomeOf(status, received)
      /\ UNCHANGED <<current, did>> /\ status.how # "alive"
  BY DEF Reap, childVars
<1>2. /\ did[current].returned = 1 /\ did[current].fault = "none"
      /\ did[current].value = Cases[current].expected
  BY <1>1 DEF CleanRun
<1>3. child = "gone" /\ received = sent
  BY <1>1 DEF InStep, StatusFair
<1>4. /\ status.how = "exited"
      /\ status.code = 5 \/ (status.code = 0 /\ sent.n = WordSize)
  BY <1>1, <1>2, <1>3 DEF StatusFair, Busy
<1>5. CASE status.code = 5
  <2>1. outcome' = Errored(5)
    BY <1>1, <1>4, <1>5 DEF OutcomeOf, WIFSIGNALED
  <2>2. QED
    BY <2>1 DEF Errored
<1>6. CASE status.code = 0 /\ sent.n = WordSize
  <2>1. outcome' = Returned(sent.value)
    BY <1>1, <1>3, <1>4, <1>6 DEF OutcomeOf, WIFSIGNALED
  <2>2. sent.value = Cases[current].expected
    BY <1>1, <1>2, <1>6 DEF StatusTruthful, Busy
  <2>3. /\ outcome'.returned = 1
        /\ outcome'.value = Cases[current].expected
    BY <2>1, <2>2 DEF Returned
  <2>4. Cases[current].expectation = "EXPECT_RETURN"
    BY <1>1 DEF Expects
  <2>5. QED
    BY <1>1, <2>3, <2>4 DEF case_passed
<1>7. QED
  BY <1>4, <1>5, <1>6

\* Every other step leaves nothing to judge, or an outcome that says why.
LEMMA AlarmKept ==
  ASSUME IInv, StatusFair, NoFalseAlarm, [Next]_vars
  PROVE  NoFalseAlarm'
<1>1. CASE OpenPipe
  <2>1. pc' = "judge" => did'[current'] = Nothing
    BY <1>1 DEF OpenPipe, IInv, HistoryInStep
  <2>2. QED
    BY <2>1 DEF NoFalseAlarm, CleanRun, Nothing
<1>2. CASE ForkFails
  <2>1. did'[current'] = Nothing
    BY <1>2 DEF ForkFails, childVars, IInv, HistoryInStep, Located, Busy
  <2>2. QED
    BY <2>1 DEF NoFalseAlarm, CleanRun, Nothing
<1>3. CASE Fork \/ CloseWriteEnd \/ ReadResult \/ Judge \/ Return
  BY <1>3 DEF Fork, CloseWriteEnd, ReadResult, Judge, Return, NoFalseAlarm
<1>4. CASE Reap
  BY <1>4, ReapIsFair DEF IInv
<1>5. CASE ReapFails
  BY <1>5 DEF ReapFails, Errored, NoFalseAlarm
<1>6. CASE ChildStep
  <2>1. UNCHANGED pc /\ child \notin {"none", "gone"}
    BY <1>6 DEF ChildStep, InstallTrapHandlers, CreateAndRegister, Load,
                Compile, Prepare, CallReturns, WriteResult, ExitChild, Fault,
                parentVars
  <2>2. pc' # "judge"
    BY <2>1 DEF IInv, InStep
  <2>3. QED
    BY <2>2 DEF NoFalseAlarm
<1>7. CASE UNCHANGED vars
  BY <1>7 DEF vars, parentVars, childVars, NoFalseAlarm, CleanRun, Expects,
              case_passed
<1>8. QED
  BY <1>1, <1>2, <1>3, <1>4, <1>5, <1>6, <1>7
     DEF Next, ParentStep, Finished

\* A control whose generated code returned the expected value in a child that
\* nothing else happened to is passed, unless its write or the wait failed.
THEOREM NothingFailedWrongly == Spec => []NoFalseAlarm
<1>1. Init => StatusFair /\ NoFalseAlarm
  BY DEF Init, StatusFair, NoFalseAlarm, Busy
<1>2. IInv /\ StatusFair /\ NoFalseAlarm /\ [Next]_vars
        => (StatusFair /\ NoFalseAlarm)'
  <2> SUFFICES ASSUME IInv, StatusFair, NoFalseAlarm, [Next]_vars
               PROVE  StatusFair' /\ NoFalseAlarm'
    OBVIOUS
  <2>1. CASE ParentStep
    BY <2>1, ParentFair, AlarmKept DEF IInv
  <2>2. CASE ChildStep
    BY <2>2, ChildFair, AlarmKept DEF IInv
  <2>3. CASE UNCHANGED vars
    BY <2>3, AlarmKept
       DEF vars, parentVars, childVars, pipeVars, StatusFair, Busy
  <2>4. QED
    BY <2>1, <2>2, <2>3 DEF Next, Finished
<1>3. QED
  BY <1>1, <1>2, Invariant, PTL DEF Spec

-----------------------------------------------------------------------------
(* The harness implements the promise of Evidence *)

\* Running means that main has not returned.
LEMMA ReportOfExit ==
  /\ exit = Running <=> report = "running"
  /\ exit = 0 <=> report = "ok"
BY DEF report, Running

\* A step that leaves the history, the verdicts and the exit alone is not seen
\* by Evidence.
LEMMA Unseen ==
  ASSUME did' = did, verdict' = verdict, exit' = exit
  PROVE  UNCHANGED E1!vars
BY DEF E1!vars, report

\* A step of the child adds to what happened to the current case.
LEMMA ChildHappens ==
  ASSUME IInv, TypeOK', ChildStep
  PROVE  E1!Happen(current) \/ UNCHANGED E1!vars
<1>1. UNCHANGED parentVars /\ child \notin {"none", "gone"}
  BY DEF ChildStep, InstallTrapHandlers, CreateAndRegister, Load,
         Compile, Prepare, CallReturns, WriteResult, ExitChild, Fault
<1>2. current \in Case /\ verdict[current] = "none" /\ exit = Running
  BY <1>1, ChildHasCase DEF IInv, HistoryInStep, InStep, TypeOK
<1>3. report = "running" /\ verdict' = verdict /\ exit' = exit
  BY <1>1, <1>2, ReportOfExit DEF parentVars
<1>4. report' = report
  BY <1>3 DEF report
<1>5. CASE did' = did
  BY <1>3, <1>5, Unseen
<1>6. CASE did' # did
  <2>1. \E h : did' = [did EXCEPT ![current] = h]
    BY <1>6 DEF ChildStep, InstallTrapHandlers, CreateAndRegister, Load,
         Compile, Prepare, CallReturns, WriteResult, ExitChild, Fault
  <2>2. PICK h : did' = [did EXCEPT ![current] = h]
    BY <2>1
  <2>3. h = did'[current] /\ did'[current] \in Happening
    BY <1>2, <2>2 DEF IInv, TypeOK
  <2>4. QED
    BY <1>2, <1>3, <1>4, <2>2, <2>3 DEF E1!Happen
<1>7. QED
  BY <1>5, <1>6

\* Judge gives a verdict that Evidence allows.
LEMMA JudgeJudges ==
  ASSUME IInv, Judge
  PROVE  E1!Judge(current)
<1>1. current \in Case /\ exit = Running
  BY DEF Judge, IInv, Located, InStep, Busy
<1>2. verdict[current] = "none" /\ did[current] \in Happening
  BY <1>1 DEF IInv, HistoryInStep, TypeOK
<1>3. did' = did /\ exit' = exit
  BY DEF Judge, childVars
<1>4. report = "running" /\ report' = report
  BY <1>1, <1>3, ReportOfExit DEF report
<1>5. PICK v \in {"pass", "fail"} :
        /\ verdict' = [verdict EXCEPT ![current] = v]
        /\ v = "pass" => case_passed(Cases[current], outcome)
  BY DEF Judge
<1>6. v = "pass" => Justifies(current, did[current])
  BY <1>5, PassIsJustified DEF Judge, IInv
<1>7. v = "pass" => did[current] \in
        [c \in Case |-> {h \in Happening : Justifies(c, h)}][current]
  BY <1>1, <1>2, <1>6
<1>8. QED
  BY <1>2, <1>3, <1>4, <1>5, <1>7 DEF E1!Judge

\* main's return value says what Evidence asks of it.
LEMMA ReturnConcludes ==
  ASSUME IInv, Return
  PROVE  E1!Conclude
<1>1. exit = Running /\ current \notin Case
  BY DEF Return, IInv, InStep
<1>2. \A c \in Case : c < current
  BY <1>1, HarnessAssumption DEF IInv, TypeOK, Case
<1>3. \A c \in Case : verdict[c] # "none"
  BY <1>2 DEF IInv, HistoryInStep
<1>4. failures = 0 <=> \A c \in Case : verdict[c] = "pass"
  BY <1>2 DEF IInv, HistoryInStep
<1>5. exit' = IF failures # 0 THEN 1 ELSE 0
  BY DEF Return
<1>6. report = "running"
  BY <1>1, ReportOfExit
<1>7. report' = IF \A c \in Case : verdict[c] = "pass" THEN "ok" ELSE "failed"
  BY <1>4, <1>5 DEF report, Running
<1>8. did' = did /\ verdict' = verdict
  BY DEF Return, childVars
<1>9. QED
  BY <1>3, <1>6, <1>7, <1>8 DEF E1!Conclude

\* Every run of the suite is a run of Evidence: what it prints and returns is
\* always backed by what happened to its cases.
THEOREM Refinement == Spec => KeepsPromise
<1>1. Init => E1!Init
  BY DEF Init, E1!Init, report
<1>2. IInv /\ IInv' /\ [Next]_vars => [E1!Next]_(E1!vars)
  <2> SUFFICES ASSUME IInv, IInv', [Next]_vars
               PROVE  E1!Next \/ UNCHANGED E1!vars
    OBVIOUS
  <2>1. CASE Judge
    <3>1. current \in Case
      BY <2>1 DEF Judge, IInv, Located, Busy
    <3>2. QED
      BY <2>1, <3>1, JudgeJudges DEF E1!Next
  <2>2. CASE Return
    BY <2>2, ReturnConcludes DEF E1!Next
  <2>3. CASE ParentStep /\ ~Judge /\ ~Return
    <3>1. did' = did /\ verdict' = verdict /\ exit' = exit
      BY <2>3 DEF ParentStep, OpenPipe, Fork, ForkFails, CloseWriteEnd,
                  ReadResult, Reap, ReapFails, childVars
    <3>2. QED
      BY <3>1, Unseen
  <2>4. CASE ChildStep
    <3>1. current \in Case
      <4>1. child \notin {"none", "gone"}
        BY <2>4 DEF ChildStep, InstallTrapHandlers, CreateAndRegister, Load,
             Compile, Prepare, CallReturns, WriteResult, ExitChild, Fault
      <4>2. QED
        BY <4>1, ChildHasCase DEF IInv
    <3>2. QED
      BY <2>4, <3>1, ChildHappens DEF E1!Next, IInv
  <2>5. CASE UNCHANGED vars
    <3>1. did' = did /\ verdict' = verdict /\ exit' = exit
      BY <2>5 DEF vars, parentVars, childVars
    <3>2. QED
      BY <3>1, Unseen
  <2>6. QED
    BY <2>1, <2>2, <2>3, <2>4, <2>5 DEF Next, Finished
<1>3. QED
  BY <1>1, <1>2, Invariant, PTL DEF Spec, KeepsPromise, E1!Spec
-----------------------------------------------------------------------------
(* A run has an end, and it is the end of main *)

\* A step of run_case_child or main takes the parent on.
LEMMA ParentAdvances ==
  ASSUME IInv, ParentStep
  PROVE  current' > current \/ (current' = current /\ ParentPlace' > ParentPlace)
<1>1. current \in Nat /\ Len(Cases) \in Nat
  BY HarnessAssumption DEF IInv, TypeOK
<1>2. CASE Judge
  BY <1>1, <1>2 DEF Judge
<1>3. CASE OpenPipe \/ Fork \/ ForkFails \/ CloseWriteEnd
  BY <1>3 DEF OpenPipe, Fork, ForkFails, CloseWriteEnd, ParentPlace
<1>4. CASE ReadResult \/ Reap \/ ReapFails \/ Return
  BY <1>4 DEF ReadResult, Reap, ReapFails, Return, ParentPlace
<1>5. QED
  BY <1>2, <1>3, <1>4 DEF ParentStep

\* A step of the child, or its fault, takes the child on.
LEMMA ChildAdvances ==
  ASSUME TypeOK, ChildStep
  PROVE  UNCHANGED parentVars /\ ChildPlace' > ChildPlace
<1>1. CASE InstallTrapHandlers
  BY <1>1 DEF InstallTrapHandlers, Leave, ChildPlace
<1>2. CASE CreateAndRegister \/ Load \/ Compile
  BY <1>2 DEF CreateAndRegister, Load, Compile, Prepare, ChildPlace
<1>3. CASE CallReturns \/ WriteResult
  BY <1>3 DEF CallReturns, WriteResult, ChildPlace
<1>4. CASE ExitChild
  BY <1>4 DEF ExitChild, Leave, ChildPlace
<1>5. CASE Fault
  <2>1. UNCHANGED parentVars /\ child \notin {"none", "gone"} /\ child' = "gone"
    BY <1>5 DEF Fault, Leave
  <2>2. QED
    BY <2>1 DEF ChildPlace, TypeOK, Phase
<1>6. QED
  BY <1>1, <1>2, <1>3, <1>4, <1>5 DEF ChildStep

\* No step of the suite, failing calls and faults included, goes back.
THEOREM NothingIsDoneTwice == Spec => Advances
<1> DEFINE Further ==
      \/ current' > current
      \/ current' = current /\ ParentPlace' > ParentPlace
      \/ /\ current' = current /\ ParentPlace' = ParentPlace
         /\ ChildPlace' > ChildPlace
<1>1. IInv /\ [Next]_vars => [Further]_vars
  <2> SUFFICES ASSUME IInv, Next, vars' # vars PROVE Further
    OBVIOUS
  <2>1. CASE ParentStep
    BY <2>1, ParentAdvances
  <2>2. CASE ChildStep
    BY <2>2, ChildAdvances DEF parentVars, ParentPlace, IInv
  <2>3. QED
    BY <2>1, <2>2 DEF Next, Finished
<1>2. QED
  BY <1>1, Invariant, PTL DEF Spec, Advances

\* The child that is read from has its write end as long as it lives, and nobody
\* else has one: the pipe is never waited on in vain.
THEOREM NobodyIsStuck == Spec => []NeverStuck
<1>1. IInv => NeverStuck
  <2> SUFFICES ASSUME IInv, child \in {"none", "gone"}
               PROVE  /\ pc = "read" => sent.n = WordSize \/ open \cap WriteEnds = {}
                      /\ pc = "wait" => status.how # "alive"
    BY DEF NeverStuck
  <2>1. CASE pc \in {"read", "wait"}
    <3>1. child = "gone" /\ status.how # "alive"
      BY <2>1 DEF IInv, InStep
    <3>2. pc = "read" => open \ ChildEnds = {"parentRead"} /\ open \cap ChildEnds = {}
      BY <3>1 DEF IInv, EndsInStep
    <3>3. QED
      BY <3>1, <3>2 DEF ChildEnds, WriteEnds
  <2>2. QED
    BY <2>1
<1>2. QED
  BY <1>1, Invariant, PTL
=============================================================================
