------------------------------ MODULE Evidence ------------------------------
(***************************************************************************)
(* What a test suite promises.  Every case is run at most once, what       *)
(* happened to it is its evidence, and the suite may print "pass" for a    *)
(* case only when the evidence is of a kind the case accepts.  The suite   *)
(* reports success only when every case passed.  How the evidence is       *)
(* produced (a child process, a pipe, a wait status) is not part of the    *)
(* promise; the harness modules show that they keep it.                    *)
(***************************************************************************)
EXTENDS Integers

CONSTANTS
  Case,       \* the cases of the suite
  Happening,  \* everything that can happen to a case
  Nothing,    \* the happening of a case nothing has happened to yet
  Supports    \* Supports[c]: the happenings that justify a pass of case c

VARIABLES
  happened,   \* what really happened to each case
  verdict,    \* the suite's word about each case
  report      \* the suite's exit: "running", "ok" or "failed"

vars == <<happened, verdict, report>>

Init ==
  /\ happened = [c \in Case |-> Nothing]
  /\ verdict = [c \in Case |-> "none"]
  /\ report = "running"

\* More happens to a case the suite has not judged.
Happen(c) ==
  /\ report = "running"
  /\ verdict[c] = "none"
  /\ \E h \in Happening : happened' = [happened EXCEPT ![c] = h]
  /\ UNCHANGED <<verdict, report>>

\* The suite judges a case, and what happened to it is final.
Judge(c) ==
  /\ report = "running"
  /\ verdict[c] = "none"
  /\ \E v \in {"pass", "fail"} :
       /\ v = "pass" => happened[c] \in Supports[c]
       /\ verdict' = [verdict EXCEPT ![c] = v]
  /\ UNCHANGED <<happened, report>>

\* The suite ends, with success only when every case passed.
Conclude ==
  /\ report = "running"
  /\ \A c \in Case : verdict[c] # "none"
  /\ report' = IF \A c \in Case : verdict[c] = "pass" THEN "ok" ELSE "failed"
  /\ UNCHANGED <<happened, verdict>>

\* A suite that cannot be set up ends before it runs a case, and says so.
GiveUp ==
  /\ report = "running"
  /\ \A c \in Case : happened[c] = Nothing /\ verdict[c] = "none"
  /\ report' = "failed"
  /\ UNCHANGED <<happened, verdict>>

Next == (\E c \in Case : Happen(c) \/ Judge(c)) \/ Conclude \/ GiveUp

Spec == Init /\ [][Next]_vars

\* A suite that reports success has evidence for every one of its cases.
Sound == report = "ok" => \A c \in Case : happened[c] \in Supports[c]
=============================================================================
