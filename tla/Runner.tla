------------------------------- MODULE Runner -------------------------------
(***************************************************************************)
(* The command runner (backend/app/runner/agent.py): one call of           *)
(* execute_argv, the child process it starts, the cancel token that        *)
(* another thread may set, and the sink that receives its events.          *)
(*                                                                         *)
(* Time is counted in ticks and passes only while the runner waits for the *)
(* child; between two waits it calls nothing that blocks.  The child is    *)
(* the environment: it may end at any time or never, ignore SIGTERM, hang  *)
(* in the kernel, and leave behind a process that keeps its output open.   *)
(* The sink (terminal_run adds an ops event) may raise.                    *)
(***************************************************************************)
EXTENDS Naturals, Sequences

CONSTANTS
  Timeout,     \* the caller's timeout
  MinTimeout,  \* one second: max(timeout, 1)
  Slice,       \* 0.1 s: how long communicate() waits at a time
  Grace,       \* 0.5 s between SIGTERM and SIGKILL
  KillWait,    \* 1 s of waiting after SIGKILL
  MaxLines     \* bound on the lines the command prints

ASSUME TimesAssumption ==
  /\ Timeout \in Nat /\ MinTimeout \in Nat \ {0} /\ Slice \in Nat \ {0}
  /\ Grace \in Nat \ {0} /\ KillWait \in Nat \ {0} /\ MaxLines \in Nat

VARIABLES
  pc,      \* where execute_argv is
  child,   \* "exited" is a process that nobody has waited for yet
  nature,  \* what the child does with signals
  helper,  \* a process started by the child holds its output open
  code,    \* the child's exit status: "zero", "other", or "none" yet
  signal,  \* the strongest signal sent to the child
  cancel,  \* CancelToken.requested
  since,   \* ticks since the token was set
  clock,   \* ticks since the deadline was computed
  waited,  \* ticks spent in the present wait
  ending,  \* why the child is being terminated
  told,  \* what the sink has received
  result   \* what the call returned, or "raised"

runnerVars == <<pc, child, nature, helper, code, signal, cancel, since, clock,
          waited, ending, told, result>>

Deadline == IF Timeout > MinTimeout THEN Timeout ELSE MinTimeout
Least(a, b) == IF a < b THEN a ELSE b

Natures == {"plain", "ignores_term", "unkillable"}
Finished == {"success", "no_data", "error"}
Results == {"rejected", "missing", "unstartable", "cancelled", "timeout",
            "raised"} \cup Finished
Waiting == {"communicate", "term_wait", "kill_wait"}
Places == {"normalize", "check", "which", "emit_started", "popen", "loop_token",
        "loop_clock", "terminate", "emit_ending", "report", "emit_finished",
        "done"} \cup Waiting

RunnerInit ==
  /\ pc = "normalize" /\ child = "none" /\ nature \in Natures
  /\ helper = FALSE /\ code = "none" /\ signal = "none"
  /\ cancel = FALSE /\ since = 0 /\ clock = 0 /\ waited = 0
  /\ ending = "none" /\ told = <<>> /\ result = "none"

EndCall(value) == pc' = "done" /\ result' = value
process == <<child, nature, helper, code, signal>>
time == <<since, clock, waited>>

\* on_event(...) and, if the sink raises, the exception that leaves the call.
Emit(event, next) ==
  \/ told' = Append(told, event) /\ pc' = next /\ UNCHANGED result
  \/ UNCHANGED told /\ EndCall("raised")

-----------------------------------------------------------------------------
(***************************************************************************)
(* Before the child exists.                                                *)
(***************************************************************************)
Normalize ==
  /\ pc = "normalize"
  /\ \/ EndCall("rejected")
     \/ pc' = "check" /\ UNCHANGED result
  /\ UNCHANGED <<process, time, cancel, ending, told>>

CheckBeforeStart ==
  /\ pc = "check"
  /\ \/ cancel /\ EndCall("cancelled")
     \/ ~cancel /\ pc' = "which" /\ UNCHANGED result
  /\ UNCHANGED <<process, time, cancel, ending, told>>

FindExecutable ==
  /\ pc = "which"
  /\ \/ EndCall("missing")
     \/ pc' = "emit_started" /\ UNCHANGED result
  /\ UNCHANGED <<process, time, cancel, ending, told>>

EmitStarted ==
  /\ pc = "emit_started"
  /\ Emit("started", "popen")
  /\ UNCHANGED <<process, time, cancel, ending>>

\* Popen and the deadline, which is computed after it.
StartChild ==
  /\ pc = "popen"
  /\ \/ EndCall("unstartable") /\ UNCHANGED child
     \/ child' = "running" /\ pc' = "loop_token" /\ UNCHANGED result
  /\ UNCHANGED <<nature, helper, code, signal, time, cancel, ending, told>>

-----------------------------------------------------------------------------
(***************************************************************************)
(* The polling loop.                                                       *)
(***************************************************************************)
CheckToken ==
  /\ pc = "loop_token"
  /\ \/ cancel /\ pc' = "terminate" /\ ending' = "cancelled"
     \/ ~cancel /\ pc' = "loop_clock" /\ UNCHANGED ending
  /\ UNCHANGED <<process, time, cancel, told, result>>

\* Mutant: the deadline is not checked, as if communicate() enforced it.
NeverCheckClock ==
  /\ pc = "loop_clock"
  /\ pc' = "communicate" /\ UNCHANGED ending
  /\ waited' = 0
  /\ UNCHANGED <<process, since, clock, cancel, told, result>>

CheckClock ==
  /\ pc = "loop_clock"
  /\ \/ clock >= Deadline /\ pc' = "terminate" /\ ending' = "timeout"
     \/ clock < Deadline /\ pc' = "communicate" /\ UNCHANGED ending
  /\ waited' = 0
  /\ UNCHANGED <<process, since, clock, cancel, told, result>>

\* Mutant: communicate(timeout=0.1), whatever remains.
WholeSlice == Slice

\* min(0.1, remaining), where remaining was computed before the wait
ThisSlice == Least(Slice, Deadline - (clock - waited))

\* communicate() returns when the output has ended and the child was waited for.
OutputEnded == child # "running" /\ ~helper

Communicated ==
  /\ pc = "communicate"
  /\ OutputEnded
  /\ child' = "reaped"
  /\ \/ pc' = "report" /\ UNCHANGED result
     \/ EndCall("raised")  \* the output is not valid text
  /\ UNCHANGED <<nature, helper, code, signal, time, cancel, ending, told>>

\* TimeoutExpired, also when the child ends at that very moment.
SliceOver ==
  /\ pc = "communicate"
  /\ waited >= ThisSlice
  /\ pc' = "loop_token"
  /\ UNCHANGED <<process, time, cancel, ending, told, result>>

-----------------------------------------------------------------------------
(***************************************************************************)
(* _terminate, and what follows it.                                        *)
(***************************************************************************)
\* A child that has ended is not signalled: send_signal polls it first.
Terminate ==
  /\ pc = "terminate"
  /\ signal' = IF child = "running" THEN "term" ELSE signal
  /\ waited' = 0 /\ pc' = "term_wait"
  /\ UNCHANGED <<child, nature, helper, code, since, clock, cancel, ending,
                 told, result>>

Reap ==
  /\ pc \in {"term_wait", "kill_wait"}
  /\ child = "exited"
  /\ child' = "reaped" /\ pc' = "emit_ending"
  /\ UNCHANGED <<nature, helper, code, signal, time, cancel, ending, told,
                 result>>

\* Mutant: the grace period is the end of it.
GiveUp ==
  /\ pc = "term_wait"
  /\ waited >= Grace /\ child = "running"
  /\ waited' = 0 /\ pc' = "emit_ending"
  /\ UNCHANGED <<process, since, clock, cancel, ending, told, result>>

Kill ==
  /\ pc = "term_wait"
  /\ waited >= Grace /\ child = "running"
  /\ signal' = "kill" /\ waited' = 0 /\ pc' = "kill_wait"
  /\ UNCHANGED <<child, nature, helper, code, since, clock, cancel, ending,
                 told, result>>

\* The second wait expires: the exception leaves the call.
KillFails ==
  /\ pc = "kill_wait"
  /\ waited >= KillWait /\ child = "running"
  /\ EndCall("raised")
  /\ UNCHANGED <<process, time, cancel, ending, told>>

\* Mutant: both branches of the loop report a timeout to the sink.
EmitTimeout ==
  /\ pc = "emit_ending"
  /\ \/ told' = Append(told, "timeout") /\ EndCall(ending)
     \/ UNCHANGED told /\ EndCall("raised")
  /\ UNCHANGED <<process, time, cancel, ending>>

EmitEnding ==
  /\ pc = "emit_ending"
  /\ \/ told' = Append(told, ending) /\ EndCall(ending)
     \/ UNCHANGED told /\ EndCall("raised")
  /\ UNCHANGED <<process, time, cancel, ending>>

-----------------------------------------------------------------------------
(***************************************************************************)
(* The end of a command that ran to its end: its lines, then the result.   *)
(***************************************************************************)
Lines == Len(SelectSeq(told, LAMBDA e : e = "line"))

EmitLine ==
  /\ pc = "report"
  /\ Lines < MaxLines
  /\ Emit("line", "report")
  /\ UNCHANGED <<process, time, cancel, ending>>

EmitFinished ==
  /\ pc = "report"
  /\ Emit("finished", "emit_finished")
  /\ UNCHANGED <<process, time, cancel, ending>>

\* Lines may all be blank; is there any text in them?
StatusOfCommand(text) ==
  IF code # "zero" THEN "error" ELSE IF ~text THEN "no_data" ELSE "success"

ReturnResult ==
  /\ pc = "emit_finished"
  /\ \E text \in BOOLEAN :
       /\ text => Lines > 0
       /\ EndCall(StatusOfCommand(text))
  /\ UNCHANGED <<process, time, cancel, ending, told>>

Run ==
  \/ Normalize \/ CheckBeforeStart \/ FindExecutable \/ EmitStarted \/ StartChild
  \/ CheckToken \/ CheckClock \/ Communicated \/ SliceOver
  \/ Terminate \/ Reap \/ Kill \/ KillFails \/ EmitEnding
  \/ EmitLine \/ EmitFinished \/ ReturnResult

-----------------------------------------------------------------------------
(***************************************************************************)
(* The environment.                                                        *)
(***************************************************************************)
\* token.cancel(), from another thread
Cancel ==
  /\ ~cancel /\ pc # "done"
  /\ cancel' = TRUE
  /\ UNCHANGED <<pc, process, time, ending, told, result>>

\* A signal ends a child with a status that is not zero, unless the child
\* catches SIGTERM and exits on its own terms.
ChildEnds ==
  /\ child = "running"
  /\ nature = "unkillable" => signal # "kill"
  /\ code' \in IF signal = "kill" THEN {"other"} ELSE {"zero", "other"}
  /\ child' = "exited"
  /\ UNCHANGED <<pc, nature, helper, signal, cancel, time, ending, told,
                 result>>

ChildForks ==
  /\ child = "running" /\ ~helper
  /\ helper' = TRUE
  /\ UNCHANGED <<pc, child, nature, code, signal, cancel, time, ending,
                 told, result>>

HelperEnds ==
  /\ helper
  /\ helper' = FALSE
  /\ UNCHANGED <<pc, child, nature, code, signal, cancel, time, ending,
                 told, result>>

\* A signal that must end the child has done so before time passes.
Dying ==
  /\ child = "running"
  /\ \/ signal = "kill" /\ nature # "unkillable"
     \/ signal = "term" /\ nature = "plain" /\ waited >= 1

\* Time passes while the runner waits for something that has not happened.
Tick ==
  /\ \/ pc = "communicate" /\ waited < ThisSlice /\ ~OutputEnded
     \/ pc = "term_wait" /\ waited < Grace /\ child = "running"
     \/ pc = "kill_wait" /\ waited < KillWait /\ child = "running"
  /\ ~Dying
  /\ clock' = clock + 1 /\ waited' = waited + 1
  /\ since' = IF cancel THEN since + 1 ELSE since
  /\ UNCHANGED <<pc, process, cancel, ending, told, result>>

RunnerNext == Run \/ Cancel \/ ChildEnds \/ ChildForks \/ HelperEnds \/ Tick

RunnerSpec == RunnerInit /\ [][RunnerNext]_runnerVars

\* The thread runs, time passes, and a signal that a process cannot escape
\* works.  The child owes nothing: it need not end, nor does its helper.
Fairness ==
  /\ WF_runnerVars(Run) /\ WF_runnerVars(Tick)
  /\ WF_runnerVars(Dying /\ ChildEnds)
RunnerLiveSpec == RunnerSpec /\ Fairness

-----------------------------------------------------------------------------
(***************************************************************************)
(* Properties.                                                             *)
(***************************************************************************)
RunnerTypeOK ==
  /\ pc \in Places /\ child \in {"none", "running", "exited", "reaped"}
  /\ nature \in Natures /\ helper \in BOOLEAN
  /\ code \in {"none", "zero", "other"} /\ signal \in {"none", "term", "kill"}
  /\ cancel \in BOOLEAN /\ since \in Nat /\ clock \in Nat /\ waited \in Nat
  /\ ending \in {"none", "cancelled", "timeout"}
  /\ told \in Seq({"started", "line", "finished", "cancelled", "timeout"})
  /\ result \in Results \cup {"none"}

\* However the call ends, also by an exception of the sink, its child is gone
\* and was waited for; only a process that SIGKILL does not end survives.
NoChildLeft ==
  pc = "done" /\ child \in {"running", "exited"} =>
    nature = "unkillable" /\ signal = "kill" /\ result = "raised"

\* What the sink was told agrees with what the caller is told: one beginning,
\* at most one end, the end last and of the kind returned, and nothing of a
\* command that was not started.
EventsTellTheResult ==
  LET last == told[Len(told)] IN
  /\ \A i \in 1..Len(told) : i > 1 <=> told[i] # "started"
  /\ \A i \in 1..Len(told) :
       told[i] \in {"cancelled", "timeout", "finished"} => i = Len(told)
  /\ result \in {"rejected", "missing"} => told = <<>>
  /\ result = "unstartable" => told = <<"started">>
  /\ result = "timeout" => last = "timeout"
  /\ result = "cancelled" => told = <<>> \/ last = "cancelled"
  /\ result \in Finished => last = "finished"

\* The call outlives its deadline by the time to end the child and no more,
\* and never starts another slice of waiting after it.  A cancel is noticed
\* within a slice, whatever is left of the timeout.
ReturnsInTime ==
  /\ clock <= Deadline + Grace + KillWait
  /\ pc \in {"loop_token", "loop_clock", "communicate"} => clock <= Deadline
  /\ since <= Slice + Grace + KillWait

\* A success is a child that ended by itself with status zero; a cancellation
\* was asked for; a timeout is not reported early.
ResultIsTrue ==
  /\ result \in {"success", "no_data"} => code = "zero" /\ signal = "none"
  /\ result \in Finished => child = "reaped" /\ ~helper
  /\ result = "cancelled" => cancel
  /\ result = "timeout" => clock >= Deadline

\* What the caller is told is true of the child, the token and the clock, and it
\* is what the sink was told before.
ResultIsTold == ResultIsTrue /\ EventsTellTheResult

\* SIGKILL is only for a child that had the whole grace period.
KillComesLast ==
  [][signal' = "kill" /\ signal # "kill" =>
       signal = "term" /\ waited >= Grace /\ child = "running"]_runnerVars

\* The call ends, even if the child does not.
CallEnds == <>(pc = "done")

-----------------------------------------------------------------------------
(***************************************************************************)
(* The inductive invariants behind the safety properties.                  *)
(***************************************************************************)
Before == {"normalize", "check", "which", "emit_started", "popen"}
Looping == {"loop_token", "loop_clock", "communicate"}
Ending == {"terminate", "term_wait", "kill_wait", "emit_ending"}
Reporting == {"report", "emit_finished"}

\* What is known of the child at each place; in the grace period a running
\* child has got SIGTERM, and nobody signals one that has ended.
ChildInv ==
  /\ pc \in Before => child = "none" /\ ~helper /\ signal = "none"
  /\ pc \in Looping \cup {"terminate", "term_wait", "kill_wait"} =>
       child \in {"running", "exited"}
  /\ pc \in Looping \cup {"terminate"} => signal = "none"
  /\ pc = "term_wait" /\ child = "running" => signal = "term"
  /\ pc = "term_wait" => signal \in {"none", "term"}
  /\ pc = "kill_wait" => signal = "kill"
  /\ pc \in Reporting \cup {"emit_ending"} => child = "reaped"
  /\ pc \in Reporting => ~helper /\ signal = "none"

\* How long each wait may have lasted, and since when a cancel was overlooked.
\* SIGKILL ends a child at once or never.
TimeInv ==
  /\ pc \in Before => clock = 0 /\ since = 0
  /\ pc \in Looping => clock <= Deadline
  /\ pc \in {"loop_token", "terminate"} => since <= Slice
  /\ pc = "loop_clock" => since = 0
  /\ pc = "communicate" =>
       /\ since <= waited /\ waited <= clock
       /\ clock - waited < Deadline
       /\ waited <= ThisSlice
  /\ pc = "terminate" => clock <= Deadline
  /\ pc = "term_wait" =>
       /\ waited <= Grace /\ clock <= Deadline + waited
       /\ since <= Slice + waited
  /\ pc = "kill_wait" =>
       /\ waited <= KillWait /\ clock <= Deadline + Grace + waited
       /\ since <= Slice + Grace + waited
       /\ child = "running" /\ waited > 0 => nature = "unkillable"
  /\ ~cancel => since = 0

\* Why the child is being ended, carried to the result.
EndingInv ==
  /\ pc \in Ending => ending # "none"
  /\ ending = "cancelled" => cancel
  /\ ending = "timeout" => clock >= Deadline
  /\ pc # "done" => result = "none"

RunnerInv ==
  /\ ChildInv /\ TimeInv /\ EndingInv
  /\ NoChildLeft /\ ReturnsInTime /\ ResultIsTrue

\* What the sink has been told at each place.
OneBeginning == \A i \in 1..Len(told) : i > 1 <=> told[i] # "started"
NoEnd(i) == told[i] \in {"started", "line"}

EventInv ==
  /\ pc \in Before \ {"popen"} => told = <<>>
  /\ pc \in {"popen"} \cup Looping \cup Ending => told = <<"started">>
  /\ pc = "report" =>
       told # <<>> /\ OneBeginning /\ \A i \in 1..Len(told) : NoEnd(i)
  /\ pc = "emit_finished" =>
       /\ told # <<>> /\ told[Len(told)] = "finished"
       /\ OneBeginning /\ \A i \in 1..(Len(told) - 1) : NoEnd(i)
  /\ EventsTellTheResult
=============================================================================
