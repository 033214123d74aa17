------------------------------ MODULE Diagnosis ------------------------------
(***************************************************************************)
(* One diagnosis request: run_llm_diagnosis with the retries of the        *)
(* provider client, or run_mock_diagnosis, one action per call that can    *)
(* fail or change something.  Sessions share no row, so one is modelled.   *)
(*                                                                         *)
(* A tool call of the model is a read, a mutating call (approval required, *)
(* or a risk above read), or names no tool.  The provider may answer       *)
(* anything.  A call that raises changes nothing, and the process may be   *)
(* killed between two calls.  The LLM flow catches what is raised after    *)
(* the plan; the mock catches nothing.                                     *)
(***************************************************************************)
EXTENDS Naturals, Sequences

CONSTANTS
  MaxTurns,   \* AIOPS_AGENT_MAX_TURNS
  Retries,    \* AIOPS_LLM_RETRIES
  MaxCalls,   \* bound on the tool calls of one message
  MockCalls   \* the mock's tools, five in the code

ASSUME ConstantsAssumption ==
  MaxTurns \in Nat /\ Retries \in Nat /\ MaxCalls \in Nat /\ MockCalls \in Nat

VARIABLES
  flow,       \* which orchestrator the handler calls
  pc,         \* the next call
  row,        \* status of the row of diagnosis_sessions
  log,        \* diagnosis_events: [n |-> sequence, type |-> event type]
  sequence,   \* the local of that name
  turn,       \* messages asked for with the tools
  attempt,    \* the attempts made of this completion before this one
  posts,      \* requests sent to the provider
  calls,      \* calls of this message not yet served
  invoked,    \* tools that were run
  refs,       \* evidence_refs: their number, which is also that of tool_results
  audits,     \* audit records of the tools
  approvals,  \* approvals created
  announced,  \* approvals the log tells of
  reports,    \* reports: [evidence |-> number of refs, of |-> answer or failure]
  outcome     \* how the handler left, and with which status

vars == <<flow, pc, row, log, sequence, turn, attempt, posts, calls, invoked,
          refs, audits, approvals, announced, reports, outcome>>

CallKinds == {"read", "mutating", "unknown"}
EventTypes == {"plan", "call_read", "call_mutating", "tool_result",
               "approval_required", "error", "final_answer"}
Untried == {"create", "provider", "plan", "settings"}
Tried == {"turn", "post", "reply", "post_final", "reply_final", "calls",
          "approval", "announce", "invoke", "store", "audit", "result",
          "docker", "report", "answer", "finish"}
Handling == {"e_report", "e_event", "e_answer", "e_finish"}
Returning == {"return", "e_return"}
PCs == Untried \cup Tried \cup Handling \cup Returning \cup {"done"}

Init ==
  /\ flow \in {"llm", "mock"} /\ pc = "create" /\ row = "none"
  /\ log = <<>> /\ sequence = 1 /\ turn = 0 /\ attempt = 0 /\ posts = 0
  /\ calls = <<>> /\ invoked = 0 /\ refs = 0 /\ audits = 0
  /\ approvals = 0 /\ announced = 0 /\ reports = <<>> /\ outcome = "none"

loop == <<turn, attempt, posts>>
evidence == <<invoked, refs, audits>>
permits == <<approvals, announced>>

Goto(next) == pc' = next /\ UNCHANGED outcome
Leave(how) == pc' = "done" /\ outcome' = how

\* Where an exception goes.
Raise ==
  IF flow = "llm" /\ pc \in Tried THEN Goto("e_report") ELSE Leave("raised")

\* add_event with the local sequence, which is incremented afterwards
AddEvent(type) ==
  /\ log' = Append(log, [n |-> sequence, type |-> type])
  /\ sequence' = sequence + 1

-----------------------------------------------------------------------------
(***************************************************************************)
(* Outside the try block.                                                  *)
(***************************************************************************)
CreateDiagnosis ==
  /\ pc = "create"
  /\ row' = "running"
  /\ Goto(IF flow = "llm" THEN "provider" ELSE "plan")
  /\ UNCHANGED <<flow, log, sequence, loop, calls, evidence, permits, reports>>

MakeProvider ==
  /\ pc = "provider"
  /\ Goto("plan")
  /\ UNCHANGED <<flow, row, log, sequence, loop, calls, evidence, permits,
                 reports>>

\* The mock then serves its fixed list of read tools.
AddPlan ==
  /\ pc = "plan"
  /\ AddEvent("plan")
  /\ \/ flow = "llm" /\ Goto("settings") /\ UNCHANGED calls
     \/ flow = "mock" /\ Goto("calls") /\ calls' = [i \in 1..MockCalls |-> "read"]
  /\ UNCHANGED <<flow, row, loop, evidence, permits, reports>>

\* The offered tools and the number of turns, which may not be a number.
ReadSettings ==
  /\ pc = "settings"
  /\ Goto("turn")
  /\ UNCHANGED <<flow, row, log, sequence, loop, calls, evidence, permits,
                 reports>>

-----------------------------------------------------------------------------
(***************************************************************************)
(* The conversation with the provider.                                     *)
(***************************************************************************)
\* Mutant: nothing follows the last turn.
StartTurnOnly ==
  /\ pc = "turn"
  /\ turn < MaxTurns /\ turn' = turn + 1 /\ Goto("post")
  /\ attempt' = 0
  /\ UNCHANGED <<flow, row, log, sequence, posts, calls, evidence, permits,
                 reports>>

StartTurn ==
  /\ pc = "turn"
  /\ \/ turn < MaxTurns /\ turn' = turn + 1 /\ Goto("post")
     \/ turn >= MaxTurns /\ Raise /\ UNCHANGED turn
  /\ attempt' = 0
  /\ UNCHANGED <<flow, row, log, sequence, posts, calls, evidence, permits,
                 reports>>

\* Mutant: one retry more than the setting.
PostOnceMore ==
  /\ pc \in {"post", "post_final"}
  /\ posts' = posts + 1
  /\ \/ Goto(IF pc = "post" THEN "reply" ELSE "reply_final") /\ UNCHANGED attempt
     \/ Raise /\ UNCHANGED attempt
     \/ attempt <= Retries /\ attempt' = attempt + 1 /\ Goto(pc)
  /\ UNCHANGED <<flow, row, log, sequence, turn, calls, evidence, permits,
                 reports>>

\* One attempt of chat_completion: an answer; a refusal (4xx), an answer that
\* is not JSON, or the last failure, which raise; a failure (5xx, timeout) that
\* is tried again.
Post ==
  /\ pc \in {"post", "post_final"}
  /\ posts' = posts + 1
  /\ \/ Goto(IF pc = "post" THEN "reply" ELSE "reply_final") /\ UNCHANGED attempt
     \/ Raise /\ UNCHANGED attempt
     \/ attempt < Retries /\ attempt' = attempt + 1 /\ Goto(pc)
  /\ UNCHANGED <<flow, row, log, sequence, turn, calls, evidence, permits,
                 reports>>

\* Tool calls, or a conclusion that is the JSON object asked for, or one that
\* is not and is asked for again.
ReadReply ==
  /\ pc = "reply"
  /\ \/ /\ \E n \in 1..MaxCalls : calls' \in [1..n -> CallKinds]
        /\ Goto("calls") /\ UNCHANGED attempt
     \/ Goto("report") /\ UNCHANGED <<calls, attempt>>
     \/ Goto("post_final") /\ attempt' = 0 /\ UNCHANGED calls
  /\ UNCHANGED <<flow, row, log, sequence, turn, posts, evidence, permits,
                 reports>>

\* Whatever it says: what is not JSON becomes the summary.
ReadFinalReply ==
  /\ pc = "reply_final"
  /\ Goto("report")
  /\ UNCHANGED <<flow, row, log, sequence, loop, calls, evidence, permits,
                 reports>>

-----------------------------------------------------------------------------
(***************************************************************************)
(* The tool calls of one message.                                          *)
(***************************************************************************)
CallsServed ==
  /\ pc = "calls" /\ calls = <<>>
  /\ Goto(IF flow = "llm" THEN "turn" ELSE "docker")
  /\ UNCHANGED <<flow, row, log, sequence, loop, calls, evidence, permits,
                 reports>>

\* get_tool raises for a name it does not know, before the event.
UnknownTool ==
  /\ pc = "calls" /\ calls # <<>>
  /\ Head(calls) = "unknown"
  /\ Raise
  /\ UNCHANGED <<flow, row, log, sequence, loop, calls, evidence, permits,
                 reports>>

CallTool ==
  /\ pc = "calls" /\ calls # <<>>
  /\ \/ Head(calls) = "read" /\ AddEvent("call_read") /\ Goto("invoke")
     \/ Head(calls) = "mutating" /\ AddEvent("call_mutating") /\ Goto("approval")
  /\ UNCHANGED <<flow, row, loop, calls, evidence, permits, reports>>

\* The mock asks to restart a container, if the question names one.
AskForDocker ==
  /\ pc = "docker"
  /\ \E next \in {"approval", "report"} : Goto(next)
  /\ UNCHANGED <<flow, row, log, sequence, loop, calls, evidence, permits,
                 reports>>

CreateApproval ==
  /\ pc = "approval"
  /\ approvals' = approvals + 1 /\ Goto("announce")
  /\ UNCHANGED <<flow, row, log, sequence, loop, calls, evidence, announced,
                 reports>>

AnnounceApproval ==
  /\ pc = "announce"
  /\ AddEvent("approval_required") /\ announced' = announced + 1
  /\ \/ flow = "llm" /\ calls' = Tail(calls) /\ Goto("calls")
     \/ flow = "mock" /\ Goto("report") /\ UNCHANGED calls
  /\ UNCHANGED <<flow, row, loop, evidence, approvals, reports>>

InvokeTool ==
  /\ pc = "invoke"
  /\ invoked' = invoked + 1 /\ Goto("store")
  /\ UNCHANGED <<flow, row, log, sequence, loop, calls, refs, audits, permits,
                 reports>>

StoreResult ==
  /\ pc = "store"
  /\ refs' = refs + 1 /\ Goto("audit")
  /\ UNCHANGED <<flow, row, log, sequence, loop, calls, invoked, audits,
                 permits, reports>>

\* Mutant: only what is stored is evidence, the audit is forgotten.
SkipAudit ==
  /\ pc = "audit"
  /\ Goto("result")
  /\ UNCHANGED <<flow, row, log, sequence, loop, calls, evidence, permits,
                 reports>>

InsertAudit ==
  /\ pc = "audit"
  /\ audits' = audits + 1 /\ Goto("result")
  /\ UNCHANGED <<flow, row, log, sequence, loop, calls, invoked, refs, permits,
                 reports>>

AddResult ==
  /\ pc = "result"
  /\ AddEvent("tool_result")
  /\ calls' = Tail(calls) /\ Goto("calls")
  /\ UNCHANGED <<flow, row, loop, evidence, permits, reports>>

-----------------------------------------------------------------------------
(***************************************************************************)
(* The end: report, final answer, status; or, in the except clause,        *)
(* report, error, final answer, status.                                    *)
(***************************************************************************)
CreateReport ==
  /\ pc \in {"report", "e_report"}
  /\ reports' = Append(reports, [evidence |-> refs,
                                 of |-> IF pc = "report" THEN "answer" ELSE "failure"])
  /\ Goto(IF pc = "report" THEN "answer" ELSE "e_event")
  /\ UNCHANGED <<flow, row, log, sequence, loop, calls, evidence, permits>>

\* The final answer is the last: the sequence is not incremented after it.
AddAnswer ==
  /\ pc = "answer"
  /\ log' = Append(log, [n |-> sequence, type |-> "final_answer"])
  /\ Goto("finish")
  /\ UNCHANGED <<flow, row, sequence, loop, calls, evidence, permits, reports>>

Finish ==
  /\ pc = "finish"
  /\ row' = "completed" /\ Goto("return")
  /\ UNCHANGED <<flow, log, sequence, loop, calls, evidence, permits, reports>>

\* Mutant: the error increments the sequence too.
AddErrorCounted ==
  /\ pc = "e_event"
  /\ log' = Append(log, [n |-> sequence, type |-> "error"])
  /\ Goto("e_answer") /\ sequence' = sequence + 1
  /\ UNCHANGED <<flow, row, loop, calls, evidence, permits, reports>>

AddError ==
  /\ pc = "e_event"
  /\ log' = Append(log, [n |-> sequence, type |-> "error"])
  /\ Goto("e_answer")
  /\ UNCHANGED <<flow, row, sequence, loop, calls, evidence, permits, reports>>

AddErrorAnswer ==
  /\ pc = "e_answer"
  /\ log' = Append(log, [n |-> sequence + 1, type |-> "final_answer"])
  /\ Goto("e_finish")
  /\ UNCHANGED <<flow, row, sequence, loop, calls, evidence, permits, reports>>

\* Mutant: finish_diagnosis with its default status.
FinishCompleted ==
  /\ pc = "e_finish"
  /\ row' = "completed" /\ Goto("e_return")
  /\ UNCHANGED <<flow, log, sequence, loop, calls, evidence, permits, reports>>

FinishError ==
  /\ pc = "e_finish"
  /\ row' = "error" /\ Goto("e_return")
  /\ UNCHANGED <<flow, log, sequence, loop, calls, evidence, permits, reports>>

\* The dict that was made at the start gets the status too, and is returned.
Return ==
  /\ pc \in Returning
  /\ Leave(IF pc = "return" THEN "completed" ELSE "error")
  /\ UNCHANGED <<flow, row, log, sequence, loop, calls, evidence, permits, reports>>

-----------------------------------------------------------------------------
(***************************************************************************)
(* Failures, and the whole.                                                *)
(***************************************************************************)
Fault ==
  /\ pc \notin Returning \cup {"done"}
  /\ Raise
  /\ UNCHANGED <<flow, row, log, sequence, loop, calls, evidence, permits,
                 reports>>

Crash ==
  /\ pc # "done"
  /\ Leave("killed")
  /\ UNCHANGED <<flow, row, log, sequence, loop, calls, evidence, permits,
                 reports>>

Converse == StartTurn \/ Post \/ ReadReply \/ ReadFinalReply
Serve ==
  \/ CallsServed \/ UnknownTool \/ CallTool \/ AskForDocker \/ CreateApproval
  \/ AnnounceApproval \/ InvokeTool \/ StoreResult \/ InsertAudit \/ AddResult
Conclude ==
  CreateReport \/ AddAnswer \/ Finish \/ AddError \/ AddErrorAnswer \/ FinishError
  \/ Return

Proceed ==
  \/ CreateDiagnosis \/ MakeProvider \/ AddPlan \/ ReadSettings
  \/ Converse \/ Serve \/ Conclude

Next == Proceed \/ Fault \/ Crash

Spec == Init /\ [][Next]_vars

\* A request that was started is served; each attempt has a timeout.
LiveSpec == Spec /\ WF_vars(Proceed)

-----------------------------------------------------------------------------
(***************************************************************************)
(* Properties.                                                             *)
(***************************************************************************)
TypeOK ==
  /\ flow \in {"llm", "mock"} /\ pc \in PCs
  /\ row \in {"none", "running", "completed", "error"}
  /\ log \in Seq([n : Nat, type : EventTypes])
  /\ sequence \in Nat /\ turn \in Nat /\ attempt \in Nat /\ posts \in Nat
  /\ calls \in Seq(CallKinds)
  /\ invoked \in Nat /\ refs \in Nat /\ audits \in Nat
  /\ approvals \in Nat /\ announced \in Nat
  /\ reports \in Seq([evidence : Nat, of : {"answer", "failure"}])
  /\ outcome \in {"none", "completed", "error", "raised", "killed"}

Type(i) == log[i].type
Concluded == log # <<>> /\ Type(Len(log)) = "final_answer"

\* Events are numbered from one without a gap.  The one number that is used
\* twice is that of a final answer whose session could not be completed: the
\* error that follows takes it again.
LogIsNumbered ==
  \A i \in 1..Len(log) :
    log[i].n = IF \E j \in 1..(i - 1) : Type(j) = "final_answer" THEN i - 1 ELSE i

\* What may come after an event.  Nothing that needs approval has a result.
Follows(type) ==
  CASE type = "call_read" -> {"tool_result", "error"}
    [] type = "call_mutating" -> {"approval_required", "error"}
    [] type = "error" -> {"final_answer"}
    [] type = "final_answer" -> {"error"}
    [] OTHER -> {"call_read", "call_mutating", "approval_required", "error",
                 "final_answer"}

\* The log is a dialogue: a plan, then calls each with its own answer, then a
\* final answer, with an error before it if the diagnosis failed.  Only the
\* mock asks for an approval that no call in the log asked for.
LogIsDialogue ==
  /\ \A i \in 1..Len(log) : Type(i) = "plan" <=> i = 1
  /\ \A i \in 2..Len(log) : Type(i) \in Follows(Type(i - 1))
  /\ flow = "llm" =>
       \A i \in 2..Len(log) :
         Type(i) = "approval_required" => Type(i - 1) = "call_mutating"

\* A client can read the log back: numbered, and a dialogue, whichever call failed.
LogIsSound == LogIsNumbered /\ LogIsDialogue

\* The status that is stored is the one returned, if any is, and log and reports agree with
\* it: one report of a completed session, and last that of the failure in one
\* that is in error, which has two if its status could not follow the first.  The
\* row is left running only by an exception that reaches the client or by a kill.
StatusIsTrue ==
  /\ row = "completed" =>
       /\ Concluded /\ outcome \in {"none", "completed", "killed"}
       /\ \A i \in 1..Len(log) : Type(i) # "error"
       /\ Len(reports) = 1 /\ reports[1].of = "answer"
  /\ row = "error" =>
       /\ Concluded /\ outcome \in {"none", "error", "killed"} /\ Type(Len(log) - 1) = "error"
       /\ reports # <<>> /\ reports[Len(reports)].of = "failure"
  /\ Len(reports) <= 2
  /\ Concluded => reports # <<>>
  /\ outcome \in {"completed", "error"} => row = outcome

\* The evidence of a conclusion was run, stored and audited, all of it.  A
\* report of a failure may have one result more than there are audit records,
\* and one tool may have run without a stored result.
EvidenceIsAudited ==
  /\ \A k \in 1..Len(reports) :
       /\ reports[k].of = "answer" => refs = audits /\ audits = invoked
       /\ reports[k].evidence = refs
  /\ audits <= refs /\ refs <= invoked /\ invoked <= audits + 1

\* Of the approvals only the last may be one the log does not tell of, and
\* never in a completed session.
ApprovalsAreAnnounced ==
  /\ announced <= approvals /\ approvals <= announced + 1
  /\ row = "completed" => announced = approvals

\* What a diagnosis does outside its log is on record: tool runs in the audit,
\* approvals in the events, although each is written in its own transaction.
ActionsAreRecorded == EvidenceIsAudited /\ ApprovalsAreAnnounced

\* The provider is asked at most Retries + 1 times for each message and once
\* more, as often, for the conclusion.
PostsAreBounded == posts <= (Retries + 1) * (turn + 1) /\ turn <= MaxTurns

\* The handler ends, whatever the provider answers.
DiagnosisEnds == <>(pc = "done")

-----------------------------------------------------------------------------
(***************************************************************************)
(* The inductive invariants behind the safety properties.                  *)
(***************************************************************************)
Last == Type(Len(log))
Answered == {"plan", "tool_result", "approval_required"}
Invoking == {"invoke", "store", "audit", "result"}
Asking == {"approval", "announce"}
Replying ==
  {"provider", "settings", "turn", "post", "reply", "post_final", "reply_final"}
Before == {"create", "provider", "plan"}

\* A call is taken from the list when it has been served; the mock only reads.
CallsInv ==
  /\ pc \in Invoking => calls # <<>>
  /\ pc \in Asking /\ flow = "llm" => calls # <<>>
  /\ pc \in Replying => flow = "llm"
  /\ pc = "docker" => flow = "mock"
  /\ flow = "mock" => calls \in Seq({"read"})
  /\ pc \in {"e_report", "e_event", "e_answer", "e_finish"} => flow = "llm"

\* What was last written at each place.
LastInv ==
  /\ pc \in Before => log = <<>>
  /\ pc \notin Before \cup {"done"} => log # <<>>
  /\ pc \in Invoking => Last = "call_read"
  /\ pc \in Asking => Last \in (IF flow = "llm" THEN {"call_mutating"} ELSE Answered)
  /\ pc \in (Tried \cup {"settings"}) \ (Invoking \cup Asking \cup {"finish"}) =>
       Last \in Answered
  /\ pc = "finish" => Last = "final_answer"
  /\ pc = "e_answer" => Last = "error"
  /\ pc = "e_finish" =>
       Len(log) > 1 /\ Last = "final_answer" /\ Type(Len(log) - 1) = "error"

\* No final answer and no error comes before the end; how far the sequence is.
Without(type, k) == \A i \in 1..k : Type(i) # type

NumberInv ==
  /\ pc \in (Untried \cup Tried) \ {"finish"} =>
       sequence = Len(log) + 1 /\ Without("final_answer", Len(log))
  /\ pc = "finish" => sequence = Len(log) /\ Without("final_answer", Len(log) - 1)
  /\ pc \in Untried \cup Tried \cup {"e_report", "e_event"} =>
       Without("error", Len(log))
  /\ pc \in {"e_report", "e_event"} =>
       \/ sequence = Len(log) + 1 /\ Without("final_answer", Len(log))
       \/ /\ sequence = Len(log) /\ Last = "final_answer"
          /\ Without("final_answer", Len(log) - 1)
  /\ pc = "e_answer" =>
       \/ sequence = Len(log) /\ Without("final_answer", Len(log))
       \/ /\ sequence = Len(log) - 1 /\ Type(Len(log) - 1) = "final_answer"
          /\ Len(log) > 1 /\ Without("final_answer", Len(log) - 2)

StatusInv ==
  /\ pc # "done" => outcome = "none"
  /\ pc \notin Returning \cup {"done"} => row \in {"none", "running"}
  /\ pc = "return" => row = "completed"
  /\ pc = "e_return" => row = "error"

\* How far a tool run has been recorded, and which reports there are.
EvidenceInv ==
  /\ pc = "store" => refs = audits /\ invoked = refs + 1
  /\ pc = "audit" => refs = audits + 1 /\ invoked = refs
  /\ pc \in (Untried \cup Tried) \ {"store", "audit"} =>
       refs = audits /\ audits = invoked
  /\ pc \in (Untried \cup Tried) \ {"answer", "finish"} => reports = <<>>
  /\ pc \in {"answer", "finish"} => Len(reports) = 1 /\ reports[1].of = "answer"
  /\ pc = "e_report" => Len(reports) <= 1
  /\ pc = "e_report" /\ Last = "final_answer" => Len(reports) = 1
  /\ pc \in Handling \ {"e_report"} =>
       reports # <<>> /\ reports[Len(reports)].of = "failure"

PermitInv ==
  /\ pc = "announce" => approvals = announced + 1
  /\ pc \in (Untried \cup Tried) \ {"announce"} => approvals = announced

\* The requests sent by the end of a turn, and within one completion.
PostsInv ==
  /\ pc \in Untried => posts = 0 /\ turn = 0
  /\ pc = "post" =>
       turn > 0 /\ attempt <= Retries /\ posts <= (Retries + 1) * (turn - 1) + attempt
  /\ pc = "post_final" =>
       attempt <= Retries /\ posts <= (Retries + 1) * turn + attempt
  /\ pc \in {"turn", "reply", "calls", "docker"} \cup Asking \cup Invoking =>
       posts <= (Retries + 1) * turn

DiagnosisInv ==
  /\ CallsInv /\ LastInv /\ NumberInv /\ StatusInv /\ EvidenceInv /\ PermitInv
  /\ PostsInv /\ LogIsNumbered /\ LogIsDialogue /\ StatusIsTrue /\ EvidenceIsAudited
  /\ ApprovalsAreAnnounced /\ PostsAreBounded
=============================================================================
