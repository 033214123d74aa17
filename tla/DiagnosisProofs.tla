--------------------------- MODULE DiagnosisProofs ---------------------------
(***************************************************************************)
(* Theorems about one diagnosis request, for any number of turns, retries  *)
(* and tool calls, and whatever the provider answers.                      *)
(***************************************************************************)
EXTENDS Diagnosis, TLAPS

Events == [n : Nat, type : EventTypes]
Event(k, type) == [n |-> k, type |-> type]

\* The columns of an event.
LEMMA EventFields ==
  ASSUME NEW k \in Nat, NEW type \in EventTypes
  PROVE  Event(k, type) \in Events /\ Event(k, type).n = k /\ Event(k, type).type = type
BY DEF Event, Events

\* Where an exception leads.
LEMMA RaiseFields ==
  ASSUME TypeOK, Raise
  PROVE  /\ pc' \in {"e_report", "done"} /\ outcome' \in {outcome, "raised"}
         /\ pc' = "e_report" => flow = "llm" /\ pc \in Tried /\ outcome' = outcome
         /\ pc' = "done" => outcome' = "raised"
BY DEF TypeOK, Raise, Goto, Leave

\* What an event adds to the log.
LEMMA AddEventFields ==
  ASSUME TypeOK, NEW type \in EventTypes, AddEvent(type)
  PROVE  /\ log' = Append(log, Event(sequence, type)) /\ sequence' = sequence + 1
         /\ log' \in Seq(Events) /\ sequence' \in Nat
<1>1. Event(sequence, type) \in Events
  BY EventFields DEF TypeOK
<1>2. log \in Seq(Events) /\ sequence \in Nat
  BY DEF TypeOK, Events
<1>3. log' = Append(log, Event(sequence, type)) /\ sequence' = sequence + 1
  BY DEF AddEvent, Event
<1> HIDE DEF Events, Event
<1>4. QED BY <1>1, <1>2, <1>3

\* What is left of the calls when one was served.
LEMMA TailFields ==
  ASSUME calls \in Seq(CallKinds), calls # <<>>
  PROVE  /\ Tail(calls) \in Seq(CallKinds)
         /\ calls \in Seq({"read"}) => Tail(calls) \in Seq({"read"})
OBVIOUS

-----------------------------------------------------------------------------
\* Every variable keeps its type.
LEMMA StaysTyped ==
  ASSUME TypeOK, CallsInv, [Next]_vars
  PROVE  TypeOK' /\ CallsInv'
<1> USE DEF loop, evidence, permits, Goto, Leave
<1> USE ConstantsAssumption
<1> USE DEF TypeOK, CallsInv, PCs, Untried, Tried, Handling, Returning, Invoking, Asking,
     Replying, EventTypes, Events
<1>1. CASE CreateDiagnosis
  BY <1>1 DEF CreateDiagnosis
<1>2. CASE MakeProvider
  BY <1>2 DEF MakeProvider
<1>3. CASE AddPlan
  <2>1. AddEvent("plan") /\ "plan" \in EventTypes
    BY <1>3 DEF AddPlan
  <2>2. log' \in Seq(Events) /\ sequence' \in Nat
    BY <2>1, AddEventFields
  <2>3. [i \in 1..MockCalls |-> "read"] \in Seq(CallKinds) \cap Seq({"read"})
    BY DEF CallKinds
  <2>4. QED BY <1>3, <2>2, <2>3 DEF AddPlan
<1>4. CASE ReadSettings
  BY <1>4 DEF ReadSettings
<1>5. CASE StartTurn
  BY <1>5, RaiseFields DEF StartTurn
<1>6. CASE Post
  BY <1>6, RaiseFields DEF Post
<1>7. CASE ReadReply
  BY <1>7 DEF ReadReply
<1>8. CASE ReadFinalReply
  BY <1>8 DEF ReadFinalReply
<1>9. CASE CallsServed
  BY <1>9 DEF CallsServed
<1>10. CASE UnknownTool
  BY <1>10, RaiseFields DEF UnknownTool
<1>11. CASE CallTool
  <2>1. (AddEvent("call_read") \/ AddEvent("call_mutating")) /\ pc' \in {"invoke", "approval"}
    BY <1>11 DEF CallTool
  <2>2. log' \in Seq(Events) /\ sequence' \in Nat
    BY <2>1, AddEventFields
  <2>3. QED BY <1>11, <2>1, <2>2 DEF CallTool
<1>12. CASE AskForDocker
  BY <1>12 DEF AskForDocker
<1>13. CASE CreateApproval
  BY <1>13 DEF CreateApproval
<1>14. CASE AnnounceApproval
  <2>1. AddEvent("approval_required")
    BY <1>14 DEF AnnounceApproval
  <2>2. log' \in Seq(Events) /\ sequence' \in Nat
    BY <2>1, AddEventFields
  <2>3. calls' \in Seq(CallKinds) /\ pc' \in {"calls", "report"}
    BY <1>14, TailFields DEF AnnounceApproval
  <2>4. QED BY <1>14, <2>2, <2>3 DEF AnnounceApproval
<1>15. CASE InvokeTool
  BY <1>15 DEF InvokeTool
<1>16. CASE StoreResult
  BY <1>16 DEF StoreResult
<1>17. CASE InsertAudit
  BY <1>17 DEF InsertAudit
<1>18. CASE AddResult
  <2>1. AddEvent("tool_result")
    BY <1>18 DEF AddResult
  <2>2. log' \in Seq(Events) /\ sequence' \in Nat
    BY <2>1, AddEventFields
  <2>3. QED BY <1>18, <2>2, TailFields DEF AddResult
<1>19. CASE CreateReport
  BY <1>19 DEF CreateReport
<1>20. CASE AddAnswer
  BY <1>20 DEF AddAnswer
<1>21. CASE Finish
  BY <1>21 DEF Finish
<1>22. CASE AddError
  BY <1>22 DEF AddError
<1>23. CASE AddErrorAnswer
  BY <1>23 DEF AddErrorAnswer
<1>24. CASE FinishError
  BY <1>24 DEF FinishError
<1>29. CASE Return
  BY <1>29 DEF Return
<1>25. CASE Fault
  BY <1>25, RaiseFields DEF Fault
<1>26. CASE Crash
  BY <1>26 DEF Crash
<1>27. CASE UNCHANGED vars
  BY <1>27 DEF vars
<1>28. QED
  BY <1>1, <1>2, <1>3, <1>4, <1>5, <1>6, <1>7, <1>8, <1>9, <1>10, <1>11,
     <1>12, <1>13, <1>14, <1>15, <1>16, <1>17, <1>18, <1>19, <1>20, <1>21,
     <1>22, <1>23, <1>24, <1>25, <1>26, <1>27, <1>29 DEF Next, Proceed, Converse,
     Serve, Conclude

\* The two counts of approvals, and the status that is stored.
LEMMA ApprovalsKept ==
  ASSUME TypeOK, CallsInv, StatusInv, PermitInv, ApprovalsAreAnnounced, [Next]_vars
  PROVE  StatusInv' /\ PermitInv' /\ ApprovalsAreAnnounced'
<1> USE DEF loop, evidence, permits, Goto, Leave
<1> USE DEF StatusInv, PermitInv, ApprovalsAreAnnounced, PCs, Untried, Tried,
     Handling, Returning, TypeOK, CallsInv
<1>1. CASE CreateDiagnosis
  BY <1>1 DEF CreateDiagnosis
<1>2. CASE MakeProvider
  BY <1>2 DEF MakeProvider
<1>3. CASE AddPlan
  BY <1>3 DEF AddPlan
<1>4. CASE ReadSettings
  BY <1>4 DEF ReadSettings
<1>5. CASE StartTurn
  BY <1>5, RaiseFields DEF StartTurn
<1>6. CASE Post
  BY <1>6, RaiseFields DEF Post
<1>7. CASE ReadReply
  BY <1>7 DEF ReadReply
<1>8. CASE ReadFinalReply
  BY <1>8 DEF ReadFinalReply
<1>9. CASE CallsServed
  BY <1>9 DEF CallsServed
<1>10. CASE UnknownTool
  BY <1>10, RaiseFields DEF UnknownTool
<1>11. CASE CallTool
  BY <1>11 DEF CallTool
<1>12. CASE AskForDocker
  BY <1>12 DEF AskForDocker
<1>13. CASE CreateApproval
  BY <1>13 DEF CreateApproval
<1>14. CASE AnnounceApproval
  BY <1>14 DEF AnnounceApproval
<1>15. CASE InvokeTool
  BY <1>15 DEF InvokeTool
<1>16. CASE StoreResult
  BY <1>16 DEF StoreResult
<1>17. CASE InsertAudit
  BY <1>17 DEF InsertAudit
<1>18. CASE AddResult
  BY <1>18 DEF AddResult
<1>19. CASE CreateReport
  BY <1>19 DEF CreateReport
<1>20. CASE AddAnswer
  BY <1>20 DEF AddAnswer
<1>21. CASE Finish
  BY <1>21 DEF Finish
<1>22. CASE AddError
  BY <1>22 DEF AddError
<1>23. CASE AddErrorAnswer
  BY <1>23 DEF AddErrorAnswer
<1>24. CASE FinishError
  BY <1>24 DEF FinishError
<1>29. CASE Return
  BY <1>29 DEF Return
<1>25. CASE Fault
  BY <1>25, RaiseFields DEF Fault
<1>26. CASE Crash
  BY <1>26 DEF Crash
<1>27. CASE UNCHANGED vars
  BY <1>27 DEF vars
<1>28. QED
  BY <1>1, <1>2, <1>3, <1>4, <1>5, <1>6, <1>7, <1>8, <1>9, <1>10, <1>11,
     <1>12, <1>13, <1>14, <1>15, <1>16, <1>17, <1>18, <1>19, <1>20, <1>21,
     <1>22, <1>23, <1>24, <1>25, <1>26, <1>27, <1>29 DEF Next, Proceed, Converse,
     Serve, Conclude

\* A turn adds the attempts of one completion.
LEMMA Attempts ==
  ASSUME NEW t \in Nat
  PROVE  /\ (Retries + 1) * t \in Nat
         /\ (Retries + 1) * (t + 1) = (Retries + 1) * t + (Retries + 1)
BY ConstantsAssumption

\* The count of the requests sent.
LEMMA PostsKept ==
  ASSUME TypeOK, CallsInv, PostsInv, PostsAreBounded, [Next]_vars
  PROVE  PostsInv' /\ PostsAreBounded'
<1> USE DEF loop, evidence, permits, Goto, Leave
<1> USE ConstantsAssumption
<1> USE DEF PostsInv, PostsAreBounded, PCs, Untried, Tried, Handling, Returning, Invoking,
     Asking, Replying, TypeOK, CallsInv
<1>1. CASE CreateDiagnosis
  BY <1>1 DEF CreateDiagnosis
<1>2. CASE MakeProvider
  BY <1>2 DEF MakeProvider
<1>3. CASE AddPlan
  BY <1>3 DEF AddPlan
<1>4. CASE ReadSettings
  BY <1>4 DEF ReadSettings
<1>5. CASE StartTurn
  <2>1. CASE turn < MaxTurns /\ turn' = turn + 1 /\ pc' = "post"
    <3>1. turn' - 1 = turn /\ posts' = posts /\ attempt' = 0 /\ turn' > 0
      BY <1>5, <2>1 DEF StartTurn
    <3>2. posts <= (Retries + 1) * turn
      BY <1>5 DEF StartTurn
    <3>3. (Retries + 1) * turn <= (Retries + 1) * (turn' + 1)
      BY <2>1, Attempts
    <3>4. posts' <= (Retries + 1) * (turn' - 1) + attempt' /\ attempt' <= Retries
      BY <3>1, <3>2, Attempts
    <3>5. posts' <= (Retries + 1) * (turn' + 1) /\ turn' <= MaxTurns
      BY <2>1, <3>1, <3>2, <3>3, Attempts
    <3>6. QED BY <2>1, <3>1, <3>4, <3>5
  <2>2. CASE Raise /\ turn' = turn
    BY <1>5, <2>2, RaiseFields DEF StartTurn
  <2>3. QED BY <1>5, <2>1, <2>2 DEF StartTurn
<1>6. CASE Post
  <2> DEFINE here == (Retries + 1) * turn
             next == (Retries + 1) * (turn + 1)
             before == (Retries + 1) * (turn - 1)
  <2>1. here \in Nat /\ next = here + (Retries + 1)
    BY Attempts
  <2>2. turn > 0 => before \in Nat /\ here = before + (Retries + 1)
    <3>1. turn > 0 => turn - 1 \in Nat /\ turn = (turn - 1) + 1
      OBVIOUS
    <3> HIDE DEF TypeOK, PostsInv, PostsAreBounded, CallsInv
    <3>2. QED BY <3>1, Attempts
  <2>3. /\ pc = "post" => turn > 0 /\ attempt <= Retries /\ posts <= before + attempt
        /\ pc = "post_final" => attempt <= Retries /\ posts <= here + attempt
        /\ posts <= next /\ turn <= MaxTurns
        /\ posts \in Nat /\ attempt \in Nat /\ Retries \in Nat
    OBVIOUS
  <2>4. /\ pc \in {"post", "post_final"} /\ posts' = posts + 1 /\ turn' = turn
        /\ \/ pc' = (IF pc = "post" THEN "reply" ELSE "reply_final") /\ attempt' = attempt
           \/ pc' \in {"e_report", "done"} /\ attempt' = attempt
           \/ attempt < Retries /\ attempt' = attempt + 1 /\ pc' = pc
    BY <1>6, RaiseFields DEF Post
  <2> HIDE DEF here, next, before, TypeOK, CallsInv, PostsInv, PostsAreBounded
  <2>5. /\ posts' <= next /\ turn' <= MaxTurns
        /\ pc' = "reply" => posts' <= here
        /\ pc' = "post" => turn > 0 /\ attempt' <= Retries /\ posts' <= before + attempt'
        /\ pc' = "post_final" => attempt' <= Retries /\ posts' <= here + attempt'
    <3>1. CASE pc = "post"
      BY <2>1, <2>2, <2>3, <2>4, <3>1
    <3>2. CASE pc = "post_final"
      BY <2>1, <2>3, <2>4, <3>2
    <3>3. QED BY <2>4, <3>1, <3>2
  <2>6. QED BY <2>4, <2>5 DEF here, next, before, PostsInv, PostsAreBounded
<1>7. CASE ReadReply
  BY <1>7 DEF ReadReply
<1>8. CASE ReadFinalReply
  BY <1>8 DEF ReadFinalReply
<1>9. CASE CallsServed
  BY <1>9 DEF CallsServed
<1>10. CASE UnknownTool
  BY <1>10, RaiseFields DEF UnknownTool
<1>11. CASE CallTool
  BY <1>11 DEF CallTool
<1>12. CASE AskForDocker
  BY <1>12 DEF AskForDocker
<1>13. CASE CreateApproval
  BY <1>13 DEF CreateApproval
<1>14. CASE AnnounceApproval
  BY <1>14 DEF AnnounceApproval
<1>15. CASE InvokeTool
  BY <1>15 DEF InvokeTool
<1>16. CASE StoreResult
  BY <1>16 DEF StoreResult
<1>17. CASE InsertAudit
  BY <1>17 DEF InsertAudit
<1>18. CASE AddResult
  BY <1>18 DEF AddResult
<1>19. CASE CreateReport
  BY <1>19 DEF CreateReport
<1>20. CASE AddAnswer
  BY <1>20 DEF AddAnswer
<1>21. CASE Finish
  BY <1>21 DEF Finish
<1>22. CASE AddError
  BY <1>22 DEF AddError
<1>23. CASE AddErrorAnswer
  BY <1>23 DEF AddErrorAnswer
<1>24. CASE FinishError
  BY <1>24 DEF FinishError
<1>29. CASE Return
  BY <1>29 DEF Return
<1>25. CASE Fault
  BY <1>25, RaiseFields DEF Fault
<1>26. CASE Crash
  BY <1>26 DEF Crash
<1>27. CASE UNCHANGED vars
  BY <1>27 DEF vars
<1>28. QED
  BY <1>1, <1>2, <1>3, <1>4, <1>5, <1>6, <1>7, <1>8, <1>9, <1>10, <1>11,
     <1>12, <1>13, <1>14, <1>15, <1>16, <1>17, <1>18, <1>19, <1>20, <1>21,
     <1>22, <1>23, <1>24, <1>25, <1>26, <1>27, <1>29 DEF Next, Proceed, Converse,
     Serve, Conclude

-----------------------------------------------------------------------------
\* The log before an event is added, and after.
LEMMA LogGrows ==
  ASSUME TypeOK, NEW k \in Nat, NEW type \in EventTypes,
         log' = Append(log, Event(k, type))
  PROVE  /\ Len(log) \in Nat /\ Len(log') = Len(log) + 1 /\ log' # <<>>
         /\ log # <<>> <=> Len(log) > 0
         /\ log'[Len(log) + 1].n = k /\ log'[Len(log) + 1].type = type
         /\ \A i \in 1..Len(log) : log'[i].n = log[i].n /\ log'[i].type = log[i].type
<1>1. Event(k, type) \in Events /\ Event(k, type).n = k /\ Event(k, type).type = type
  BY EventFields
<1>2. log \in Seq(Events)
  BY DEF TypeOK, Events
<1> HIDE DEF Events, Event
<1>3. QED BY <1>1, <1>2

\* A number fits: that of its place, or one less behind a final answer.
LEMMA NumberFits ==
  ASSUME TypeOK, LogIsNumbered, NEW k \in Nat, NEW type \in EventTypes,
         log' = Append(log, Event(k, type)),
         \/ k = Len(log) + 1 /\ Without("final_answer", Len(log))
         \/ k = Len(log) /\ \E j \in 1..Len(log) : Type(j) = "final_answer"
  PROVE  LogIsNumbered'
<1> DEFINE last == Len(log) + 1
<1>1. /\ Len(log) \in Nat /\ Len(log') = last /\ log'[last].n = k
      /\ \A i \in 1..Len(log) : log'[i].n = log[i].n /\ log'[i].type = log[i].type
  BY LogGrows
<1>2. SUFFICES ASSUME NEW i \in 1..last
               PROVE  log'[i].n = IF \E j \in 1..(i - 1) : log'[j].type = "final_answer"
                                  THEN i - 1 ELSE i
  BY <1>1 DEF LogIsNumbered, Type
<1>3. CASE i \in 1..Len(log)
  <2>1. \A j \in 1..(i - 1) : log'[j].type = log[j].type
    BY <1>1, <1>3
  <2>2. QED BY <1>1, <1>3, <2>1 DEF LogIsNumbered, Type
<1>4. CASE i = last
  <2>1. (\E j \in 1..(last - 1) : log'[j].type = "final_answer")
          <=> \E j \in 1..Len(log) : log[j].type = "final_answer"
    BY <1>1
  <2>2. QED BY <1>1, <1>4, <2>1 DEF Without, Type
<1>5. QED BY <1>1, <1>3, <1>4

\* An event fits: the plan is first, any other follows the one before it.
LEMMA EventFits ==
  ASSUME TypeOK, LogIsDialogue, NEW k \in Nat, NEW type \in EventTypes,
         log' = Append(log, Event(k, type)), flow' = flow,
         \/ type = "plan" /\ log = <<>>
         \/ type # "plan" /\ log # <<>> /\ type \in Follows(Last),
         flow = "llm" /\ type = "approval_required" => Last = "call_mutating"
  PROVE  LogIsDialogue'
<1> DEFINE last == Len(log) + 1
<1>1. /\ Len(log) \in Nat /\ Len(log') = last /\ log'[last].type = type
      /\ log # <<>> <=> Len(log) > 0
      /\ \A i \in 1..Len(log) : log'[i].type = log[i].type
  BY LogGrows
<1>2. \A i \in 1..Len(log') : log'[i].type = "plan" <=> i = 1
  BY <1>1 DEF LogIsDialogue, Type
<1>3. \A i \in 2..Len(log') : log'[i].type \in Follows(log'[i - 1].type)
  <2>1. SUFFICES ASSUME NEW i \in 2..Len(log')
                 PROVE  log'[i].type \in Follows(log'[i - 1].type)
    OBVIOUS
  <2>2. CASE i \in 2..Len(log)
    BY <1>1, <2>2 DEF LogIsDialogue, Type
  <2>3. CASE i = last
    <3>1. log # <<>> /\ type \in Follows(log[Len(log)].type)
      BY <1>1, <2>1, <2>3 DEF Last, Type
    <3>2. log'[last - 1].type = log[Len(log)].type
      BY <1>1, <3>1
    <3>3. QED BY <1>1, <2>3, <3>1, <3>2
  <2>4. QED BY <1>1, <2>2, <2>3
<1>4. flow = "llm" =>
        \A i \in 2..Len(log') :
          log'[i].type = "approval_required" => log'[i - 1].type = "call_mutating"
  <2>1. SUFFICES ASSUME NEW i \in 2..Len(log'), flow = "llm",
                        log'[i].type = "approval_required"
                 PROVE  log'[i - 1].type = "call_mutating"
    OBVIOUS
  <2>2. CASE i \in 2..Len(log)
    BY <1>1, <2>1, <2>2 DEF LogIsDialogue, Type
  <2>3. CASE i = last
    BY <1>1, <2>1, <2>3 DEF Last, Type
  <2>4. QED BY <1>1, <2>2, <2>3
<1>5. QED BY <1>2, <1>3, <1>4 DEF LogIsDialogue, Type

\* The type of the last event.
LEMMA LastIs ==
  ASSUME TypeOK, log # <<>>
  PROVE  /\ Len(log) \in Nat /\ Len(log) \in 1..Len(log) /\ Last \in EventTypes
         /\ Without("error", Len(log)) => Last # "error"
<1>1. log \in Seq(Events)
  BY DEF TypeOK, Events
<1>2. Len(log) \in Nat /\ Len(log) \in 1..Len(log) /\ log[Len(log)] \in Events
  <2> HIDE DEF Events
  <2>1. QED BY <1>1
<1>3. log[Len(log)].type \in EventTypes
  BY <1>2 DEF Events
<1>4. QED BY <1>2, <1>3 DEF Last, Type, Without

\* The log.
LEMMA LogKept ==
  ASSUME TypeOK, CallsInv, LastInv, NumberInv, LogIsNumbered, LogIsDialogue, [Next]_vars
  PROVE  LastInv' /\ NumberInv' /\ LogIsNumbered' /\ LogIsDialogue'
<1> USE DEF loop, evidence, permits, Goto, Leave
<1> USE DEF LastInv, NumberInv, LogIsNumbered, LogIsDialogue, Last, Type, Without,
     Answered, Before, PCs, Untried, Tried, Handling, Returning, Invoking, Asking, Replying,
     TypeOK, CallsInv
<1>1. CASE CreateDiagnosis
  BY <1>1 DEF CreateDiagnosis
<1>2. CASE MakeProvider
  BY <1>2 DEF MakeProvider
<1>3. CASE AddPlan
  <2>1. /\ pc = "plan" /\ pc' \in {"settings", "calls"}
        /\ log' = Append(log, Event(sequence, "plan"))
        /\ sequence' = sequence + 1 /\ flow' = flow
    BY <1>3 DEF AddPlan, AddEvent, Event
  <2>2. "plan" \in EventTypes /\ sequence \in Nat
    BY DEF EventTypes, TypeOK
  <2>3. /\ sequence = Len(log) + 1 /\ Without("final_answer", Len(log))
        /\ Without("error", Len(log)) /\ log = <<>>
    BY <2>1 DEF LastInv, NumberInv, CallsInv, Replying, Before, Asking, Invoking,
         Untried, Tried, Handling, Type
  <2>4. LogIsNumbered'
    BY <2>1, <2>2, <2>3, NumberFits DEF Type, Last
  <2>5. LogIsDialogue'
    BY <2>1, <2>2, <2>3, EventFits DEF Follows, Answered
  <2> HIDE DEF TypeOK, CallsInv, LastInv, NumberInv, LogIsNumbered, LogIsDialogue
  <2>6. /\ Len(log) \in Nat /\ Len(log') = Len(log) + 1 /\ log' # <<>>
        /\ log'[Len(log')].type = "plan"
        /\ \A i \in 1..Len(log) : log'[i].type = log[i].type
    BY <2>1, <2>2, LogGrows
  <2>7. LastInv'
    BY <2>1, <2>3, <2>6 DEF LastInv, Last, Type, Answered, Before, Asking,
         Invoking, Untried, Tried
  <2>8. NumberInv'
    BY <2>1, <2>3, <2>6 DEF NumberInv, Without, Last, Type, Untried, Tried
  <2>9. QED BY <2>4, <2>5, <2>7, <2>8
<1>4. CASE ReadSettings
  BY <1>4 DEF ReadSettings
<1>5. CASE StartTurn
  BY <1>5, RaiseFields DEF StartTurn
<1>6. CASE Post
  BY <1>6, RaiseFields DEF Post
<1>7. CASE ReadReply
  BY <1>7 DEF ReadReply
<1>8. CASE ReadFinalReply
  BY <1>8 DEF ReadFinalReply
<1>9. CASE CallsServed
  BY <1>9 DEF CallsServed
<1>10. CASE UnknownTool
  BY <1>10, RaiseFields DEF UnknownTool
<1>11. CASE CallTool
  <2>0. flow = "mock" => pc' = "invoke"
    <3>1. flow = "mock" => Head(calls) = "read"
      BY <1>11 DEF CallTool
    <3>2. QED BY <1>11, <3>1 DEF CallTool
  <2>1. /\ pc = "calls" /\ pc' \in {"invoke", "approval"} /\ flow' = flow
        /\ sequence' = sequence + 1
        /\ \/ log' = Append(log, Event(sequence, "call_read")) /\ pc' = "invoke"
           \/ log' = Append(log, Event(sequence, "call_mutating")) /\ pc' = "approval"
    BY <1>11 DEF CallTool, AddEvent, Event
  <2>2. PICK type \in {"call_read", "call_mutating"} :
          /\ log' = Append(log, Event(sequence, type))
          /\ pc' = IF type = "call_read" THEN "invoke" ELSE "approval"
    BY <2>1
  <2>3. type \in EventTypes /\ sequence \in Nat
    BY DEF EventTypes, TypeOK
  <2>4. /\ sequence = Len(log) + 1 /\ Without("final_answer", Len(log))
        /\ Without("error", Len(log)) /\ log # <<>> /\ Last \in Answered
    BY <2>1 DEF LastInv, NumberInv, Before, Asking, Invoking, Untried, Tried
  <2>5. LogIsNumbered'
    BY <2>2, <2>3, <2>4, NumberFits
  <2>6. LogIsDialogue'
    BY <2>1, <2>2, <2>3, <2>4, EventFits DEF Follows, Answered
  <2>7. /\ Len(log) \in Nat /\ Len(log') = Len(log) + 1 /\ log' # <<>>
        /\ log'[Len(log')].type = type
        /\ \A i \in 1..Len(log) : log'[i].type = log[i].type
    <3> HIDE DEF TypeOK, CallsInv, LastInv, NumberInv, LogIsNumbered, LogIsDialogue
    <3>1. QED BY <2>2, <2>3, LogGrows
  <2>8. LastInv'
    BY <2>0, <2>1, <2>2, <2>4, <2>7 DEF LastInv, Last, Type, Answered, Before,
         Asking, Invoking, Untried, Tried
  <2>9. NumberInv'
    BY <2>1, <2>2, <2>4, <2>7 DEF NumberInv, Without, Last, Type, Untried, Tried
  <2>10. QED BY <2>5, <2>6, <2>8, <2>9
<1>12. CASE AskForDocker
  BY <1>12 DEF AskForDocker
<1>13. CASE CreateApproval
  BY <1>13 DEF CreateApproval
<1>14. CASE AnnounceApproval
  <2>1. /\ pc = "announce" /\ pc' \in {"calls", "report"}
        /\ log' = Append(log, Event(sequence, "approval_required"))
        /\ sequence' = sequence + 1 /\ flow' = flow
    BY <1>14 DEF AnnounceApproval, AddEvent, Event
  <2>2. "approval_required" \in EventTypes /\ sequence \in Nat
    BY DEF EventTypes, TypeOK
  <2>3. /\ sequence = Len(log) + 1 /\ Without("final_answer", Len(log))
        /\ Without("error", Len(log)) /\ log # <<>>
        /\ Last \in (IF flow = "llm" THEN {"call_mutating"} ELSE Answered)
    BY <2>1 DEF LastInv, NumberInv, CallsInv, Replying, Before, Asking, Invoking,
         Untried, Tried, Handling, Type
  <2>4. LogIsNumbered'
    BY <2>1, <2>2, <2>3, NumberFits DEF Type, Last
  <2>5. LogIsDialogue'
    BY <2>1, <2>2, <2>3, EventFits DEF Follows, Answered
  <2> HIDE DEF TypeOK, CallsInv, LastInv, NumberInv, LogIsNumbered, LogIsDialogue
  <2>6. /\ Len(log) \in Nat /\ Len(log') = Len(log) + 1 /\ log' # <<>>
        /\ log'[Len(log')].type = "approval_required"
        /\ \A i \in 1..Len(log) : log'[i].type = log[i].type
    BY <2>1, <2>2, LogGrows
  <2>7. LastInv'
    BY <2>1, <2>3, <2>6 DEF LastInv, Last, Type, Answered, Before, Asking,
         Invoking, Untried, Tried
  <2>8. NumberInv'
    BY <2>1, <2>3, <2>6 DEF NumberInv, Without, Last, Type, Untried, Tried
  <2>9. QED BY <2>4, <2>5, <2>7, <2>8
<1>15. CASE InvokeTool
  BY <1>15 DEF InvokeTool
<1>16. CASE StoreResult
  BY <1>16 DEF StoreResult
<1>17. CASE InsertAudit
  BY <1>17 DEF InsertAudit
<1>18. CASE AddResult
  <2>1. /\ pc = "result" /\ pc' = "calls"
        /\ log' = Append(log, Event(sequence, "tool_result"))
        /\ sequence' = sequence + 1 /\ flow' = flow
    BY <1>18 DEF AddResult, AddEvent, Event
  <2>2. "tool_result" \in EventTypes /\ sequence \in Nat
    BY DEF EventTypes, TypeOK
  <2>3. /\ sequence = Len(log) + 1 /\ Without("final_answer", Len(log))
        /\ Without("error", Len(log)) /\ log # <<>>
        /\ Last = "call_read"
    BY <2>1 DEF LastInv, NumberInv, CallsInv, Replying, Before, Asking, Invoking,
         Untried, Tried, Handling, Type
  <2>4. LogIsNumbered'
    BY <2>1, <2>2, <2>3, NumberFits DEF Type, Last
  <2>5. LogIsDialogue'
    BY <2>1, <2>2, <2>3, EventFits DEF Follows, Answered
  <2> HIDE DEF TypeOK, CallsInv, LastInv, NumberInv, LogIsNumbered, LogIsDialogue
  <2>6. /\ Len(log) \in Nat /\ Len(log') = Len(log) + 1 /\ log' # <<>>
        /\ log'[Len(log')].type = "tool_result"
        /\ \A i \in 1..Len(log) : log'[i].type = log[i].type
    BY <2>1, <2>2, LogGrows
  <2>7. LastInv'
    BY <2>1, <2>3, <2>6 DEF LastInv, Last, Type, Answered, Before, Asking,
         Invoking, Untried, Tried
  <2>8. NumberInv'
    BY <2>1, <2>3, <2>6 DEF NumberInv, Without, Last, Type, Untried, Tried
  <2>9. QED BY <2>4, <2>5, <2>7, <2>8
<1>19. CASE CreateReport
  BY <1>19 DEF CreateReport
<1>20. CASE AddAnswer
  <2>1. /\ pc = "answer" /\ pc' = "finish"
        /\ log' = Append(log, Event(sequence, "final_answer"))
        /\ sequence' = sequence /\ flow' = flow
    BY <1>20 DEF AddAnswer, AddEvent, Event
  <2>2. "final_answer" \in EventTypes /\ sequence \in Nat
    BY DEF EventTypes, TypeOK
  <2>3. /\ sequence = Len(log) + 1 /\ Without("final_answer", Len(log))
        /\ Without("error", Len(log)) /\ log # <<>>
        /\ Last \in Answered
    BY <2>1 DEF LastInv, NumberInv, CallsInv, Replying, Before, Asking, Invoking,
         Untried, Tried, Handling, Type
  <2>4. LogIsNumbered'
    BY <2>1, <2>2, <2>3, NumberFits DEF Type, Last
  <2>5. LogIsDialogue'
    BY <2>1, <2>2, <2>3, EventFits DEF Follows, Answered
  <2> HIDE DEF TypeOK, CallsInv, LastInv, NumberInv, LogIsNumbered, LogIsDialogue
  <2>6. /\ Len(log) \in Nat /\ Len(log') = Len(log) + 1 /\ log' # <<>>
        /\ log'[Len(log')].type = "final_answer"
        /\ \A i \in 1..Len(log) : log'[i].type = log[i].type
    BY <2>1, <2>2, LogGrows
  <2>7. LastInv'
    BY <2>1, <2>3, <2>6 DEF LastInv, Last, Type, Answered, Before, Asking,
         Invoking, Untried, Tried
  <2>8. NumberInv'
    BY <2>1, <2>3, <2>6 DEF NumberInv, Without, Last, Type, Untried, Tried
  <2>9. QED BY <2>4, <2>5, <2>7, <2>8
<1>21. CASE Finish
  BY <1>21 DEF Finish
<1>22. CASE AddError
  <2>1. /\ pc = "e_event" /\ pc' = "e_answer"
        /\ log' = Append(log, Event(sequence, "error"))
        /\ sequence' = sequence /\ flow' = flow
    BY <1>22 DEF AddError, AddEvent, Event
  <2>2. "error" \in EventTypes /\ sequence \in Nat
    BY DEF EventTypes, TypeOK
  <2>3. /\ log # <<>> /\ Without("error", Len(log)) /\ Last \in EventTypes \ {"error"}
        /\ \/ sequence = Len(log) + 1 /\ Without("final_answer", Len(log))
           \/ /\ sequence = Len(log) /\ Last = "final_answer"
              /\ Without("final_answer", Len(log) - 1)
    BY <2>1, LastIs DEF LastInv, NumberInv, CallsInv, Replying, Before, Asking,
         Invoking, Untried, Tried, Handling, Type
  <2>4. LogIsNumbered'
    <3>1. Len(log) \in 1..Len(log) /\ Len(log) \in Nat
      BY <2>3, LastIs
    <3>2. \/ sequence = Len(log) + 1 /\ Without("final_answer", Len(log))
          \/ sequence = Len(log) /\ \E j \in 1..Len(log) : Type(j) = "final_answer"
      BY <2>3, <3>1 DEF Last
    <3> HIDE DEF TypeOK, CallsInv, LastInv, NumberInv, LogIsNumbered, LogIsDialogue
    <3>3. QED BY <2>1, <2>2, <3>2, NumberFits
  <2>5. LogIsDialogue'
    BY <2>1, <2>2, <2>3, EventFits DEF Follows, Answered
  <2> HIDE DEF TypeOK, CallsInv, LastInv, NumberInv, LogIsNumbered, LogIsDialogue
  <2>6. /\ Len(log) \in Nat /\ Len(log') = Len(log) + 1 /\ log' # <<>>
        /\ log'[Len(log')].type = "error"
        /\ \A i \in 1..Len(log) : log'[i].type = log[i].type
    BY <2>1, <2>2, LogGrows
  <2>7. LastInv'
    BY <2>1, <2>3, <2>6 DEF LastInv, Last, Type, Answered, Before, Asking,
         Invoking, Untried, Tried
  <2>8. NumberInv'
    BY <2>1, <2>3, <2>6 DEF NumberInv, Without, Last, Type, Untried, Tried
  <2>9. QED BY <2>4, <2>5, <2>7, <2>8
<1>23. CASE AddErrorAnswer
  <2>1. /\ pc = "e_answer" /\ pc' = "e_finish"
        /\ log' = Append(log, Event(sequence + 1, "final_answer"))
        /\ sequence' = sequence /\ flow' = flow
    BY <1>23 DEF AddErrorAnswer, AddEvent, Event
  <2>2. "final_answer" \in EventTypes /\ sequence + 1 \in Nat
    BY DEF EventTypes, TypeOK
  <2>3. /\ log # <<>> /\ Last = "error"
        /\ \/ sequence = Len(log) /\ Without("final_answer", Len(log))
           \/ sequence = Len(log) - 1 /\ Len(log) > 1 /\ Type(Len(log) - 1) = "final_answer"
             /\ Without("final_answer", Len(log) - 2)
    BY <2>1 DEF LastInv, NumberInv, CallsInv, Replying, Before, Asking, Invoking,
         Untried, Tried, Handling, Type
  <2>4. LogIsNumbered'
    <3>1. Len(log) \in 1..Len(log) /\ Len(log) \in Nat
      BY <2>3, LastIs
    <3>2. \/ sequence + 1 = Len(log) + 1 /\ Without("final_answer", Len(log))
          \/ sequence + 1 = Len(log) /\ \E j \in 1..Len(log) : Type(j) = "final_answer"
      BY <2>3, <3>1 DEF Last
    <3> HIDE DEF TypeOK, CallsInv, LastInv, NumberInv, LogIsNumbered, LogIsDialogue
    <3>3. QED BY <2>1, <2>2, <3>2, NumberFits
  <2>5. LogIsDialogue'
    BY <2>1, <2>2, <2>3, EventFits DEF Follows, Answered
  <2> HIDE DEF TypeOK, CallsInv, LastInv, NumberInv, LogIsNumbered, LogIsDialogue
  <2>6. /\ Len(log) \in Nat /\ Len(log') = Len(log) + 1 /\ log' # <<>>
        /\ log'[Len(log')].type = "final_answer"
        /\ \A i \in 1..Len(log) : log'[i].type = log[i].type
    BY <2>1, <2>2, LogGrows
  <2>7. LastInv'
    BY <2>1, <2>3, <2>6 DEF LastInv, Last, Type, Answered, Before, Asking,
         Invoking, Untried, Tried
  <2>8. NumberInv'
    BY <2>1, <2>3, <2>6 DEF NumberInv, Without, Last, Type, Untried, Tried
  <2>9. QED BY <2>4, <2>5, <2>7, <2>8
<1>24. CASE FinishError
  BY <1>24 DEF FinishError
<1>29. CASE Return
  BY <1>29 DEF Return
<1>25. CASE Fault
  BY <1>25, RaiseFields DEF Fault
<1>26. CASE Crash
  BY <1>26 DEF Crash
<1>27. CASE UNCHANGED vars
  BY <1>27 DEF vars
<1>28. QED
  BY <1>1, <1>2, <1>3, <1>4, <1>5, <1>6, <1>7, <1>8, <1>9, <1>10, <1>11,
     <1>12, <1>13, <1>14, <1>15, <1>16, <1>17, <1>18, <1>19, <1>20, <1>21,
     <1>22, <1>23, <1>24, <1>25, <1>26, <1>27, <1>29 DEF Next, Proceed, Converse,
     Serve, Conclude

-----------------------------------------------------------------------------
\* The reports before one is created, and after.
LEMMA ReportsGrow ==
  ASSUME TypeOK, NEW of \in {"answer", "failure"},
         reports' = Append(reports, [evidence |-> refs, of |-> of])
  PROVE  /\ Len(reports) \in Nat /\ Len(reports') = Len(reports) + 1 /\ reports' # <<>>
         /\ reports'[Len(reports')].of = of
         /\ reports'[Len(reports')].evidence = refs
         /\ \A k \in 1..Len(reports) : reports'[k] = reports[k]
<1> DEFINE Reports == [evidence : Nat, of : {"answer", "failure"}]
           report == [evidence |-> refs, of |-> of]
<1>1. report \in Reports /\ report.of = of /\ report.evidence = refs
  BY DEF TypeOK
<1>2. reports \in Seq(Reports) /\ reports' = Append(reports, report)
  BY DEF TypeOK
<1> HIDE DEF Reports, report
<1>3. QED BY <1>1, <1>2

\* The evidence and the reports.
LEMMA EvidenceKept ==
  ASSUME TypeOK, CallsInv, LastInv, EvidenceInv, EvidenceIsAudited, [Next]_vars
  PROVE  EvidenceInv' /\ EvidenceIsAudited'
<1> USE DEF loop, evidence, permits, Goto, Leave
<1> USE DEF EvidenceInv, EvidenceIsAudited, LastInv, Last, Type, Answered, Before,
     PCs, Untried, Tried, Handling, Returning, Invoking, Asking, Replying, TypeOK, CallsInv
<1>1. CASE CreateDiagnosis
  BY <1>1 DEF CreateDiagnosis
<1>2. CASE MakeProvider
  BY <1>2 DEF MakeProvider
<1>3. CASE AddPlan
  BY <1>3 DEF AddPlan
<1>4. CASE ReadSettings
  BY <1>4 DEF ReadSettings
<1>5. CASE StartTurn
  BY <1>5, RaiseFields DEF StartTurn
<1>6. CASE Post
  BY <1>6, RaiseFields DEF Post
<1>7. CASE ReadReply
  BY <1>7 DEF ReadReply
<1>8. CASE ReadFinalReply
  BY <1>8 DEF ReadFinalReply
<1>9. CASE CallsServed
  BY <1>9 DEF CallsServed
<1>10. CASE UnknownTool
  BY <1>10, RaiseFields DEF UnknownTool
<1>11. CASE CallTool
  BY <1>11 DEF CallTool
<1>12. CASE AskForDocker
  BY <1>12 DEF AskForDocker
<1>13. CASE CreateApproval
  BY <1>13 DEF CreateApproval
<1>14. CASE AnnounceApproval
  BY <1>14 DEF AnnounceApproval
<1>15. CASE InvokeTool
  BY <1>15 DEF InvokeTool
<1>16. CASE StoreResult
  BY <1>16 DEF StoreResult
<1>17. CASE InsertAudit
  BY <1>17 DEF InsertAudit
<1>18. CASE AddResult
  BY <1>18 DEF AddResult
<1>19. CASE CreateReport
  BY <1>19, ReportsGrow DEF CreateReport
<1>20. CASE AddAnswer
  BY <1>20 DEF AddAnswer
<1>21. CASE Finish
  BY <1>21 DEF Finish
<1>22. CASE AddError
  BY <1>22 DEF AddError
<1>23. CASE AddErrorAnswer
  BY <1>23 DEF AddErrorAnswer
<1>24. CASE FinishError
  BY <1>24 DEF FinishError
<1>29. CASE Return
  BY <1>29 DEF Return
<1>25. CASE Fault
  <2>1. /\ pc' \in {"e_report", "done"} /\ (pc' = "e_report" => pc \in Tried)
        /\ invoked' = invoked /\ refs' = refs /\ audits' = audits
        /\ reports' = reports /\ log' = log
    BY <1>25, RaiseFields DEF Fault
  <2>2. EvidenceIsAudited'
    BY <2>1
  <2>3. CASE pc' = "done"
    BY <2>2, <2>3
  <2>4. CASE pc' = "e_report"
    <3>0. reports = <<>> \/ Len(reports) = 1
      BY <2>1, <2>4
    <3>1. Len(reports) <= 1
      BY <3>0
    <3>2. Last = "final_answer" => Len(reports) = 1
      BY <2>1, <2>4
    <3> HIDE DEF TypeOK, CallsInv, LastInv, EvidenceInv, EvidenceIsAudited
    <3>3. Len(reports') <= 1
      BY <2>1, <3>1
    <3>4. Last' = "final_answer" => Len(reports') = 1
      BY <2>1, <3>2
    <3>5. pc' \notin (Untried \cup Tried) /\ pc' \notin Handling \ {"e_report"}
      BY <2>4
    <3> HIDE DEF Untried, Tried, Handling
    <3>6. QED BY <2>2, <2>4, <3>3, <3>4, <3>5 DEF EvidenceInv
  <2>5. QED BY <2>1, <2>3, <2>4
<1>26. CASE Crash
  BY <1>26 DEF Crash
<1>27. CASE UNCHANGED vars
  BY <1>27 DEF vars
<1>28. QED
  BY <1>1, <1>2, <1>3, <1>4, <1>5, <1>6, <1>7, <1>8, <1>9, <1>10, <1>11,
     <1>12, <1>13, <1>14, <1>15, <1>16, <1>17, <1>18, <1>19, <1>20, <1>21,
     <1>22, <1>23, <1>24, <1>25, <1>26, <1>27, <1>29 DEF Next, Proceed, Converse,
     Serve, Conclude

\* The status and the reports of a session that ended.
LEMMA StatusKept ==
  ASSUME TypeOK, CallsInv, LastInv, NumberInv, StatusInv, EvidenceInv, StatusIsTrue,
         LastInv', [Next]_vars
  PROVE  StatusIsTrue'
<1> USE DEF loop, evidence, permits, Goto, Leave
<1> USE DEF StatusIsTrue, StatusInv, EvidenceInv, NumberInv,
     Without, Concluded, LastInv, Last, Type, Before, PCs, Untried, Tried,
     Handling, Returning, Invoking, Asking, TypeOK, CallsInv
<1>1. CASE CreateDiagnosis
  BY <1>1 DEF CreateDiagnosis
<1>2. CASE MakeProvider
  BY <1>2 DEF MakeProvider
<1>3. CASE AddPlan
  <2>1. /\ row' = row /\ outcome' = outcome /\ reports' = reports
        /\ pc \notin Returning \cup {"done"}
        /\ pc' \in {"settings", "calls"}
    BY <1>3 DEF AddPlan
  <2>2. row \in {"none", "running"} /\ outcome = "none"
    BY <2>1 DEF StatusInv
  <2>3. Last' # "final_answer"
    BY <2>1 DEF LastInv, Answered
  <2> HIDE DEF TypeOK, LastInv, NumberInv, EvidenceInv, Last
  <2>4. QED BY <2>1, <2>2, <2>3 DEF Last, Type
<1>4. CASE ReadSettings
  BY <1>4 DEF ReadSettings
<1>5. CASE StartTurn
  BY <1>5, RaiseFields DEF StartTurn
<1>6. CASE Post
  BY <1>6, RaiseFields DEF Post
<1>7. CASE ReadReply
  BY <1>7 DEF ReadReply
<1>8. CASE ReadFinalReply
  BY <1>8 DEF ReadFinalReply
<1>9. CASE CallsServed
  BY <1>9 DEF CallsServed
<1>10. CASE UnknownTool
  BY <1>10, RaiseFields DEF UnknownTool
<1>11. CASE CallTool
  <2>1. /\ row' = row /\ outcome' = outcome /\ reports' = reports
        /\ pc \notin Returning \cup {"done"}
        /\ pc' \in {"invoke", "approval"}
    BY <1>11 DEF CallTool
  <2>2. row \in {"none", "running"} /\ outcome = "none"
    BY <2>1 DEF StatusInv
  <2>3. Last' # "final_answer"
    BY <2>1 DEF LastInv, Answered
  <2> HIDE DEF TypeOK, LastInv, NumberInv, EvidenceInv, Last
  <2>4. QED BY <2>1, <2>2, <2>3 DEF Last, Type
<1>12. CASE AskForDocker
  BY <1>12 DEF AskForDocker
<1>13. CASE CreateApproval
  BY <1>13 DEF CreateApproval
<1>14. CASE AnnounceApproval
  <2>1. /\ row' = row /\ outcome' = outcome /\ reports' = reports
        /\ pc \notin Returning \cup {"done"}
        /\ pc' \in {"calls", "report"}
    BY <1>14 DEF AnnounceApproval
  <2>2. row \in {"none", "running"} /\ outcome = "none"
    BY <2>1 DEF StatusInv
  <2>3. Last' # "final_answer"
    BY <2>1 DEF LastInv, Answered
  <2> HIDE DEF TypeOK, LastInv, NumberInv, EvidenceInv, Last
  <2>4. QED BY <2>1, <2>2, <2>3 DEF Last, Type
<1>15. CASE InvokeTool
  BY <1>15 DEF InvokeTool
<1>16. CASE StoreResult
  BY <1>16 DEF StoreResult
<1>17. CASE InsertAudit
  BY <1>17 DEF InsertAudit
<1>18. CASE AddResult
  <2>1. /\ row' = row /\ outcome' = outcome /\ reports' = reports
        /\ pc \notin Returning \cup {"done"}
        /\ pc' \in {"calls"}
    BY <1>18 DEF AddResult
  <2>2. row \in {"none", "running"} /\ outcome = "none"
    BY <2>1 DEF StatusInv
  <2>3. Last' # "final_answer"
    BY <2>1 DEF LastInv, Answered
  <2> HIDE DEF TypeOK, LastInv, NumberInv, EvidenceInv, Last
  <2>4. QED BY <2>1, <2>2, <2>3 DEF Last, Type
<1>19. CASE CreateReport
  BY <1>19, ReportsGrow DEF CreateReport
<1>20. CASE AddAnswer
  <2>1. /\ row' = row /\ outcome' = outcome /\ reports' = reports
        /\ pc \notin Returning \cup {"done"}
        /\ pc' \in {"finish"} /\ pc = "answer"
    BY <1>20 DEF AddAnswer
  <2>2. row \in {"none", "running"} /\ outcome = "none"
    BY <2>1 DEF StatusInv
  <2>0. pc = "answer" => Len(reports) = 1
    BY DEF EvidenceInv
  <2> HIDE DEF TypeOK, LastInv, NumberInv, EvidenceInv, Last
  <2>3. reports # <<>>
    BY <2>0, <2>1
  <2>4. QED BY <2>1, <2>2, <2>3
<1>21. CASE Finish
  BY <1>21 DEF Finish
<1>22. CASE AddError
  BY <1>22 DEF AddError
<1>23. CASE AddErrorAnswer
  BY <1>23 DEF AddErrorAnswer
<1>24. CASE FinishError
  BY <1>24 DEF FinishError
<1>29. CASE Return
  BY <1>29 DEF Return
<1>25. CASE Fault
  BY <1>25, RaiseFields DEF Fault
<1>26. CASE Crash
  BY <1>26 DEF Crash
<1>27. CASE UNCHANGED vars
  BY <1>27 DEF vars
<1>28. QED
  BY <1>1, <1>2, <1>3, <1>4, <1>5, <1>6, <1>7, <1>8, <1>9, <1>10, <1>11,
     <1>12, <1>13, <1>14, <1>15, <1>16, <1>17, <1>18, <1>19, <1>20, <1>21,
     <1>22, <1>23, <1>24, <1>25, <1>26, <1>27, <1>29 DEF Next, Proceed, Converse,
     Serve, Conclude

-----------------------------------------------------------------------------
DiagnosisSafe == TypeOK /\ DiagnosisInv

\* Everything that is known at each place between two calls of
\* run_llm_diagnosis and run_mock_diagnosis.
THEOREM DiagnosisInvariant == Spec => []DiagnosisSafe
<1>1. Init => DiagnosisSafe
  <2>1. SUFFICES ASSUME Init PROVE DiagnosisSafe
    OBVIOUS
  <2> USE <2>1, ConstantsAssumption DEF Init
  <2>2. TypeOK /\ CallsInv /\ StatusInv /\ PermitInv /\ ApprovalsAreAnnounced
    BY DEF TypeOK, CallsInv, StatusInv, PermitInv, ApprovalsAreAnnounced, PCs,
         Untried, Tried, Handling, Invoking, Asking, Replying
  <2>3. LastInv /\ NumberInv /\ LogIsNumbered /\ LogIsDialogue
    BY DEF LastInv, NumberInv, LogIsNumbered, LogIsDialogue, Without, Before,
         Untried, Tried, Invoking, Asking
  <2>4. EvidenceInv /\ EvidenceIsAudited /\ StatusIsTrue
    BY DEF EvidenceInv, EvidenceIsAudited, StatusIsTrue, Concluded,
         Untried, Tried, Handling
  <2>5. PostsInv /\ PostsAreBounded
    BY Attempts DEF PostsInv, PostsAreBounded, Untried, Asking, Invoking
  <2>6. QED BY <2>2, <2>3, <2>4, <2>5 DEF DiagnosisSafe, DiagnosisInv
<1>2. DiagnosisSafe /\ [Next]_vars => DiagnosisSafe'
  BY StaysTyped, ApprovalsKept, PostsKept, LogKept, EvidenceKept, StatusKept
     DEF DiagnosisSafe, DiagnosisInv
<1>3. QED BY <1>1, <1>2, PTL DEF Spec

\* Every variable keeps the values the code can give it.
THEOREM TypeCorrect == Spec => []TypeOK
<1>1. DiagnosisSafe => TypeOK
  BY DEF DiagnosisSafe
<1>2. QED BY DiagnosisInvariant, <1>1, PTL

\* The log is numbered and reads as a dialogue, whichever call fails: add_event
\* and the two except clauses of run_llm_diagnosis.
THEOREM LogIsADialogue == Spec => []LogIsSound
<1>1. DiagnosisSafe => LogIsSound
  BY DEF DiagnosisSafe, DiagnosisInv, LogIsSound
<1>2. QED BY DiagnosisInvariant, <1>1, PTL

\* The stored status is the one returned, with the log and the reports that go
\* with it: finish_diagnosis and create_report.
THEOREM SessionIsTrue == Spec => []StatusIsTrue
<1>1. DiagnosisSafe => StatusIsTrue
  BY DEF DiagnosisSafe, DiagnosisInv
<1>2. QED BY DiagnosisInvariant, <1>1, PTL

\* A conclusion rests on audited tool runs only, and the log tells of every
\* approval but one: insert_audit and create_approval_request.
THEOREM EvidenceAndApprovals == Spec => []ActionsAreRecorded
<1>1. DiagnosisSafe => ActionsAreRecorded
  BY DEF DiagnosisSafe, DiagnosisInv, ActionsAreRecorded
<1>2. QED BY DiagnosisInvariant, <1>1, PTL

\* The provider is asked a bounded number of times: max_turns and the retries
\* of chat_completion.
THEOREM ProviderIsSpared == Spec => []PostsAreBounded
<1>1. DiagnosisSafe => PostsAreBounded
  BY DEF DiagnosisSafe, DiagnosisInv
<1>2. QED BY DiagnosisInvariant, <1>1, PTL
=============================================================================
