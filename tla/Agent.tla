------------------------------- MODULE Agent -------------------------------
(***************************************************************************)
(* The agent: a planner that turns a request into tool calls, and an       *)
(* orchestrator that runs them in order, stops before a step that needs    *)
(* review unless the request approves it, and keeps a log of every plan.   *)
(* Runs may share the memory and the tools.  What a tool returns is a      *)
(* choice: any status, data of any workspace, or an exception.             *)
(***************************************************************************)
EXTENDS Naturals, Sequences

CONSTANTS Runs,        \* the runs that are asked for
          Workspaces,
          Requests,    \* the requests, as the sets of keywords they contain
          Registered   \* the tools in the registry

VARIABLES runs,   \* what each run was asked, its outputs and its result
          plans   \* the memory: the plan of each run and its log

agentVars == << runs, plans >>

Tools == {"compare_documents", "generate_report", "extract_fields", "summarize_document", "search_documents"}
PlanStatuses == {"running", "succeeded", "failed", "needs_review"}
ToolStatuses == {"succeeded", "failed", "needs_review"}
Steps == {"step-1", "step-2"}

Call(step, tool, review) == [step |-> step, tool |-> tool, review |-> review]

\* The first keyword that applies decides; "report" adds a step to "compare".
PlanFor(request) ==
    IF "compare" \in request
    THEN << Call("step-1", "compare_documents", FALSE) >>
           \o IF "report" \in request THEN << Call("step-2", "generate_report", TRUE) >> ELSE << >>
    ELSE IF "extract" \in request THEN << Call("step-1", "extract_fields", TRUE) >>
    ELSE IF "report" \in request THEN << Call("step-1", "generate_report", TRUE) >>
    ELSE IF "summarize" \in request THEN << Call("step-1", "summarize_document", FALSE) >>
    ELSE << Call("step-1", "search_documents", FALSE) >>

NotAsked == [phase |-> "not asked"]
NoPlan == [status |-> "none"]

AgentInit == /\ runs = [r \in Runs |-> NotAsked]
             /\ plans = [r \in Runs |-> NoPlan]

\* run: plan the request and put the plan into the memory.
Start(r, w, request, approved) ==
    /\ runs[r] = NotAsked
    /\ runs' = [runs EXCEPT ![r] = [phase |-> "running", space |-> w, approved |-> approved, outputs |-> << >>]]
    /\ plans' = [plans EXCEPT ![r] = [space |-> w, status |-> "running", steps |-> PlanFor(request), log |-> << >>]]

Running(r) == runs[r].phase = "running"
Current(r) == plans[r].steps[Len(plans[r].log) + 1]
StepsLeft(r) == Len(plans[r].log) < Len(plans[r].steps)
Waits(r) == Current(r).review /\ Current(r).step \notin runs[r].approved

\* record_step: ran tells whether the tool was called, space whose data it returned.
Entry(r, status, ran, space) == [step |-> Current(r).step, status |-> status, ran |-> ran, space |-> space]

Record(r, entry, planStatus) ==
    plans' = [plans EXCEPT ![r].log = Append(@, entry), ![r].status = planStatus]
Answer(r, status) == runs' = [runs EXCEPT ![r].phase = status]

\* Mutant: the loop goes on to the next step.
AskForReviewAndGoOn(r) ==
    /\ Running(r)
    /\ StepsLeft(r)
    /\ Waits(r)
    /\ Record(r, Entry(r, "needs_review", FALSE, runs[r].space), "running")
    /\ UNCHANGED runs

\* A step that needs review and was not approved: its tool is not called.
AskForReview(r) ==
    /\ Running(r)
    /\ StepsLeft(r)
    /\ Waits(r)
    /\ Record(r, Entry(r, "needs_review", FALSE, runs[r].space), "needs_review")
    /\ Answer(r, "needs_review")

\* The tool is not registered, raises, or returns data of another workspace as
\* a success.
Fail(r, ran) ==
    /\ Record(r, Entry(r, "failed", ran, runs[r].space), "failed")
    /\ Answer(r, "failed")

\* Mutant: the scope of the result is not checked.
UseUnscoped(r, status, space) ==
    /\ Record(r, Entry(r, status, TRUE, space), IF status = "failed" THEN "failed" ELSE "running")
    /\ runs' = [runs EXCEPT ![r].outputs = Append(@, space),
                            ![r].phase = IF status = "failed" THEN "failed" ELSE @]

\* Mutant: a tool that asks for a review stops the plan.
UseStopsForReview(r, status, space) ==
    IF status = "succeeded" /\ space # runs[r].space THEN Fail(r, TRUE)
    ELSE /\ Record(r, Entry(r, status, TRUE, space), IF status = "succeeded" THEN "running" ELSE status)
         /\ runs' = [runs EXCEPT ![r].outputs = Append(@, space),
                                 ![r].phase = IF status = "succeeded" THEN @ ELSE status]

\* A result: its output is kept whatever its status, and only a failure stops
\* the plan.  The scope of what is not a success is not looked at.
Use(r, status, space) ==
    IF status = "succeeded" /\ space # runs[r].space THEN Fail(r, TRUE)
    ELSE /\ Record(r, Entry(r, status, TRUE, space), IF status = "failed" THEN "failed" ELSE "running")
         /\ runs' = [runs EXCEPT ![r].outputs = Append(@, space),
                                 ![r].phase = IF status = "failed" THEN "failed" ELSE @]

\* Mutant: an approval of any step approves the next one that waits.
RunToolAnyApproval(r) ==
    /\ Running(r)
    /\ StepsLeft(r)
    /\ ~Waits(r) \/ runs[r].approved # {}
    /\ \E status \in ToolStatuses, space \in Workspaces : Use(r, status, space)

RunTool(r) ==
    /\ Running(r)
    /\ StepsLeft(r)
    /\ ~Waits(r)
    /\ \/ Fail(r, Current(r).tool \in Registered)
       \/ /\ Current(r).tool \in Registered
          /\ \E status \in ToolStatuses, space \in Workspaces : Use(r, status, space)

\* Every step is done.
Succeed(r) ==
    /\ Running(r)
    /\ ~StepsLeft(r)
    /\ plans' = [plans EXCEPT ![r].status = "succeeded"]
    /\ Answer(r, "succeeded")

AgentNext ==
    \E r \in Runs :
        \/ \E w \in Workspaces, request \in Requests, approved \in SUBSET Steps : Start(r, w, request, approved)
        \/ AskForReview(r)
        \/ RunTool(r)
        \/ Succeed(r)

AgentSpec == AgentInit /\ [][AgentNext]_agentVars

-----------------------------------------------------------------------------
(* Properties *)

Asked(r) == runs[r].phase # "not asked"

AgentTypeOK ==
    \A r \in Runs :
        /\ runs[r].phase \in PlanStatuses \cup {"not asked"}
        /\ Asked(r) => plans[r].status \in PlanStatuses /\ Len(plans[r].log) <= Len(plans[r].steps)

\* A tool whose step needs review ran only in a plan that was asked for with
\* that very step approved.
ReviewedBeforeRun ==
    \A r \in Runs : Asked(r) =>
        \A n \in DOMAIN plans[r].log :
            plans[r].log[n].ran /\ plans[r].steps[n].review => plans[r].steps[n].step \in runs[r].approved

\* Step n of the plan waits for a review that the request does not bring.
Held(r, n) == plans[r].steps[n].review /\ plans[r].steps[n].step \notin runs[r].approved

\* The log, read with the approvals, tells the result that the plan keeps and
\* the caller gets: its entries are the first steps in order; failed means that
\* the last of them failed, needs_review that the last one was held for its
\* review, succeeded that every step is logged and none failed or was held.
\* That a tool itself answers needs_review is logged and stops nothing: such a
\* plan ends succeeded even if that entry is its last. What a step that
\* succeeded returned is data of the workspace the run is for.
LogTellsResult ==
    \A r \in Runs : Asked(r) =>
        LET log == plans[r].log
            failed == \E n \in DOMAIN log : log[n].status = "failed"
            held == \E n \in DOMAIN log : Held(r, n)
        IN  /\ plans[r].status = runs[r].phase
            /\ \A n \in DOMAIN log : log[n].step = plans[r].steps[n].step
            /\ \A n \in DOMAIN log : log[n].status = "succeeded" => log[n].space = plans[r].space
            /\ \A n \in DOMAIN log : log[n].status = "failed" \/ Held(r, n) => n = Len(log)
            /\ \A n \in DOMAIN log : Held(r, n) => log[n].status = "needs_review"
            /\ plans[r].status = "failed" <=> failed
            /\ plans[r].status = "needs_review" <=> held
            /\ plans[r].status = "succeeded" => Len(log) = Len(plans[r].steps)

=============================================================================
