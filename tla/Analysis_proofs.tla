---------------------------- MODULE Analysis_proofs ----------------------------
(***************************************************************************)
(* Proofs about modules Agent and Analysis, for any runs, workspaces,      *)
(* requests and tools of the agent and for tasks of any size: first the    *)
(* agent, then what the algorithms compute, then what that says of the     *)
(* tasks that Analysis is given.  What a sequence of any length is made    *)
(* into is proved by induction, which is here that a set of numbers has a  *)
(* least element; a recursion is followed through the function that solves *)
(* it (IterationExists).                                                   *)
(***************************************************************************)
EXTENDS Analysis, FiniteSetTheorems, WellFoundedInduction, TLAPS

-----------------------------------------------------------------------------
(* The inductive invariant: a plan in the memory and the run it belongs to *)
(* fit, entry by entry.                                                    *)

RunRecords  == [phase : PlanStatuses, space : Workspaces, approved : SUBSET Steps, outputs : Seq(Workspaces)]
Calls       == [step : Steps, tool : Tools, review : BOOLEAN]
Entries     == [step : Steps, status : ToolStatuses, ran : BOOLEAN, space : Workspaces]
PlanRecords == [space : Workspaces, status : PlanStatuses, steps : Seq(Calls), log : Seq(Entries)]

(* Step n waits for a review that the request of the run does not bring.   *)
Waited(plan, run, n) == plan.steps[n].review /\ plan.steps[n].step \notin run.approved

(* An entry is about its step, respects the review of it and the scope of  *)
(* the workspace, and ends the plan if its tool failed or was not called.  *)
EntryFits(plan, run, n) ==
    LET entry == plan.log[n] IN
    /\ entry.step = plan.steps[n].step
    /\ entry.ran /\ plan.steps[n].review => plan.steps[n].step \in run.approved
    /\ entry.status = "succeeded" => entry.space = plan.space
    /\ entry.status = "failed" => n = Len(plan.log) /\ plan.status = "failed"
    /\ Waited(plan, run, n) => entry.status = "needs_review" /\ n = Len(plan.log) /\ plan.status = "needs_review"

(* A status is that of the last entry, or of a step that waits, or the log *)
(* is complete.                                                            *)
StatusFits(plan, run) ==
    LET last == plan.log[Len(plan.log)] IN
    /\ plan.status = "failed" => plan.log # << >> /\ last.status = "failed"
    /\ plan.status = "needs_review" => plan.log # << >> /\ Waited(plan, run, Len(plan.log))
    /\ plan.status = "succeeded" => Len(plan.log) = Len(plan.steps)

Fits(plan, run) ==
    /\ plan \in PlanRecords
    /\ run \in RunRecords
    /\ plan.space = run.space
    /\ plan.status = run.phase
    /\ Len(plan.log) <= Len(plan.steps)
    /\ \A n \in 1..Len(plan.log) : EntryFits(plan, run, n)
    /\ StatusFits(plan, run)

IInv ==
    /\ runs \in [Runs -> {NotAsked} \cup RunRecords]
    /\ plans \in [Runs -> {NoPlan} \cup PlanRecords]
    /\ \A r \in Runs : runs[r] = NotAsked \/ Fits(plans[r], runs[r])

-----------------------------------------------------------------------------
(* A new plan fits the run it is made for.                                 *)
LEMMA NewPlanFits ==
    ASSUME NEW w \in Workspaces, NEW request, NEW approved \in SUBSET Steps
    PROVE  Fits([space |-> w, status |-> "running", steps |-> PlanFor(request), log |-> << >>],
                [phase |-> "running", space |-> w, approved |-> approved, outputs |-> << >>])
<1>1. \A step \in Steps, tool \in Tools, review \in BOOLEAN : << Call(step, tool, review) >> \in Seq(Calls)
  BY DEF Call, Calls
<1>2. PlanFor(request) \in Seq(Calls)
  <2>1. \A a, b \in Seq(Calls) : a \o b \in Seq(Calls)
    OBVIOUS
  <2>2. << >> \in Seq(Calls)
    OBVIOUS
  <2>3. /\ << Call("step-1", "compare_documents", FALSE) >> \in Seq(Calls)
        /\ << Call("step-2", "generate_report", TRUE) >> \in Seq(Calls)
        /\ << Call("step-1", "extract_fields", TRUE) >> \in Seq(Calls)
        /\ << Call("step-1", "generate_report", TRUE) >> \in Seq(Calls)
        /\ << Call("step-1", "summarize_document", FALSE) >> \in Seq(Calls)
        /\ << Call("step-1", "search_documents", FALSE) >> \in Seq(Calls)
    BY <1>1 DEF Steps, Tools
  <2> QED BY <2>1, <2>2, <2>3 DEF PlanFor
<1> DEFINE plan == [space |-> w, status |-> "running", steps |-> PlanFor(request), log |-> << >>]
           run == [phase |-> "running", space |-> w, approved |-> approved, outputs |-> << >>]
<1>3. plan \in PlanRecords /\ run \in RunRecords
  BY <1>2 DEF PlanRecords, RunRecords, PlanStatuses
<1>4. Len(plan.log) = 0 /\ Len(plan.steps) \in Nat
  BY <1>2
<1>5. StatusFits(plan, run)
  BY DEF StatusFits
<1>6. plan.space = run.space /\ plan.status = run.phase
  OBVIOUS
<1> HIDE DEF plan, run
<1>7. Fits(plan, run)
  BY <1>3, <1>4, <1>5, <1>6 DEF Fits
<1> QED BY <1>7 DEF plan, run

(* An entry that is right about the next step keeps a running plan fitting. *)
LEMMA RecordedFits ==
    ASSUME NEW plan, NEW run, Fits(plan, run), plan.status = "running",
           Len(plan.log) < Len(plan.steps),
           NEW entry \in Entries, NEW status \in {"running", "failed", "needs_review"},
           NEW after \in RunRecords, after.space = run.space, after.approved = run.approved, after.phase = status,
           entry.step = plan.steps[Len(plan.log) + 1].step,
           entry.ran /\ plan.steps[Len(plan.log) + 1].review => entry.step \in run.approved,
           entry.status = "succeeded" => entry.space = plan.space,
           entry.status = "failed" <=> status = "failed",
           Waited(plan, run, Len(plan.log) + 1) <=> status = "needs_review",
           status = "needs_review" => entry.status = "needs_review",
           NEW new, new = [plan EXCEPT !.log = Append(@, entry), !.status = status]
    PROVE  Fits(new, after)
<1> DEFINE k == Len(plan.log) + 1
<1>1. /\ plan \in PlanRecords /\ plan.log \in Seq(Entries) /\ plan.steps \in Seq(Calls)
      /\ Len(plan.log) \in Nat /\ Len(plan.steps) \in Nat
  BY DEF Fits, PlanRecords
<1>2. /\ new.log = Append(plan.log, entry) /\ new.status = status
      /\ new.steps = plan.steps /\ new.space = plan.space
  BY <1>1 DEF PlanRecords
<1>3. new.log \in Seq(Entries) /\ Len(new.log) = k /\ new.log[k] = entry
  BY <1>1, <1>2
<1>4. \A n \in 1..Len(plan.log) : new.log[n] = plan.log[n]
  BY <1>1, <1>2
<1>5. new \in PlanRecords
  BY <1>1, <1>3 DEF PlanRecords, PlanStatuses
<1>6. ASSUME NEW n \in 1..k PROVE EntryFits(new, after, n)
  <2>1. CASE n = k
    BY <2>1, <1>2, <1>3 DEF EntryFits, Waited
  <2>2. CASE n # k
    <3>1. n \in 1..Len(plan.log)
      BY <2>2, <1>1
    <3>2. EntryFits(plan, run, n)
      BY <3>1 DEF Fits
    <3>3. plan.log[n].status # "failed" /\ ~Waited(plan, run, n)
      BY <3>2 DEF EntryFits
    <3>4. ~Waited(new, after, n)
      BY <3>3, <1>2 DEF Waited
    <3> QED BY <3>1, <3>2, <3>3, <3>4, <1>2, <1>4 DEF EntryFits
  <2> QED BY <2>1, <2>2
<1>7. StatusFits(new, after)
  <2>1. new.log # << >>
    <3>1. Len(new.log) # 0
      BY <1>3, <1>1
    <3> QED BY <3>1
  <2>2. status = "needs_review" => Waited(new, after, Len(new.log))
    BY <1>2, <1>3 DEF Waited
  <2> QED BY <2>1, <2>2, <1>2, <1>3 DEF StatusFits
<1> QED BY <1>1, <1>2, <1>3, <1>5, <1>6, <1>7 DEF Fits

-----------------------------------------------------------------------------
(* One run's step leaves the others alone. *)
LEMMA OneRunSteps ==
    ASSUME IInv, NEW r \in Runs, NEW plan, NEW run, Fits(plan, run),
           runs' = [runs EXCEPT ![r] = run], plans' = [plans EXCEPT ![r] = plan]
    PROVE  IInv'
<1>1. plan \in PlanRecords /\ run \in RunRecords
  BY DEF Fits
<1>2. /\ runs' \in [Runs -> {NotAsked} \cup RunRecords]
      /\ plans' \in [Runs -> {NoPlan} \cup PlanRecords]
  BY <1>1 DEF IInv
<1>3. \A s \in Runs : runs'[s] = NotAsked \/ Fits(plans'[s], runs'[s])
  BY DEF IInv
<1> QED BY <1>2, <1>3 DEF IInv

LEMMA InitInv == AgentInit => IInv
  BY DEF AgentInit, IInv

LEMMA RunningFits ==
    ASSUME IInv, NEW r \in Runs, Running(r)
    PROVE  /\ Fits(plans[r], runs[r]) /\ plans[r].status = "running" /\ runs[r] \in RunRecords
           /\ plans[r] \in PlanRecords /\ runs[r].phase = "running"
<1>1. NotAsked.phase = "not asked" /\ runs[r].phase = "running"
  BY DEF Running, NotAsked
<1>2. runs[r] # NotAsked
  BY <1>1
<1> QED BY <1>2 DEF IInv, Fits, Running

(* Recording an entry about the current step of a running plan.            *)
LEMMA RecordKeepsInv ==
    ASSUME IInv, NEW r \in Runs, Running(r), StepsLeft(r),
           NEW entry \in Entries, NEW status \in {"running", "failed", "needs_review"},
           NEW after \in RunRecords, runs' = [runs EXCEPT ![r] = after],
           after.space = runs[r].space, after.approved = runs[r].approved, after.phase = status,
           Record(r, entry, status),
           entry.step = Current(r).step,
           entry.ran => ~Waits(r),
           entry.status = "succeeded" => entry.space = runs[r].space,
           entry.status = "failed" <=> status = "failed",
           Waits(r) <=> status = "needs_review",
           status = "needs_review" => entry.status = "needs_review"
    PROVE  IInv'
<1> DEFINE new == [plans[r] EXCEPT !.log = Append(@, entry), !.status = status]
<1>1. Fits(plans[r], runs[r]) /\ plans[r].status = "running" /\ plans[r].space = runs[r].space
  BY RunningFits DEF Fits
<1>2. Fits(new, after)
  <2>1. Len(plans[r].log) < Len(plans[r].steps)
    BY DEF StepsLeft
  <2>2. entry.ran /\ plans[r].steps[Len(plans[r].log) + 1].review => entry.step \in runs[r].approved
    BY DEF Waits, Current
  <2>3. entry.step = plans[r].steps[Len(plans[r].log) + 1].step
    BY DEF Current
  <2>4. new = [plans[r] EXCEPT !.log = Append(@, entry), !.status = status]
    OBVIOUS
  <2>5. entry.status = "succeeded" => entry.space = plans[r].space
    BY <1>1
  <2>6. Waited(plans[r], runs[r], Len(plans[r].log) + 1) <=> status = "needs_review"
    BY DEF Waits, Current, Waited
  <2> HIDE DEF new
  <2> QED BY <1>1, <2>1, <2>2, <2>3, <2>4, <2>5, <2>6, RecordedFits
<1>3. plans' = [plans EXCEPT ![r] = new]
  BY DEF Record, IInv
<1> HIDE DEF new
<1> QED BY <1>2, <1>3, OneRunSteps

(* The current step is one of the plan's calls.                            *)
LEMMA CurrentCall ==
    ASSUME IInv, NEW r \in Runs, Running(r), StepsLeft(r)
    PROVE  Current(r) \in Calls
<1>1. plans[r].steps \in Seq(Calls) /\ plans[r].log \in Seq(Entries) /\ Len(plans[r].log) < Len(plans[r].steps)
  BY RunningFits DEF PlanRecords, StepsLeft
<1>2. Len(plans[r].log) + 1 \in 1..Len(plans[r].steps)
  BY <1>1
<1> QED BY <1>1, <1>2 DEF Current

LEMMA EntryTyped ==
    ASSUME IInv, NEW r \in Runs, Running(r), StepsLeft(r),
           NEW status \in ToolStatuses, NEW ran \in BOOLEAN, NEW space \in Workspaces
    PROVE  /\ Entry(r, status, ran, space) \in Entries
           /\ Entry(r, status, ran, space).step = Current(r).step
           /\ Entry(r, status, ran, space).status = status
           /\ Entry(r, status, ran, space).ran = ran
           /\ Entry(r, status, ran, space).space = space
<1>1. Current(r).step \in Steps
  BY CurrentCall DEF Calls
<1> QED BY <1>1 DEF Entry, Entries

-----------------------------------------------------------------------------
(* One lemma for each way a step ends.                                     *)
LEMMA StartKeepsInv ==
    ASSUME IInv, NEW r \in Runs, NEW w \in Workspaces, NEW request, NEW approved \in SUBSET Steps,
           Start(r, w, request, approved)
    PROVE  IInv'
BY NewPlanFits, OneRunSteps DEF Start

LEMMA AskForReviewKeepsInv ==
    ASSUME IInv, NEW r \in Runs, AskForReview(r)
    PROVE  IInv'
<1> DEFINE entry == Entry(r, "needs_review", FALSE, runs[r].space)
           after == [runs[r] EXCEPT !.phase = "needs_review"]
<1>1. Running(r) /\ StepsLeft(r) /\ Waits(r) /\ Record(r, entry, "needs_review") /\ Answer(r, "needs_review")
  BY DEF AskForReview
<1>2. runs[r] \in RunRecords /\ runs[r].space \in Workspaces
  BY <1>1, RunningFits DEF RunRecords
<1>3. /\ entry \in Entries /\ entry.step = Current(r).step /\ entry.status = "needs_review"
      /\ entry.ran = FALSE /\ entry.space = runs[r].space
  <2>1. Current(r).step \in Steps
    BY <1>1, CurrentCall DEF Calls
  <2> QED BY <1>2, <2>1 DEF Entry, Entries, ToolStatuses
<1>4. /\ after \in RunRecords /\ after.space = runs[r].space /\ after.approved = runs[r].approved
      /\ after.phase = "needs_review"
  BY <1>2 DEF RunRecords, PlanStatuses
<1>5. runs' = [runs EXCEPT ![r] = after]
  BY <1>1 DEF Answer
<1> HIDE DEF entry, after
<1> QED BY <1>1, <1>3, <1>4, <1>5, RecordKeepsInv

LEMMA FailKeepsInv ==
    ASSUME IInv, NEW r \in Runs, NEW ran \in BOOLEAN, Running(r), StepsLeft(r), ~Waits(r), Fail(r, ran)
    PROVE  IInv'
<1> DEFINE entry == Entry(r, "failed", ran, runs[r].space)
           after == [runs[r] EXCEPT !.phase = "failed"]
<1>1. Record(r, entry, "failed") /\ Answer(r, "failed")
  BY DEF Fail
<1>2. runs[r] \in RunRecords /\ runs[r].space \in Workspaces
  BY RunningFits DEF RunRecords
<1>3. /\ entry \in Entries /\ entry.step = Current(r).step /\ entry.status = "failed"
      /\ entry.ran = ran /\ entry.space = runs[r].space
  BY <1>2, EntryTyped DEF ToolStatuses
<1>4. /\ after \in RunRecords /\ after.space = runs[r].space /\ after.approved = runs[r].approved
      /\ after.phase = "failed"
  BY <1>2 DEF RunRecords, PlanStatuses
<1>5. runs' = [runs EXCEPT ![r] = after]
  BY <1>1 DEF Answer
<1> HIDE DEF entry, after
<1> QED BY <1>1, <1>3, <1>4, <1>5, RecordKeepsInv

LEMMA UseKeepsInv ==
    ASSUME IInv, NEW r \in Runs, Running(r), StepsLeft(r), ~Waits(r),
           NEW status \in ToolStatuses, NEW space \in Workspaces, Use(r, status, space)
    PROVE  IInv'
<1>1. CASE status = "succeeded" /\ space # runs[r].space
  BY <1>1, FailKeepsInv DEF Use
<1>2. CASE ~(status = "succeeded" /\ space # runs[r].space)
  <2> DEFINE entry == Entry(r, status, TRUE, space)
             planStatus == IF status = "failed" THEN "failed" ELSE "running"
             after == [runs[r] EXCEPT !.outputs = Append(@, space), !.phase = planStatus]
  <2>1. /\ Record(r, entry, planStatus)
        /\ runs' = [runs EXCEPT ![r].outputs = Append(@, space), ![r].phase = IF status = "failed" THEN "failed" ELSE @]
    BY <1>2 DEF Use
  <2>2. /\ runs[r] \in RunRecords /\ runs[r].outputs \in Seq(Workspaces) /\ runs[r].phase = "running"
        /\ r \in DOMAIN runs
    BY RunningFits DEF RunRecords, IInv
  <2>3. /\ entry \in Entries /\ entry.step = Current(r).step /\ entry.status = status
        /\ entry.ran = TRUE /\ entry.space = space
    <3>1. Current(r).step \in Steps
      BY CurrentCall DEF Calls
    <3> QED BY <3>1 DEF Entry, Entries
  <2>4. planStatus \in {"running", "failed", "needs_review"} /\ planStatus \in PlanStatuses
        /\ (planStatus = "failed" <=> status = "failed") /\ planStatus # "needs_review"
    BY DEF PlanStatuses
  <2>5. Append(runs[r].outputs, space) \in Seq(Workspaces)
    BY <2>2
  <2>6. /\ after \in RunRecords /\ after.space = runs[r].space /\ after.approved = runs[r].approved
        /\ after.phase = planStatus
    <3> HIDE DEF planStatus
    <3> QED BY <2>2, <2>4, <2>5 DEF RunRecords
  <2>7. runs' = [runs EXCEPT ![r] = after]
    BY <2>1, <2>2
  <2> HIDE DEF entry, planStatus, after
  <2> QED BY <1>2, <2>1, <2>3, <2>4, <2>6, <2>7, RecordKeepsInv
<1> QED BY <1>1, <1>2

LEMMA SucceedKeepsInv ==
    ASSUME IInv, NEW r \in Runs, Succeed(r)
    PROVE  IInv'
<1> DEFINE plan == [plans[r] EXCEPT !.status = "succeeded"]
           run == [runs[r] EXCEPT !.phase = "succeeded"]
<1>1. Running(r) /\ Fits(plans[r], runs[r]) /\ plans[r].status = "running"
  BY RunningFits DEF Succeed
<1>2. /\ plan \in PlanRecords /\ run \in RunRecords /\ plan.space = run.space
      /\ plan.status = "succeeded" /\ run.phase = "succeeded" /\ run.approved = runs[r].approved
      /\ plan.log = plans[r].log /\ plan.steps = plans[r].steps /\ plan.space = plans[r].space
  BY <1>1 DEF Fits, PlanRecords, RunRecords, PlanStatuses
<1>3. plans' = [plans EXCEPT ![r] = plan] /\ runs' = [runs EXCEPT ![r] = run]
  BY DEF Succeed, Answer
<1>4. Len(plan.log) \in Nat /\ Len(plan.steps) \in Nat
  BY <1>2 DEF PlanRecords
<1>5. ~(Len(plan.log) < Len(plan.steps)) /\ Len(plan.log) <= Len(plan.steps)
  BY <1>1, <1>2 DEF Succeed, StepsLeft, Fits
<1> HIDE DEF plan, run
<1>6. \A n \in 1..Len(plan.log) : EntryFits(plan, run, n)
  BY <1>1, <1>2 DEF Fits, EntryFits, Waited
<1>7. StatusFits(plan, run)
  BY <1>2, <1>4, <1>5 DEF StatusFits
<1>8. Fits(plan, run)
  BY <1>2, <1>5, <1>6, <1>7 DEF Fits
<1> QED BY <1>3, <1>8, OneRunSteps

-----------------------------------------------------------------------------
(* Every step of the agent keeps the invariant.                            *)
LEMMA NextInv == IInv /\ [AgentNext]_agentVars => IInv'
<1> SUFFICES ASSUME IInv, [AgentNext]_agentVars PROVE IInv'
  OBVIOUS
<1>1. CASE UNCHANGED agentVars
  BY <1>1 DEF agentVars, IInv
<1>2. CASE AgentNext
  <2> PICK r \in Runs :
        \/ \E w \in Workspaces, request \in Requests, approved \in SUBSET Steps : Start(r, w, request, approved)
        \/ AskForReview(r)
        \/ RunTool(r)
        \/ Succeed(r)
    BY <1>2 DEF AgentNext
  <2>1. CASE \E w \in Workspaces, request \in Requests, approved \in SUBSET Steps : Start(r, w, request, approved)
    BY <2>1, StartKeepsInv
  <2>2. CASE AskForReview(r)
    BY <2>2, AskForReviewKeepsInv
  <2>3. CASE RunTool(r)
    <3>1. Running(r) /\ StepsLeft(r) /\ ~Waits(r)
      BY <2>3 DEF RunTool
    <3>2. CASE Fail(r, Current(r).tool \in Registered)
      <4>1. (Current(r).tool \in Registered) \in BOOLEAN
        OBVIOUS
      <4> DEFINE called == Current(r).tool \in Registered
      <4>2. called \in BOOLEAN /\ Fail(r, called)
        BY <3>2, <4>1
      <4> HIDE DEF called
      <4> QED BY <3>1, <4>2, FailKeepsInv
    <3>3. CASE \E status \in ToolStatuses, space \in Workspaces : Use(r, status, space)
      BY <3>1, <3>3, UseKeepsInv
    <3> QED BY <2>3, <3>2, <3>3 DEF RunTool
  <2>4. CASE Succeed(r)
    BY <2>4, SucceedKeepsInv
  <2> QED BY <2>1, <2>2, <2>3, <2>4
<1> QED BY <1>1, <1>2

LEMMA AlwaysFits == AgentSpec => []IInv
BY InitInv, NextInv, PTL DEF AgentSpec

LEMMA AskedFits ==
    ASSUME IInv, NEW r \in Runs, Asked(r)
    PROVE  Fits(plans[r], runs[r]) /\ DOMAIN plans[r].log = 1..Len(plans[r].log)
<1>1. NotAsked.phase = "not asked"
  BY DEF NotAsked
<1>2. runs[r] # NotAsked
  BY <1>1 DEF Asked
<1>3. Fits(plans[r], runs[r])
  BY <1>2 DEF IInv
<1> QED BY <1>3 DEF Fits, PlanRecords

(* A tool whose step needs review runs only if the request approved that   *)
(* very step (app/agent/orchestrator.py, run), whatever the tools return.  *)
THEOREM NoUnapprovedTool == AgentSpec => []ReviewedBeforeRun
<1>1. IInv => ReviewedBeforeRun
  BY AskedFits DEF ReviewedBeforeRun, Fits, EntryFits
<1> QED BY <1>1, AlwaysFits, PTL

(* The status a plan keeps is the one its caller gets, and the log, read   *)
(* with the approvals, tells it: failed if and only if an entry failed,    *)
(* needs_review if and only if a step was held for its review, succeeded   *)
(* only if every step is logged - with whatever their tools answered short *)
(* of a failure.  What a successful step returned is the run's workspace's *)
(* (app/agent/orchestrator.py, run; app/agent/memory.py, record_step).     *)
THEOREM LogIsTheStory == AgentSpec => []LogTellsResult
<1>1. ASSUME IInv PROVE LogTellsResult
  <2> SUFFICES ASSUME NEW r \in Runs, Asked(r)
               PROVE  LET log == plans[r].log
                          failed == \E n \in DOMAIN log : log[n].status = "failed"
                          held == \E n \in DOMAIN log : Held(r, n)
                      IN  /\ plans[r].status = runs[r].phase
                          /\ \A n \in DOMAIN log : log[n].step = plans[r].steps[n].step
                          /\ \A n \in DOMAIN log : log[n].status = "succeeded" => log[n].space = plans[r].space
                          /\ \A n \in DOMAIN log : log[n].status = "failed" \/ Held(r, n) => n = Len(log)
                          /\ \A n \in DOMAIN log : Held(r, n) => log[n].status = "needs_review"
                          /\ plans[r].status = "failed" <=> failed
                          /\ plans[r].status = "needs_review" <=> held
                          /\ plans[r].status = "succeeded" => Len(log) = Len(plans[r].steps)
    BY DEF LogTellsResult
  <2>1. /\ Fits(plans[r], runs[r]) /\ DOMAIN plans[r].log = 1..Len(plans[r].log)
        /\ \A n \in DOMAIN plans[r].log : EntryFits(plans[r], runs[r], n)
        /\ StatusFits(plans[r], runs[r])
    BY <1>1, AskedFits DEF Fits
  <2>2. plans[r].log # << >> => Len(plans[r].log) \in DOMAIN plans[r].log
    <3>1. plans[r].log \in Seq(Entries)
      BY <2>1 DEF Fits, PlanRecords
    <3> QED BY <2>1, <3>1
  <2>3. plans[r].status = runs[r].phase
    BY <2>1 DEF Fits
  <2>4. \A n : Held(r, n) <=> Waited(plans[r], runs[r], n)
    BY DEF Held, Waited
  <2> QED BY <2>1, <2>2, <2>3, <2>4 DEF EntryFits, StatusFits
<1> QED BY <1>1, AlwaysFits, PTL

(* Every status is one the callers know, and no log outgrows its plan.     *)
THEOREM AgentTypeCorrect == AgentSpec => []AgentTypeOK
<1>1. IInv => AgentTypeOK
  BY AskedFits DEF AgentTypeOK, Fits, PlanRecords, RunRecords, IInv, Asked
<1> QED BY <1>1, AlwaysFits, PTL

-----------------------------------------------------------------------------
(* Numbers and sequences                                                   *)

LEMMA LeastNatural ==
    ASSUME NEW T, T \subseteq Nat, T # {}
    PROVE  \E m \in T : \A k \in T : m <= k
<1>1. PICK m \in T : \A k \in T : ~(<< k, m >> \in OpToRel(<, Nat))
  BY WFMin, NatLessThanWellFounded
<1>2. \A k \in T : ~(k < m)
  BY <1>1 DEF OpToRel
<1> QED
  BY <1>2

LEMMA Induction ==
    ASSUME NEW T, 0 \in T, \A n \in Nat : n \in T => n + 1 \in T
    PROVE  \A n \in Nat : n \in T
<1> SUFFICES ASSUME NEW n \in Nat, n \notin T
             PROVE  FALSE
  OBVIOUS
<1> DEFINE Outside == {k \in Nat : k \notin T}
<1>1. PICK m \in Outside : \A k \in Outside : m <= k
  BY LeastNatural
<1>2. m # 0 /\ m \in Nat /\ m \notin T
  BY <1>1
<1>3. m - 1 \in Nat /\ m - 1 \notin Outside
  BY <1>1, <1>2
<1> QED
  BY <1>2, <1>3

LEMMA MinIs ==
    ASSUME NEW S, S \subseteq Nat, S # {}
    PROVE  Min(S) \in S /\ \A k \in S : Min(S) <= k
BY LeastNatural DEF Min

\* A recursion that says how to go from one value to the next has a solution.
Iterates(f, base, next, n, S) ==
    f \in [0..n -> S] /\ f[0] = base /\ \A i \in 1..n : f[i] = next[i][f[i - 1]]

LEMMA IterationExists ==
    ASSUME NEW S, NEW base \in S, NEW n \in Nat, NEW next \in [1..n -> [S -> S]]
    PROVE  \E f : Iterates(f, base, next, n, S)
<1> DEFINE solved(m) == \E f \in [0..m -> S] : f[0] = base /\ \A i \in 1..m : f[i] = next[i][f[i - 1]]
           T == {m \in Nat : m <= n => solved(m)}
<1>1. 0 \in T
  <2>1. [i \in 0..0 |-> base] \in [0..0 -> S]
    OBVIOUS
  <2>2. [i \in 0..0 |-> base][0] = base /\ \A i \in 1..0 : FALSE
    OBVIOUS
  <2>3. solved(0)
    BY <2>1, <2>2
  <2> QED
    BY <2>3
<1>2. ASSUME NEW m \in Nat, m \in T
      PROVE  m + 1 \in T
  <2> SUFFICES ASSUME m + 1 <= n
               PROVE  solved(m + 1)
    OBVIOUS
  <2>1. PICK f \in [0..m -> S] : f[0] = base /\ \A i \in 1..m : f[i] = next[i][f[i - 1]]
    BY <1>2
  <2> DEFINE g == [i \in 0..(m + 1) |-> IF i = m + 1 THEN next[m + 1][f[m]] ELSE f[i]]
  <2>2. next[m + 1][f[m]] \in S
    <3>1. m + 1 \in 1..n /\ m \in 0..m
      OBVIOUS
    <3>2. next[m + 1] \in [S -> S] /\ f[m] \in S
      BY <2>1, <3>1
    <3> QED
      BY <3>2
  <2>3. g \in [0..(m + 1) -> S]
    BY <2>1, <2>2
  <2>4. g[0] = base
    BY <2>1
  <2>5. \A i \in 0..m : g[i] = f[i]
    OBVIOUS
  <2>6. g[m + 1] = next[m + 1][f[m]]
    OBVIOUS
  <2> HIDE DEF g
  <2>7. ASSUME NEW i \in 1..(m + 1)
        PROVE  g[i] = next[i][g[i - 1]]
    <3>1. CASE i = m + 1
      BY <3>1, <2>5, <2>6
    <3>2. CASE i \in 1..m
      <4>1. i \in 0..m /\ i - 1 \in 0..m
        BY <3>2
      <4> QED
        BY <4>1, <3>2, <2>1, <2>5
    <3> QED
      BY <3>1, <3>2
  <2> QED
    BY <2>3, <2>4, <2>7
<1> HIDE DEF T
<1>3. n \in T
  BY <1>1, <1>2, Induction
<1> QED
  BY <1>3 DEF T, Iterates

\* The sequence of the sequences up to each one.
Flattens(f, seqs) ==
    /\ f[0] = << >>
    /\ \A i \in 1..Len(seqs) : f[i] = f[i - 1] \o seqs[i]
    /\ FlattenSeq(seqs) = f[Len(seqs)]

LEMMA FlattenIterates ==
    ASSUME NEW S, NEW seqs \in Seq(Seq(S))
    PROVE  \E f \in [0..Len(seqs) -> Seq(S)] : Flattens(f, seqs)
<1> DEFINE n == Len(seqs)
<1>1. n \in Nat /\ DOMAIN seqs = 1..n /\ \A i \in 1..n : seqs[i] \in Seq(S)
  OBVIOUS
<1> HIDE DEF n
<1>2. PICK f \in [0..n -> Seq(S)] : f[0] = << >> /\ \A i \in 1..n : f[i] = f[i - 1] \o seqs[i]
  <2> DEFINE All == Seq(S)
             next == [i \in 1..n |-> [s \in All |-> s \o seqs[i]]]
  <2>1. next \in [1..n -> [All -> All]]
    BY <1>1
  <2>2. << >> \in All
    OBVIOUS
  <2>3. \A i \in 1..n, s \in All : next[i][s] = s \o seqs[i]
    OBVIOUS
  <2> HIDE DEF next, All
  <2>4. PICK f : Iterates(f, << >>, next, n, All)
    BY <1>1, <2>1, <2>2, IterationExists
  <2> USE DEF Iterates
  <2>5. ASSUME NEW i \in 1..n
        PROVE  f[i] = f[i - 1] \o seqs[i]
    <3>1. i - 1 \in 0..n
      BY <1>1
    <3>2. f[i - 1] \in All
      BY <2>4, <3>1
    <3> QED
      BY <2>3, <2>4, <3>2
  <2> QED
    BY <2>4, <2>5 DEF All
<1>3. CASE n = 0
  BY <1>2, <1>3 DEF FlattenSeq, Flattens, n
<1>4. CASE n > 0
  <2> DEFINE step(g) == [i \in 1..n |-> IF i = 1 THEN seqs[i] ELSE g[i - 1] \o seqs[i]]
             flatten == CHOOSE g : g = step(g)
             some == [i \in 1..n |-> f[i]]
  <2>1. FlattenSeq(seqs) = flatten[n]
    BY <1>1, <1>4 DEF FlattenSeq, n
  <2>2. some = step(some)
    <3>1. ASSUME NEW i \in 1..n
          PROVE  some[i] = step(some)[i]
      <4>1. CASE i = 1
        <5>1. f[1] = << >> \o seqs[1]
          <6>1. 1 \in 1..n /\ 1 - 1 = 0
            BY <1>1, <1>4
          <6> QED
            BY <1>2, <6>1
        <5>2. seqs[1] \in Seq(S)
          BY <1>1, <1>4
        <5> QED
          BY <4>1, <5>1, <5>2
      <4>2. CASE i # 1
        <5>1. i - 1 \in 1..n
          BY <1>1, <4>2
        <5> QED
          BY <4>2, <5>1, <1>2
      <4> QED
        BY <4>1, <4>2
    <3> QED
      BY <3>1
  <2>3. flatten = step(flatten)
    <3> HIDE DEF step, some
    <3> QED
      BY <2>2
  <2> HIDE DEF flatten
  <2> DEFINE T == {k \in Nat : k \in 1..n => flatten[k] = f[k]}
  <2>4. 0 \in T
    OBVIOUS
  <2>5. ASSUME NEW k \in Nat, k \in T
        PROVE  k + 1 \in T
    <3> SUFFICES ASSUME k + 1 \in 1..n
                 PROVE  flatten[k + 1] = f[k + 1]
      OBVIOUS
    <3>1. CASE k = 0
      <4>1. flatten[1] = seqs[1]
        BY <2>3, <1>4, <1>1
      <4>2. f[1] = << >> \o seqs[1]
        <5>1. 1 \in 1..n /\ 1 - 1 = 0
          BY <1>1, <1>4
        <5> QED
          BY <1>2, <5>1
      <4>3. seqs[1] \in Seq(S)
        BY <1>1, <1>4
      <4> QED
        BY <3>1, <4>1, <4>2, <4>3
    <3>2. CASE k # 0
      <4>1. k \in 1..n /\ flatten[k] = f[k]
        BY <2>5, <3>2, <1>1
      <4>2. flatten[k + 1] = flatten[k] \o seqs[k + 1]
        <5>1. (k + 1) - 1 = k /\ k + 1 # 1
          BY <3>2
        <5>2. flatten[k + 1] = step(flatten)[k + 1]
          BY <2>3
        <5> QED
          BY <5>1, <5>2
      <4> QED
        <5>1. (k + 1) - 1 = k
          OBVIOUS
        <5>2. f[k + 1] = f[k] \o seqs[k + 1]
          BY <5>1, <1>2
        <5> QED
          BY <4>1, <4>2, <5>2
    <3> QED
      BY <3>1, <3>2
  <2> HIDE DEF T
  <2>6. n \in T
    BY <2>4, <2>5, <1>1, Induction
  <2>7. flatten[n] = f[n]
    BY <2>6, <1>1, <1>4 DEF T
  <2> QED
    BY <1>2, <2>1, <2>7 DEF Flattens, n
<1> QED
  BY <1>1, <1>3, <1>4 DEF n

\* Where the elements of the sequences stand in the sequence of them all.
Lays(at, seqs, flat) ==
    /\ at \in [0..Len(seqs) -> Nat] /\ at[0] = 0 /\ at[Len(seqs)] = Len(flat)
    /\ \A i \in 1..Len(seqs) : at[i] = at[i - 1] + Len(seqs[i])
    /\ \A i, j \in 0..Len(seqs) : i <= j => at[i] <= at[j]
    /\ \A i \in 1..Len(seqs) : \A k \in 1..Len(seqs[i]) :
          at[i - 1] + k \in 1..Len(flat) /\ flat[at[i - 1] + k] = seqs[i][k]
    /\ \A p \in 1..Len(flat) : \E i \in 1..Len(seqs) : \E k \in 1..Len(seqs[i]) : p = at[i - 1] + k

\* The same for the sequences up to the m-th.
LaidUpTo(m, at, seqs, f) ==
    /\ \A i \in 0..m : at[i] <= at[m]
    /\ \A i \in 1..m : \A k \in 1..Len(seqs[i]) :
          at[i - 1] + k \in 1..at[m] /\ f[m][at[i - 1] + k] = seqs[i][k]
    /\ \A p \in 1..at[m] : \E i \in 1..m : \E k \in 1..Len(seqs[i]) : p = at[i - 1] + k

\* The elements of c are those of a, then those of b.
Joins(c, a, b) ==
    /\ Len(c) = Len(a) + Len(b)
    /\ \A p \in 1..Len(a) : c[p] = a[p]
    /\ \A k \in 1..Len(b) : c[Len(a) + k] = b[k]

LEMMA ConcatJoins ==
    ASSUME NEW S, NEW a \in Seq(S), NEW b \in Seq(S)
    PROVE  Joins(a \o b, a, b)
BY DEF Joins

LEMMA LaysOneMore ==
    ASSUME NEW seqs, NEW f, NEW at, NEW m \in Nat,
           Len(seqs[m + 1]) \in Nat, \A i \in 0..m : at[i] \in Nat,
           at[m + 1] = at[m] + Len(seqs[m + 1]),
           \A p \in 1..at[m] : f[m + 1][p] = f[m][p],
           \A k \in 1..Len(seqs[m + 1]) : f[m + 1][at[m] + k] = seqs[m + 1][k],
           LaidUpTo(m, at, seqs, f)
    PROVE  LaidUpTo(m + 1, at, seqs, f)
<1>1. /\ at[m] \in Nat /\ Len(seqs[m + 1]) \in Nat /\ at[m + 1] \in Nat
      /\ (m + 1) - 1 = m
  OBVIOUS
<1>2. ASSUME NEW i \in 0..(m + 1)
      PROVE  at[i] <= at[m + 1]
  <2>1. CASE i = m + 1
    BY <1>1, <2>1
  <2>2. CASE i \in 0..m
    <3>1. at[i] <= at[m] /\ at[i] \in Nat
      BY <1>1, <2>2 DEF LaidUpTo
    <3> QED
      BY <1>1, <3>1
  <2> QED
    BY <1>1, <2>1, <2>2
<1>3. ASSUME NEW i \in 1..(m + 1), NEW k \in 1..Len(seqs[i])
      PROVE  at[i - 1] + k \in 1..at[m + 1] /\ f[m + 1][at[i - 1] + k] = seqs[i][k]
  <2>1. CASE i = m + 1
    <3>1. at[i - 1] = at[m] /\ k \in 1..Len(seqs[m + 1])
      BY <1>1, <2>1
    <3>2. at[m] + k \in 1..at[m + 1]
      BY <1>1, <3>1
    <3>3. f[m + 1][at[m] + k] = seqs[m + 1][k]
      BY <1>1, <3>1
    <3> QED
      BY <1>1, <2>1, <3>1, <3>2, <3>3
  <2>2. CASE i \in 1..m
    <3>1. at[i - 1] + k \in 1..at[m] /\ f[m][at[i - 1] + k] = seqs[i][k]
      BY <1>1, <2>2 DEF LaidUpTo
    <3>2. f[m + 1][at[i - 1] + k] = f[m][at[i - 1] + k]
      BY <1>1, <3>1
    <3> QED
      BY <1>1, <3>1, <3>2
  <2> QED
    BY <1>1, <2>1, <2>2
<1>4. ASSUME NEW p \in 1..at[m + 1]
      PROVE  \E i \in 1..(m + 1) : \E k \in 1..Len(seqs[i]) : p = at[i - 1] + k
  <2>1. CASE p <= at[m]
    <3>1. p \in 1..at[m]
      BY <1>1, <2>1
    <3>2. PICK i \in 1..m : \E k \in 1..Len(seqs[i]) : p = at[i - 1] + k
      BY <1>1, <3>1 DEF LaidUpTo
    <3>3. i \in 1..(m + 1)
      OBVIOUS
    <3> QED
      BY <1>1, <3>2, <3>3
  <2>2. CASE ~(p <= at[m])
    <3>1. p - at[m] \in 1..Len(seqs[m + 1]) /\ p = at[m] + (p - at[m])
      BY <1>1, <2>2
    <3>2. m + 1 \in 1..(m + 1)
      OBVIOUS
    <3> QED
      BY <1>1, <3>1, <3>2
  <2> QED
    BY <1>1, <2>1, <2>2
<1> QED
  BY <1>2, <1>3, <1>4 DEF LaidUpTo

LEMMA FlattenLays ==
    ASSUME NEW S, NEW seqs \in Seq(Seq(S))
    PROVE  FlattenSeq(seqs) \in Seq(S) /\ \E at : Lays(at, seqs, FlattenSeq(seqs))
<1> DEFINE n == Len(seqs)
<1>1. n \in Nat /\ \A i \in 1..n : seqs[i] \in Seq(S)
  OBVIOUS
<1>2. PICK f \in [0..n -> Seq(S)] : Flattens(f, seqs)
  BY FlattenIterates
<1>3. /\ f[0] = << >> /\ f[n] = FlattenSeq(seqs)
      /\ \A i \in 0..n : f[i] \in Seq(S)
      /\ \A i \in 1..n : f[i] = f[i - 1] \o seqs[i]
  BY <1>2 DEF Flattens
<1>14. PICK at \in [0..n -> Nat] : \A i \in 0..n : at[i] = Len(f[i])
  <2>1. [i \in 0..n |-> Len(f[i])] \in [0..n -> Nat]
    BY <1>3
  <2> QED
    BY <2>1
<1> HIDE DEF n
<1>4. \A i \in 1..n : at[i] = at[i - 1] + Len(seqs[i]) /\ Len(seqs[i]) \in Nat
  <2> TAKE i \in 1..n
  <2>1. i - 1 \in 0..n /\ i \in 0..n
    BY <1>1
  <2>2. f[i - 1] \in Seq(S) /\ seqs[i] \in Seq(S) /\ f[i] = f[i - 1] \o seqs[i]
    BY <2>1, <1>1, <1>3
  <2>3. Len(f[i]) = Len(f[i - 1]) + Len(seqs[i]) /\ Len(seqs[i]) \in Nat
    BY <2>2
  <2> QED
    BY <2>1, <2>3, <1>14
<1> DEFINE Laid(m) == LaidUpTo(m, at, seqs, f)
           T == {m \in Nat : m <= n => Laid(m)}
<1>5. 0 \in T
  <2>1. at[0] = 0
    BY <1>1, <1>3, <1>14
  <2>2. Laid(0)
    BY <2>1 DEF LaidUpTo
  <2> QED
    BY <2>2
<1>6. ASSUME NEW m \in Nat, m \in T
      PROVE  m + 1 \in T
  <2> SUFFICES ASSUME m + 1 <= n
               PROVE  Laid(m + 1)
    OBVIOUS
  <2>1. Laid(m)
    BY <1>6, <1>1
  <2>2. /\ m \in 0..n /\ m + 1 \in 0..n /\ m + 1 \in 1..n /\ (m + 1) - 1 = m
        /\ \A i \in 1..m : i \in 1..n /\ i - 1 \in 0..n
        /\ \A i \in 0..m : i \in 0..n
    BY <1>1
  <2>3. f[m] \in Seq(S) /\ seqs[m + 1] \in Seq(S) /\ f[m + 1] = f[m] \o seqs[m + 1]
    BY <1>1, <1>3, <2>2
  <2>4. /\ at[m] = Len(f[m]) /\ at[m] \in Nat /\ at[m + 1] = at[m] + Len(seqs[m + 1])
        /\ Len(seqs[m + 1]) \in Nat /\ at[m + 1] \in Nat /\ Len(f[m]) \in Nat
    BY <1>4, <1>14, <2>2
  <2>5. \A i \in 0..m : at[i] \in Nat
    BY <2>2, <1>14
  <2>6. /\ \A p \in 1..at[m] : f[m + 1][p] = f[m][p]
        /\ \A k \in 1..Len(seqs[m + 1]) : f[m + 1][at[m] + k] = seqs[m + 1][k]
    <3>1. Joins(f[m + 1], f[m], seqs[m + 1])
      BY <2>3, ConcatJoins
    <3>2. at[m] = Len(f[m])
      BY <2>4
    <3> QED
      BY <3>1, <3>2 DEF Joins
  <2> QED
    BY <2>1, <2>4, <2>5, <2>6, LaysOneMore
<1> HIDE DEF T
<1>7. \A m \in Nat : m \in T
  BY <1>5, <1>6, Induction
<1>8. \A m \in 0..n : Laid(m)
  BY <1>7, <1>1 DEF T
<1>10. /\ at[0] = 0 /\ at[n] = Len(FlattenSeq(seqs)) /\ FlattenSeq(seqs) \in Seq(S)
  BY <1>1, <1>3, <1>14
<1>11. ASSUME NEW i \in 0..n, NEW j \in 0..n, i <= j
       PROVE  at[i] <= at[j]
  <2>1. LaidUpTo(j, at, seqs, f) /\ i \in 0..j
    BY <1>1, <1>8, <1>11
  <2> QED
    BY <2>1 DEF LaidUpTo
<1>12. /\ \A i \in 1..n : \A k \in 1..Len(seqs[i]) :
             at[i - 1] + k \in 1..at[n] /\ FlattenSeq(seqs)[at[i - 1] + k] = seqs[i][k]
       /\ \A p \in 1..at[n] : \E i \in 1..n : \E k \in 1..Len(seqs[i]) : p = at[i - 1] + k
  <2>1. n \in 0..n
    BY <1>1
  <2> QED
    <3>1. LaidUpTo(n, at, seqs, f)
      BY <2>1, <1>8
    <3>2. f[n] = FlattenSeq(seqs)
      BY <1>3
    <3> QED
      BY <3>1, <3>2 DEF LaidUpTo
<1>13. Lays(at, seqs, FlattenSeq(seqs))
  BY <1>4, <1>10, <1>11, <1>12 DEF Lays, n
<1> QED
  BY <1>10, <1>13

\* What is picked are the elements at the places in K, in their order: p tells
\* the place each one is from.
Picks(p, r, s, K) ==
    /\ p \in [1..Len(r) -> DOMAIN s]
    /\ \A i \in 1..Len(r) : p[i] \in K /\ r[i] = s[p[i]]
    /\ \A i, j \in 1..Len(r) : i < j => p[i] < p[j]
    /\ \A k \in K \cap DOMAIN s : \E i \in 1..Len(r) : p[i] = k

LEMMA PickedInOrder ==
    ASSUME NEW S, NEW s \in Seq(S), NEW K
    PROVE  Picked(s, K) \in Seq(S) /\ \E p : Picks(p, Picked(s, K), s, K)
<1> DEFINE n == Len(s)
           seqs == [k \in DOMAIN s |-> IF k \in K THEN << s[k] >> ELSE << >>]
           r == Picked(s, K)
<1>1. /\ n \in Nat /\ DOMAIN s = 1..n /\ \A k \in 1..n : s[k] \in S
  OBVIOUS
<1>2. seqs \in Seq(Seq(S)) /\ Len(seqs) = n
  <2>1. \A k \in 1..n : s[k] \in S => << s[k] >> \in Seq(S)
    OBVIOUS
  <2>2. seqs \in [1..n -> Seq(S)]
    BY <1>1, <2>1
  <2> HIDE DEF seqs, n
  <2>3. seqs \in Seq(Seq(S))
    BY <1>1, <2>2
  <2> QED
    BY <1>1, <2>2, <2>3
<1>3. \A k \in 1..n : /\ k \in K => Len(seqs[k]) = 1 /\ seqs[k][1] = s[k]
                      /\ k \notin K => Len(seqs[k]) = 0
  BY <1>1
<1>4. r = FlattenSeq(seqs)
  BY DEF Picked
<1> HIDE DEF n, seqs, r
<1>5. r \in Seq(S)
  BY <1>2, <1>4, FlattenLays
<1>6. PICK at : Lays(at, seqs, r)
  BY <1>2, <1>4, FlattenLays
<1>7. /\ \A i \in 0..n : at[i] \in Nat
      /\ \A i, j \in 0..n : i <= j => at[i] <= at[j]
      /\ \A i \in 1..n : at[i] = at[i - 1] + Len(seqs[i])
      /\ \A i \in 1..n : \A k \in 1..Len(seqs[i]) : at[i - 1] + k \in 1..Len(r) /\ r[at[i - 1] + k] = seqs[i][k]
      /\ \A q \in 1..Len(r) : \E i \in 1..n : \E k \in 1..Len(seqs[i]) : q = at[i - 1] + k
  BY <1>2, <1>6 DEF Lays
<1>8. \A q \in 1..Len(r) : \E i \in 1..n : i \in K /\ q = at[i - 1] + 1
  <2> TAKE q \in 1..Len(r)
  <2>1. PICK i \in 1..n : \E k \in 1..Len(seqs[i]) : q = at[i - 1] + k
    BY <1>7
  <2>2. PICK k \in 1..Len(seqs[i]) : q = at[i - 1] + k
    BY <2>1
  <2>3. i \in K /\ Len(seqs[i]) = 1
    BY <1>3, <2>2
  <2>4. k = 1
    BY <2>2, <2>3
  <2> QED
    BY <2>2, <2>3, <2>4
<1>9. \A i \in 1..n : i \in K => /\ at[i - 1] + 1 \in 1..Len(r) /\ r[at[i - 1] + 1] = s[i]
                                 /\ at[i] = at[i - 1] + 1 /\ at[i - 1] \in Nat
  <2> SUFFICES ASSUME NEW i \in 1..n, i \in K
               PROVE  /\ at[i - 1] + 1 \in 1..Len(r) /\ r[at[i - 1] + 1] = s[i]
                      /\ at[i] = at[i - 1] + 1 /\ at[i - 1] \in Nat
    OBVIOUS
  <2>1. Len(seqs[i]) = 1 /\ seqs[i][1] = s[i] /\ i - 1 \in 0..n
    BY <1>1, <1>3
  <2>2. 1 \in 1..Len(seqs[i])
    BY <2>1
  <2>3. at[i - 1] + 1 \in 1..Len(r) /\ r[at[i - 1] + 1] = seqs[i][1]
    BY <2>2, <1>7
  <2>4. at[i] = at[i - 1] + Len(seqs[i]) /\ at[i - 1] \in Nat
    BY <2>1, <1>7
  <2> QED
    BY <2>1, <2>3, <2>4
<1>10. \A i, j \in K \cap (1..n) : i < j => at[i - 1] + 1 < at[j - 1] + 1
  <2> TAKE i, j \in K \cap (1..n)
  <2> HAVE i < j
  <2>1. i \in 0..n /\ j - 1 \in 0..n /\ i <= j - 1
    BY <1>1
  <2>2. at[i] <= at[j - 1]
    BY <2>1, <1>7
  <2>3. at[i] = at[i - 1] + 1 /\ at[i - 1] \in Nat /\ at[j - 1] \in Nat
    BY <1>9
  <2> QED
    BY <2>2, <2>3
<1> DEFINE p == [q \in 1..Len(r) |-> CHOOSE i \in 1..n : i \in K /\ q = at[i - 1] + 1]
<1>11. \A q \in 1..Len(r) : p[q] \in K \cap (1..n) /\ q = at[p[q] - 1] + 1
  BY <1>8
<1>12. p \in [1..Len(r) -> DOMAIN s]
  BY <1>1, <1>11
<1> HIDE DEF p
<1>13. \A q \in 1..Len(r) : p[q] \in K /\ r[q] = s[p[q]]
  BY <1>9, <1>11
<1>14. \A q, u \in 1..Len(r) : q < u => p[q] < p[u]
  <2> TAKE q, u \in 1..Len(r)
  <2> HAVE q < u
  <2>1. /\ p[q] \in K \cap (1..n) /\ q = at[p[q] - 1] + 1
        /\ p[u] \in K \cap (1..n) /\ u = at[p[u] - 1] + 1
    BY <1>11
  <2>2. ~(p[u] < p[q])
    <3> SUFFICES ASSUME p[u] < p[q]
                 PROVE  FALSE
      OBVIOUS
    <3>1. at[p[u] - 1] + 1 < at[p[q] - 1] + 1
      BY <2>1, <1>10
    <3>2. u < q
      BY <2>1, <3>1
    <3> QED
      BY <1>5, <3>2
  <2>3. p[u] # p[q]
    BY <2>1, <1>5
  <2> QED
    BY <2>1, <2>2, <2>3, <1>1
<1>15. \A k \in K \cap DOMAIN s : \E q \in 1..Len(r) : p[q] = k
  <2> TAKE k \in K \cap DOMAIN s
  <2>1. k \in 1..n /\ k \in K
    BY <1>1
  <2> DEFINE q == at[k - 1] + 1
  <2>2. q \in 1..Len(r)
    BY <2>1, <1>9
  <2>3. p[q] \in K \cap (1..n) /\ q = at[p[q] - 1] + 1
    BY <2>2, <1>11
  <2>4. q \in Nat
    BY <2>2, <1>5
  <2> HIDE DEF q
  <2>5. ~(p[q] < k)
    <3>1. p[q] < k => at[p[q] - 1] + 1 < at[k - 1] + 1
      BY <2>1, <2>3, <1>10
    <3>2. at[p[q] - 1] + 1 = at[k - 1] + 1 /\ at[k - 1] + 1 \in Nat
      BY <2>3, <2>4 DEF q
    <3> QED
      BY <3>1, <3>2
  <2>6. ~(k < p[q])
    <3>1. k < p[q] => at[k - 1] + 1 < at[p[q] - 1] + 1
      BY <2>1, <2>3, <1>10
    <3>2. at[p[q] - 1] + 1 = at[k - 1] + 1 /\ at[k - 1] + 1 \in Nat
      BY <2>3, <2>4 DEF q
    <3> QED
      BY <3>1, <3>2
  <2> QED
    BY <2>1, <2>2, <2>3, <2>5, <2>6, <1>1
<1> QED
  BY <1>5, <1>12, <1>13, <1>14, <1>15 DEF Picks, r

\* What a sequence of sequences holds, when they are joined.
LEMMA FlattenedElements ==
    ASSUME NEW S, NEW seqs \in Seq(Seq(S))
    PROVE  Range(FlattenSeq(seqs)) = UNION {Range(seqs[i]) : i \in DOMAIN seqs}
<1> DEFINE r == FlattenSeq(seqs)
<1>1. r \in Seq(S) /\ \E at : Lays(at, seqs, r)
  BY FlattenLays
<1>2. /\ DOMAIN seqs = 1..Len(seqs) /\ DOMAIN r = 1..Len(r)
      /\ \A i \in DOMAIN seqs : seqs[i] \in Seq(S) /\ DOMAIN seqs[i] = 1..Len(seqs[i])
  <2>1. \A i \in DOMAIN seqs : seqs[i] \in Seq(S)
    OBVIOUS
  <2>2. \A s \in Seq(S) : DOMAIN s = 1..Len(s)
    OBVIOUS
  <2> HIDE DEF r
  <2> QED
    BY <1>1, <2>1, <2>2
<1> HIDE DEF r
<1>3. PICK at : Lays(at, seqs, r)
  BY <1>1
<1>4. ASSUME NEW p \in DOMAIN r
      PROVE  \E i \in DOMAIN seqs : r[p] \in Range(seqs[i])
  <2>1. PICK i \in 1..Len(seqs) : \E k \in 1..Len(seqs[i]) : p = at[i - 1] + k
    BY <1>2, <1>3 DEF Lays
  <2>2. PICK k \in 1..Len(seqs[i]) : p = at[i - 1] + k
    BY <2>1
  <2>3. r[p] = seqs[i][k]
    BY <2>2, <1>3 DEF Lays
  <2> QED
    BY <2>2, <2>3, <1>2 DEF Range
<1>5. ASSUME NEW i \in DOMAIN seqs, NEW k \in DOMAIN seqs[i]
      PROVE  \E p \in DOMAIN r : r[p] = seqs[i][k]
  <2>1. i \in 1..Len(seqs) /\ k \in 1..Len(seqs[i])
    BY <1>2
  <2>2. at[i - 1] + k \in 1..Len(r) /\ r[at[i - 1] + k] = seqs[i][k]
    BY <2>1, <1>3 DEF Lays
  <2> QED
    BY <2>2, <1>2
<1> QED
  BY <1>4, <1>5 DEF Range, r

LEMMA PickedElements ==
    ASSUME NEW S, NEW s \in Seq(S), NEW K
    PROVE  Range(Picked(s, K)) = {s[k] : k \in K \cap DOMAIN s}
<1> DEFINE r == Picked(s, K)
<1>1. r \in Seq(S) /\ \E p : Picks(p, r, s, K)
  BY PickedInOrder
<1>2. DOMAIN r = 1..Len(r)
  BY <1>1
<1> HIDE DEF r
<1>3. PICK p : Picks(p, r, s, K)
  BY <1>1
<1> QED
  BY <1>2, <1>3 DEF Picks, Range, r

\* The first of equal elements are all of them, once each.
LEMMA DistinctElements ==
    ASSUME NEW S, NEW s \in Seq(S)
    PROVE  /\ Distinct(s) \in Seq(S) /\ Range(Distinct(s)) = Range(s)
           /\ \A i, j \in 1..Len(Distinct(s)) : i # j => Distinct(s)[i] # Distinct(s)[j]
<1> DEFINE K == {k \in DOMAIN s : \A j \in 1..(k - 1) : s[j] # s[k]}
           r == Distinct(s)
<1>1. r = Picked(s, K)
  BY DEF Distinct
<1>2. DOMAIN s = 1..Len(s) /\ Len(s) \in Nat
  OBVIOUS
<1> HIDE DEF r
<1>3. r \in Seq(S) /\ Range(r) = {s[k] : k \in K}
  BY <1>1, PickedInOrder, PickedElements
<1>4. ASSUME NEW k \in DOMAIN s
      PROVE  \E j \in K : s[j] = s[k]
  <2> DEFINE same == {j \in DOMAIN s : s[j] = s[k]}
  <2>4. same \subseteq Nat /\ k \in same
    BY <1>2
  <2>1. PICK j \in same : \A i \in same : j <= i
    <3> HIDE DEF same
    <3> QED
      BY <2>4, LeastNatural
  <2>2. \A i \in 1..(j - 1) : i \in DOMAIN s /\ ~(j <= i)
    BY <1>2
  <2>3. \A i \in 1..(j - 1) : s[i] # s[j]
    BY <2>1, <2>2
  <2> QED
    BY <2>1, <2>3
<1>5. Range(r) = Range(s)
  <2>1. K \subseteq DOMAIN s
    OBVIOUS
  <2> HIDE DEF K
  <2>2. {s[k] : k \in K} = {s[k] : k \in DOMAIN s}
    BY <2>1, <1>4
  <2> QED
    BY <2>2, <1>3, Zenon DEF Range
<1>6. PICK p : Picks(p, r, s, K)
  BY <1>1, PickedInOrder
<1>7. ASSUME NEW i \in 1..Len(r), NEW j \in 1..Len(r), i < j
      PROVE  r[i] # r[j]
  <2>1. /\ p[i] \in K /\ p[j] \in K /\ p[i] < p[j]
        /\ r[i] = s[p[i]] /\ r[j] = s[p[j]]
    BY <1>6, <1>7 DEF Picks
  <2>2. p[i] \in 1..(p[j] - 1)
    BY <1>2, <2>1
  <2> QED
    BY <2>1, <2>2
<1>8. \A i, j \in 1..Len(r) : i # j => r[i] # r[j]
  <2> TAKE i, j \in 1..Len(r)
  <2> HAVE i # j
  <2>1. i < j \/ j < i
    BY <1>3
  <2> QED
    BY <2>1, <1>7
<1> QED
  BY <1>3, <1>5, <1>8 DEF r

\* A sequence without repetitions is as long as it has elements.
LEMMA AsManyAsLong ==
    ASSUME NEW S, NEW s \in Seq(S), \A i, j \in 1..Len(s) : i # j => s[i] # s[j]
    PROVE  Cardinality(Range(s)) = Len(s)
<1>1. Len(s) \in Nat /\ DOMAIN s = 1..Len(s)
  OBVIOUS
<1>2. s \in [1..Len(s) -> Range(s)]
  BY <1>1 DEF Range
<1>3. s \in Bijection(1..Len(s), Range(s))
  BY <1>1, <1>2 DEF Bijection, Injection, IsInjective, Surjection, Range
<1>4. ExistsBijection(1..Len(s), Range(s))
  BY <1>3 DEF ExistsBijection
<1>5. IsFiniteSet(1..Len(s)) /\ Cardinality(1..Len(s)) = Len(s)
  BY <1>1, FS_Interval
<1> QED
  BY <1>4, <1>5, FS_Bijection

\* A set is enumerated in full.
LEMMA Enumerated ==
    ASSUME NEW rows, IsFiniteSet(rows)
    PROVE  /\ Cardinality(rows) \in Nat
           /\ SetToSeq(rows) \in [1..Cardinality(rows) -> rows]
           /\ \A row \in rows : \E n \in 1..Cardinality(rows) : SetToSeq(rows)[n] = row
<1> DEFINE n == Cardinality(rows)
<1>1. n \in Nat /\ ExistsBijection(1..n, rows)
  BY FS_CardinalityType
<1>2. \E f \in [1..n -> rows] : IsInjective(f)
  BY <1>1 DEF ExistsBijection, Bijection, Injection
<1>3. SetToSeq(rows) \in [1..n -> rows] /\ IsInjective(SetToSeq(rows))
  BY <1>2 DEF SetToSeq
<1>4. SetToSeq(rows) \in Injection(1..n, rows)
  BY <1>3 DEF Injection
<1>5. Cardinality(1..n) = n
  BY <1>1, FS_Interval
<1>6. SetToSeq(rows) \in Surjection(1..n, rows)
  BY <1>4, <1>5, FS_Injection
<1> QED
  BY <1>1, <1>3, <1>6 DEF Surjection

LEMMA FunctionIsSequence ==
    ASSUME NEW n \in Nat, NEW S, NEW f \in [1..n -> S]
    PROVE  f \in Seq(S) /\ Len(f) = n /\ DOMAIN f = 1..n
OBVIOUS

LEMMA ConcatRange ==
    ASSUME NEW S, NEW a \in Seq(S), NEW b \in Seq(S)
    PROVE  Range(a \o b) = Range(a) \cup Range(b)
<1>1. a \o b \in Seq(S) /\ Joins(a \o b, a, b)
  BY ConcatJoins
<1> DEFINE c == a \o b
<1>2. /\ DOMAIN c = 1..Len(c) /\ DOMAIN a = 1..Len(a) /\ DOMAIN b = 1..Len(b)
      /\ Len(a) \in Nat /\ Len(b) \in Nat
  BY <1>1
<1> HIDE DEF c
<1>3. Joins(c, a, b)
  BY <1>1 DEF c
<1>4. ASSUME NEW p \in 1..Len(c)
      PROVE  c[p] \in Range(a) \cup Range(b)
  <2>1. CASE p <= Len(a)
    BY <2>1, <1>2, <1>3 DEF Joins, Range
  <2>2. CASE ~(p <= Len(a))
    <3>1. p - Len(a) \in 1..Len(b) /\ Len(a) + (p - Len(a)) = p
      BY <2>2, <1>2, <1>3 DEF Joins
    <3>2. c[p] = b[p - Len(a)]
      BY <3>1, <1>3 DEF Joins
    <3> QED
      BY <3>1, <3>2, <1>2 DEF Range
  <2> QED
    BY <2>1, <2>2
<1>5. \A p \in 1..Len(a) : a[p] \in Range(c)
  BY <1>2, <1>3 DEF Joins, Range
<1>6. ASSUME NEW k \in 1..Len(b)
      PROVE  b[k] \in Range(c)
  <2>1. Len(a) + k \in DOMAIN c /\ c[Len(a) + k] = b[k]
    BY <1>2, <1>3 DEF Joins
  <2> QED
    BY <2>1 DEF Range
<1> QED
  BY <1>2, <1>4, <1>5, <1>6 DEF Range, c

LEMMA FirstOnes ==
    ASSUME NEW S, NEW s \in Seq(S), NEW m \in Nat
    PROVE  SubSeq(s, 1, Min({m, Len(s)})) \in Seq(S) /\ Range(SubSeq(s, 1, Min({m, Len(s)}))) \subseteq Range(s)
<1> DEFINE b == {m, Len(s)}
<1>1. b \subseteq Nat /\ b # {} /\ Len(s) \in b
  OBVIOUS
<1> HIDE DEF b
<1>2. Min(b) \in b /\ \A n \in b : Min(b) <= n
  BY <1>1, MinIs
<1>3. Min(b) \in Nat /\ Min(b) <= Len(s)
  BY <1>1, <1>2
<1> DEFINE n == Min(b)
           r == SubSeq(s, 1, n)
<1> HIDE DEF n
<1>4. r \in Seq(S) /\ DOMAIN r = 1..n /\ \A k \in 1..n : r[k] = s[k] /\ k \in DOMAIN s
  BY <1>3 DEF n
<1> HIDE DEF r
<1>5. Range(r) \subseteq Range(s)
  BY <1>4 DEF Range
<1> QED
  BY <1>4, <1>5 DEF r, n, b

\* A finite set of numbers has a greatest.
LEMMA MaxIs ==
    ASSUME NEW S, S \subseteq Nat, IsFiniteSet(S), S # {}
    PROVE  Max(S) \in S /\ \A k \in S : k <= Max(S)
<1> DEFINE n == Cardinality(S)
           f == SetToSeq(S)
           Great(k) == \E m \in 1..k : \A j \in 1..k : f[j] <= f[m]
           T == {k \in Nat : k \in 1..n => Great(k)}
<1>1. n \in Nat /\ f \in [1..n -> S] /\ \A x \in S : \E i \in 1..n : f[i] = x
  BY Enumerated
<1> HIDE DEF f, n
<1>2. 0 \in T
  OBVIOUS
<1>3. ASSUME NEW k \in Nat, k \in T
      PROVE  k + 1 \in T
  <2> SUFFICES ASSUME k + 1 \in 1..n
               PROVE  Great(k + 1)
    OBVIOUS
  <2> HIDE DEF T
  <2>1. \A j \in 1..(k + 1) : f[j] \in Nat
    <3> TAKE j \in 1..(k + 1)
    <3>1. j \in 1..n
      BY <1>1
    <3>2. f[j] \in S
      BY <1>1, <3>1
    <3> QED
      BY <3>2
  <2>2. CASE k = 0
    <3>1. 1 \in 1..(k + 1) /\ \A j \in 1..(k + 1) : j = 1
      BY <2>2
    <3>2. f[1] \in Nat
      BY <2>1, <3>1
    <3>3. \A j \in 1..(k + 1) : f[j] <= f[1]
      BY <3>1, <3>2
    <3> QED
      BY <3>1, <3>3
  <2>3. CASE k # 0
    <3>1. k \in 1..n
      BY <2>3, <1>1
    <3>2. PICK m \in 1..k : \A j \in 1..k : f[j] <= f[m]
      BY <1>3, <3>1 DEF T
    <3>3. m \in 1..(k + 1) /\ k + 1 \in 1..(k + 1) /\ f[m] \in Nat /\ f[k + 1] \in Nat
      BY <2>1
    <3>4. \A j \in 1..(k + 1) : j = k + 1 \/ j \in 1..k
      OBVIOUS
    <3>5. CASE f[k + 1] <= f[m]
      <4>1. \A j \in 1..(k + 1) : f[j] <= f[m]
        BY <3>2, <3>4, <3>5
      <4> QED
        BY <3>3, <4>1
    <3>6. CASE f[m] <= f[k + 1]
      <4>1. ASSUME NEW j \in 1..k
            PROVE  f[j] <= f[k + 1]
        <5>1. j \in 1..(k + 1)
          OBVIOUS
        <5>2. f[j] \in Nat /\ f[j] <= f[m]
          BY <2>1, <3>2, <5>1
        <5> QED
          BY <5>2, <3>3, <3>6
      <4>2. f[k + 1] <= f[k + 1]
        BY <3>3
      <4>3. \A j \in 1..(k + 1) : f[j] <= f[k + 1]
        BY <3>4, <4>1, <4>2
      <4> QED
        BY <3>3, <4>3
    <3> QED
      BY <3>3, <3>5, <3>6
  <2> QED
    BY <2>2, <2>3
<1>4. n \in T
  <2> HIDE DEF T
  <2> QED
    BY <1>1, <1>2, <1>3, Induction
<1>5. n # 0
  <2>1. PICK x : x \in S
    OBVIOUS
  <2>2. PICK i \in 1..n : f[i] = x
    BY <1>1, <2>1
  <2> QED
    BY <1>1, <2>2
<1>6. PICK m \in 1..n : \A j \in 1..n : f[j] <= f[m]
  BY <1>1, <1>4, <1>5
<1>7. f[m] \in S /\ \A x \in S : x <= f[m]
  BY <1>1, <1>6
<1>8. \E x \in S : \A y \in S : x >= y
  BY <1>7
<1> QED
  BY <1>8 DEF Max

LEMMA FiniteRange ==
    ASSUME NEW S, NEW s \in Seq(S)
    PROVE  IsFiniteSet(Range(s))
<1>1. DOMAIN s = 1..Len(s) /\ Len(s) \in Nat
  OBVIOUS
<1>2. IsFiniteSet(1..Len(s))
  BY <1>1, FS_Interval
<1>3. s \in Surjection(1..Len(s), Range(s))
  <2>1. s = [k \in 1..Len(s) |-> s[k]]
    BY <1>1
  <2>2. \A k \in 1..Len(s) : s[k] \in Range(s)
    BY <1>1 DEF Range
  <2>3. s \in [1..Len(s) -> Range(s)]
    BY <2>1, <2>2
  <2> QED
    BY <1>1, <2>3 DEF Surjection, Range
<1> QED
  BY <1>2, <1>3, FS_Surjection

\* The numbers that a finite set is mapped to are finitely many.
LEMMA FiniteImage ==
    ASSUME NEW S, IsFiniteSet(S), NEW T, NEW f \in [S -> T]
    PROVE  IsFiniteSet(Range(f))
<1>1. f \in Surjection(S, Range(f))
  <2>1. Range(f) = {f[x] : x \in S}
    BY DEF Range
  <2>2. f \in [S -> Range(f)]
    BY <2>1
  <2> QED
    BY <2>1, <2>2 DEF Surjection
<1> QED
  BY <1>1, FS_Surjection

-----------------------------------------------------------------------------
(* Retrieval (module Answers)                                              *)

\* A stable sort by falling score: a sequence has an order in which every place
\* comes once, none comes before one that scores more, and what comes last is cut.
Order(order, results, shown, got) ==
    /\ order \in [1..Len(results) -> 1..Len(results)]
    /\ \A i \in 1..Len(results) : \E m \in 1..Len(results) : order[m] = i
    /\ \A m, k \in 1..Len(results) :
          m < k => order[m] # order[k] /\ results[order[m]].score >= results[order[k]].score
    /\ shown \in Nat /\ shown <= Len(results) /\ DOMAIN got = 1..shown /\ Len(got) = shown
    /\ \A m \in 1..shown : got[m] = results[order[m]]

LEMMA TopOrders ==
    ASSUME NEW S, NEW results \in Seq(S), \A i \in DOMAIN results : results[i].score \in Int, NEW topK \in Nat
    PROVE  \E order : Order(order, results, Min({topK, Len(results)}), Top(results, topK))
<1> DEFINE n == Len(results)
           D == 1..n
           before(i, j) == results[i].score > results[j].score \/ (results[i].score = results[j].score /\ i < j)
           Ahead(i) == {j \in D : before(j, i)}
           place == [i \in D |-> Cardinality(Ahead(i)) + 1]
           order == [m \in D |-> CHOOSE i \in D : place[i] = m]
           shown == Min({topK, n})
<1>1. n \in Nat /\ DOMAIN results = D /\ \A i \in D : results[i].score \in Int
  OBVIOUS
<1>2. IsFiniteSet(D) /\ Cardinality(D) = n
  BY <1>1, FS_Interval
<1>3. /\ \A i \in D : ~before(i, i)
      /\ \A i, j \in D : i # j => before(i, j) \/ before(j, i)
      /\ \A i, j, k \in D : before(i, j) /\ before(j, k) => before(i, k)
      /\ \A i, j \in D : before(i, j) => results[i].score >= results[j].score
  BY <1>1
<1>4. \A i, j \in D : j \in Ahead(i) <=> before(j, i)
  OBVIOUS
<1>5. \A i \in D : Ahead(i) \subseteq D
  OBVIOUS
<1> HIDE DEF before, Ahead
<1>6. ASSUME NEW i \in D
      PROVE  /\ IsFiniteSet(Ahead(i)) /\ Cardinality(Ahead(i)) \in Nat /\ Cardinality(Ahead(i)) < n
  <2>1. IsFiniteSet(Ahead(i)) /\ Cardinality(Ahead(i)) <= n
    BY <1>2, <1>5, FS_Subset
  <2>2. Cardinality(Ahead(i)) \in Nat
    BY <2>1, FS_CardinalityType
  <2>3. i \notin Ahead(i)
    BY <1>3, <1>4
  <2>4. Cardinality(Ahead(i)) # n
    <3>1. Cardinality(D) = Cardinality(Ahead(i)) => D = Ahead(i)
      BY <1>2, <1>5, FS_Subset
    <3> QED
      BY <1>2, <2>3, <3>1
  <2> QED
    BY <2>1, <2>2, <2>4, <1>1
<1>7. ASSUME NEW i \in D, NEW j \in D, before(i, j)
      PROVE  Cardinality(Ahead(i)) < Cardinality(Ahead(j))
  <2>1. Ahead(i) \subseteq Ahead(j)
    BY <1>3, <1>4, <1>5, <1>7
  <2>2. i \in Ahead(j) /\ i \notin Ahead(i)
    BY <1>3, <1>4, <1>7
  <2>3. /\ Cardinality(Ahead(i)) <= Cardinality(Ahead(j))
        /\ Cardinality(Ahead(j)) = Cardinality(Ahead(i)) => Ahead(j) = Ahead(i)
    BY <1>6, <2>1, FS_Subset
  <2>4. Cardinality(Ahead(j)) # Cardinality(Ahead(i))
    BY <2>2, <2>3
  <2> QED
    BY <1>6, <2>3, <2>4
<1>8. place \in [D -> D]
  <2>1. \A i \in D : Cardinality(Ahead(i)) + 1 \in D
    <3> TAKE i \in D
    <3>1. Cardinality(Ahead(i)) \in Nat /\ Cardinality(Ahead(i)) < n
      BY <1>6
    <3> QED
      BY <3>1, <1>1
  <2> HIDE DEF D
  <2> QED
    BY <2>1
<1>9. ASSUME NEW i \in D, NEW j \in D, before(i, j)
      PROVE  place[i] < place[j]
  <2>1. place[i] = Cardinality(Ahead(i)) + 1 /\ place[j] = Cardinality(Ahead(j)) + 1
    OBVIOUS
  <2>2. Cardinality(Ahead(i)) \in Nat /\ Cardinality(Ahead(j)) \in Nat
    BY <1>6
  <2> HIDE DEF place
  <2> QED
    BY <1>7, <1>9, <2>1, <2>2
<1> HIDE DEF place
<1>10. \A i, j \in D : place[i] = place[j] => i = j
  <2> SUFFICES ASSUME NEW i \in D, NEW j \in D, place[i] = place[j], i # j
               PROVE  FALSE
    OBVIOUS
  <2>1. place[i] \in Nat /\ place[j] \in Nat
    BY <1>1, <1>8
  <2>2. before(i, j) \/ before(j, i)
    BY <1>3
  <2>3. place[i] < place[j] \/ place[j] < place[i]
    BY <1>9, <2>2
  <2> QED
    BY <2>1, <2>3
<1>11. place \in Surjection(D, D)
  <2>1. place \in Injection(D, D)
    BY <1>8, <1>10 DEF Injection, IsInjective
  <2> HIDE DEF D
  <2> QED
    BY <2>1, <1>2, FS_Injection
<1>12. \A m \in D : \E i \in D : place[i] = m
  BY <1>11 DEF Surjection
<1>13. \A m \in D : order[m] \in D /\ place[order[m]] = m
  BY <1>12
<1>14. order \in [D -> D]
  <2>1. order = [m \in D |-> order[m]]
    OBVIOUS
  <2> HIDE DEF order, D
  <2> QED
    BY <1>13, <2>1
<1>15. Top(results, topK) = [m \in 1..shown |-> results[CHOOSE i \in D : Cardinality({j \in D : before(j, i)}) + 1 = m]]
  BY <1>1 DEF Top, before
<1>16. \A i \in D : place[i] = Cardinality({j \in D : before(j, i)}) + 1
  BY DEF place, Ahead
<1>17. shown \in Nat /\ shown <= n
  <2> DEFINE b == {topK, n}
  <2>1. b \subseteq Nat /\ b # {} /\ n \in b
    BY <1>1
  <2> HIDE DEF b
  <2>2. Min(b) \in b /\ \A x \in b : Min(b) <= x
    BY <2>1, MinIs
  <2>3. Min(b) \in Nat /\ Min(b) <= n
    BY <2>1, <2>2
  <2> QED
    BY <2>3 DEF b
<1> HIDE DEF shown
<1>18. ASSUME NEW m \in 1..shown
       PROVE  Top(results, topK)[m] = results[order[m]] /\ m \in D
  <2>1. m \in D
    BY <1>1, <1>17
  <2>2. (CHOOSE i \in D : Cardinality({j \in D : before(j, i)}) + 1 = m) = (CHOOSE i \in D : place[i] = m)
    BY <1>16
  <2>3. order[m] = CHOOSE i \in D : place[i] = m
    BY <2>1
  <2> QED
    BY <1>15, <2>1, <2>2, <2>3
<1>19. \A i \in D : \E m \in D : order[m] = i
  <2> TAKE i \in D
  <2>1. place[i] \in D
    BY <1>8
  <2>2. order[place[i]] = i
    BY <1>10, <1>13, <2>1
  <2> QED
    BY <2>1, <2>2
<1> HIDE DEF order
<1>20. ASSUME NEW m \in D, NEW k \in D, m < k
       PROVE  order[m] # order[k] /\ results[order[m]].score >= results[order[k]].score
  <2>1. order[m] \in D /\ order[k] \in D /\ place[order[m]] = m /\ place[order[k]] = k
    BY <1>13
  <2>2. order[m] # order[k]
    BY <2>1, <1>20
  <2>3. ~before(order[k], order[m])
    <3> SUFFICES ASSUME before(order[k], order[m])
                 PROVE  FALSE
      OBVIOUS
    <3>1. k < m
      BY <2>1, <1>9
    <3> QED
      BY <1>1, <1>20, <3>1
  <2>4. before(order[m], order[k])
    BY <1>3, <2>1, <2>2, <2>3
  <2> QED
    BY <1>3, <2>1, <2>2, <2>4
<1>21. DOMAIN Top(results, topK) = 1..shown /\ Len(Top(results, topK)) = shown
  <2> DEFINE got == Top(results, topK)
             W == {got[m] : m \in 1..shown}
  <2>1. got = [m \in 1..shown |-> got[m]]
    BY <1>15
  <2> HIDE DEF got
  <2>2. got \in [1..shown -> W]
    BY <2>1
  <2> HIDE DEF W
  <2>3. DOMAIN got = 1..shown /\ Len(got) = shown
    BY <1>17, <2>2, FunctionIsSequence
  <2> QED
    BY <2>3 DEF got
<1>22. Order(order, results, shown, Top(results, topK))
  BY <1>14, <1>17, <1>18, <1>19, <1>20, <1>21 DEF Order
<1> QED
  BY <1>22 DEF shown

\* The first result of each chunk.
FirstOfEach(firsts, found) ==
    /\ Range(firsts) \subseteq Range(found) /\ DOMAIN firsts = 1..Len(firsts) /\ Len(firsts) \in Nat
    /\ \A i, j \in 1..Len(firsts) : i # j => firsts[i].chunk # firsts[j].chunk
    /\ \A r \in Range(found) : \E n \in 1..Len(firsts) : firsts[n].chunk = r.chunk

LEMMA FirstsAreFirst ==
    ASSUME NEW S, NEW found \in Seq(S)
    PROVE  FirstOfEach(Firsts(found), found)
<1> DEFINE K == {k \in DOMAIN found : \A j \in 1..(k - 1) : found[j].chunk # found[k].chunk}
           r == Firsts(found)
<1>1. r = Picked(found, K)
  BY DEF Firsts
<1>2. DOMAIN found = 1..Len(found) /\ Len(found) \in Nat
  OBVIOUS
<1> HIDE DEF r
<1>3. r \in Seq(S) /\ Range(r) = {found[k] : k \in K \cap DOMAIN found}
  BY <1>1, PickedInOrder, PickedElements
<1>4. DOMAIN r = 1..Len(r) /\ Len(r) \in Nat
  BY <1>3
<1>5. PICK p : Picks(p, r, found, K)
  BY <1>1, PickedInOrder
<1>6. Range(r) \subseteq Range(found)
  BY <1>3 DEF Range
<1>7. ASSUME NEW k \in DOMAIN found
      PROVE  \E n \in 1..Len(r) : r[n].chunk = found[k].chunk
  <2> DEFINE same == {j \in DOMAIN found : found[j].chunk = found[k].chunk}
  <2>1. same \subseteq Nat /\ k \in same
    BY <1>2
  <2>2. PICK j \in same : \A i \in same : j <= i
    <3> HIDE DEF same
    <3> QED
      BY <2>1, LeastNatural
  <2>3. \A i \in 1..(j - 1) : i \in DOMAIN found /\ ~(j <= i)
    BY <1>2
  <2>4. \A i \in 1..(j - 1) : found[i].chunk # found[j].chunk
    BY <2>2, <2>3
  <2>5. j \in K \cap DOMAIN found /\ found[j].chunk = found[k].chunk
    BY <2>2, <2>4
  <2> HIDE DEF K, same
  <2>6. PICK n \in 1..Len(r) : p[n] = j
    BY <1>5, <2>5 DEF Picks
  <2>7. r[n] = found[j]
    BY <1>5, <2>6 DEF Picks
  <2> QED
    BY <2>5, <2>7
<1>8. ASSUME NEW i \in 1..Len(r), NEW j \in 1..Len(r), i < j
      PROVE  r[i].chunk # r[j].chunk
  <2>1. /\ p[i] \in K /\ p[j] \in K /\ p[i] < p[j]
        /\ r[i] = found[p[i]] /\ r[j] = found[p[j]]
    BY <1>5, <1>8 DEF Picks
  <2>2. p[i] \in 1..(p[j] - 1)
    BY <1>2, <2>1
  <2> QED
    BY <2>1, <2>2
<1>9. \A i, j \in 1..Len(r) : i # j => r[i].chunk # r[j].chunk
  <2> TAKE i, j \in 1..Len(r)
  <2> HAVE i # j
  <2>1. i < j \/ j < i
    BY <1>4
  <2> QED
    BY <2>1, <1>8
<1>10. \A x \in Range(found) : \E n \in 1..Len(r) : r[n].chunk = x.chunk
  BY <1>7 DEF Range
<1> QED
  BY <1>4, <1>6, <1>9, <1>10 DEF FirstOfEach, r

\* The results of which one is kept for each chunk.
BestOnes(distinct, found) ==
    /\ DOMAIN distinct = 1..Len(distinct) /\ Len(distinct) \in Nat
    /\ \A i \in 1..Len(distinct) : distinct[i] \in Range(found)
    /\ \A i \in 1..Len(distinct) : \A r \in Range(found) :
          r.chunk = distinct[i].chunk => r.score <= distinct[i].score
    /\ \A i, j \in 1..Len(distinct) : i # j => distinct[i].chunk # distinct[j].chunk
    /\ \A r \in Range(found) : \E i \in 1..Len(distinct) : distinct[i].chunk = r.chunk

LEMMA DistinctAreBest ==
    ASSUME NEW S, NEW found \in Seq(S), \A r \in S : r.score \in Nat
    PROVE  BestOnes(DedupeResults(found), found)
<1> DEFINE R == Range(found)
           firsts == Firsts(found)
           best(c) == CHOOSE r \in R : r.chunk = c /\ \A o \in R : o.chunk = c => o.score <= r.score
           d == DedupeResults(found)
<1>1. FirstOfEach(firsts, found)
  BY FirstsAreFirst
<1>2. d = [n \in DOMAIN firsts |-> best(firsts[n].chunk)]
  BY DEF DedupeResults
<1>3. R \subseteq S
  BY DEF Range
<1>4. IsFiniteSet(R)
  BY FiniteRange
<1> HIDE DEF firsts, d
<1>5. ASSUME NEW x \in R
      PROVE  /\ best(x.chunk) \in R /\ best(x.chunk).chunk = x.chunk
             /\ \A o \in R : o.chunk = x.chunk => o.score <= best(x.chunk).score
  <2> HIDE DEF R
  <2> DEFINE same == {r \in R : r.chunk = x.chunk}
             f == [r \in same |-> r.score]
  <2>1. same \subseteq R /\ x \in same
    OBVIOUS
  <2>2. f \in [same -> Nat]
    BY <1>3
  <2>3. \A r \in same : f[r] = r.score
    OBVIOUS
  <2>4. IsFiniteSet(same)
    BY <1>4, <2>1, FS_Subset
  <2> HIDE DEF f, same
  <2>5. IsFiniteSet(Range(f))
    BY <2>2, <2>4, FiniteImage
  <2>6. Range(f) = {f[r] : r \in same}
    BY <2>2 DEF Range
  <2>7. Range(f) \subseteq Nat /\ Range(f) # {}
    BY <2>1, <2>2, <2>6
  <2>8. Max(Range(f)) \in Range(f) /\ \A k \in Range(f) : k <= Max(Range(f))
    BY <2>5, <2>7, MaxIs
  <2>9. PICK b \in same : f[b] = Max(Range(f))
    BY <2>6, <2>8
  <2>10. \A o \in same : f[o] <= f[b]
    BY <2>6, <2>8, <2>9
  <2>11. b \in R /\ b.chunk = x.chunk /\ \A o \in R : o.chunk = x.chunk => o.score <= b.score
    BY <2>3, <2>9, <2>10 DEF same
  <2> QED
    BY <2>11
<1> HIDE DEF best
<1>6. DOMAIN firsts = 1..Len(firsts) /\ Len(firsts) \in Nat /\ Range(firsts) \subseteq R
  BY <1>1 DEF FirstOfEach
<1>7. DOMAIN d = 1..Len(firsts)
  BY <1>2, <1>6
<1>8. ASSUME NEW i \in 1..Len(firsts)
      PROVE  /\ d[i] \in R /\ d[i].chunk = firsts[i].chunk
             /\ \A r \in R : r.chunk = d[i].chunk => r.score <= d[i].score
  <2>1. firsts[i] \in R
    BY <1>6 DEF Range
  <2>2. d[i] = best(firsts[i].chunk)
    BY <1>2, <1>6
  <2> HIDE DEF R
  <2> QED
    BY <1>5, <2>1, <2>2
<1>9. Len(d) = Len(firsts)
  <2>1. d = [i \in 1..Len(firsts) |-> d[i]]
    BY <1>2, <1>6
  <2> HIDE DEF R
  <2>2. d \in [1..Len(firsts) -> R]
    BY <1>8, <2>1
  <2> QED
    BY <1>6, <2>2, FunctionIsSequence
<1> HIDE DEF R
<1>10. \A i, j \in 1..Len(d) : i # j => d[i].chunk # d[j].chunk
  BY <1>1, <1>8, <1>9 DEF FirstOfEach
<1>11. \A r \in R : \E i \in 1..Len(d) : d[i].chunk = r.chunk
  BY <1>1, <1>8, <1>9 DEF FirstOfEach, R
<1> QED
  BY <1>6, <1>7, <1>8, <1>9, <1>10, <1>11 DEF BestOnes, d, R

LEMMA CandidatesAre ==
    ASSUME NEW S, NEW results \in Seq(S), NEW documents, NEW topK \in Nat
    PROVE  /\ Candidates(documents, results, topK) \in Seq(S)
           /\ Range(Candidates(documents, results, topK)) \subseteq Range(results)
           /\ documents # {} => \A r \in Range(Candidates(documents, results, topK)) : r.document \in documents
<1> DEFINE K == {k \in DOMAIN results : documents = {} \/ results[k].document \in documents}
           found == Picked(results, K)
<1>1. Candidates(documents, results, topK) = SubSeq(found, 1, Min({4 * topK, Len(found)}))
  BY DEF Candidates
<1>2. found \in Seq(S) /\ Range(found) = {results[k] : k \in K \cap DOMAIN results}
  BY PickedInOrder, PickedElements
<1>3. Range(found) \subseteq Range(results) /\ (documents # {} => \A r \in Range(found) : r.document \in documents)
  BY <1>2 DEF Range
<1>4. 4 * topK \in Nat
  OBVIOUS
<1> HIDE DEF found
<1> DEFINE m == 4 * topK
<1> HIDE DEF m
<1>5. SubSeq(found, 1, Min({m, Len(found)})) \in Seq(S) /\ Range(SubSeq(found, 1, Min({m, Len(found)}))) \subseteq Range(found)
  BY <1>2, <1>4, FirstOnes DEF m
<1> QED
  BY <1>1, <1>3, <1>5 DEF m

LEMMA OverlapIsNumber ==
    ASSUME NEW query, IsFiniteSet(query), NEW terms
    PROVE  Overlap(query, terms) \in Nat
<1>1. CASE query = {}
  BY <1>1 DEF Overlap
<1>2. CASE query # {}
  <2> DEFINE q == Cardinality(query)
             c == Cardinality(query \cap terms)
  <2>1. q \in Nat /\ q # 0
    BY <1>2, FS_CardinalityType, FS_EmptySet
  <2>2. c \in Nat
    <3>1. query \cap terms \subseteq query
      OBVIOUS
    <3>2. IsFiniteSet(query \cap terms)
      BY <3>1, FS_Subset
    <3> QED
      BY <3>2, FS_CardinalityType
  <2>3. Overlap(query, terms) = (10 * c) \div q
    BY <1>2 DEF Overlap
  <2> HIDE DEF c, q
  <2>4. 10 * c \in Nat
    BY <2>2
  <2> DEFINE b == 10 * c
  <2> HIDE DEF b
  <2>5. b \in Nat /\ q \in Nat /\ q > 0
    BY <2>1, <2>4 DEF b
  <2>6. b \div q \in Nat
    BY <2>5
  <2> QED
    BY <2>3, <2>6 DEF b
<1> QED
  BY <1>1, <1>2

\* What reranking leaves alone, and what it adds to a score.
LEMMA RerankedIs ==
    ASSUME NEW query, IsFiniteSet(query), NEW A, NEW B, NEW E, NEW r \in [chunk : A, document : B, score : Nat, terms : E]
    PROVE  /\ Reranked(query, r).chunk = r.chunk /\ Reranked(query, r).document = r.document
           /\ Reranked(query, r).score = 7 * r.score + 3 * Overlap(query, r.terms)
           /\ Reranked(query, r).score \in Nat
<1>1. Overlap(query, r.terms) \in Nat
  BY OverlapIsNumber
<1>2. /\ Reranked(query, r).chunk = r.chunk /\ Reranked(query, r).document = r.document
      /\ Reranked(query, r).score = 7 * r.score + 3 * Overlap(query, r.terms)
  BY DEF Reranked
<1>3. 7 * r.score + 3 * Overlap(query, r.terms) \in Nat
  <2>1. r.score \in Nat
    OBVIOUS
  <2> QED
    BY <1>1, <2>1
<1> QED
  BY <1>2, <1>3

\* The best score of a chunk is that of the result kept for it.
ScoresBest(query, found, b) ==
    Max({Reranked(query, r).score : r \in {s \in found : s.chunk = b.chunk}}) = Reranked(query, b).score

LEMMA BestScore ==
    ASSUME NEW query, IsFiniteSet(query), NEW A, NEW B, NEW E,
           NEW found, IsFiniteSet(found), found \subseteq [chunk : A, document : B, score : Nat, terms : E],
           \A r, o \in found : r.chunk = o.chunk => r.terms = o.terms,
           NEW b \in found, \A r \in found : r.chunk = b.chunk => r.score <= b.score
    PROVE  ScoresBest(query, found, b)
<1> DEFINE same == {s \in found : s.chunk = b.chunk}
           score == [r \in same |-> Reranked(query, r).score]
           scores == {Reranked(query, r).score : r \in same}
<1>1. \A r \in same : Reranked(query, r).score \in Nat
  BY RerankedIs
<1>2. ASSUME NEW r \in same
      PROVE  Reranked(query, r).score <= Reranked(query, b).score
  <2>1. r \in found /\ r.score <= b.score /\ r.terms = b.terms
    OBVIOUS
  <2>2. r.score \in Nat /\ b.score \in Nat /\ Overlap(query, b.terms) \in Nat
    BY OverlapIsNumber
  <2>3. /\ Reranked(query, r).score = 7 * r.score + 3 * Overlap(query, b.terms)
        /\ Reranked(query, b).score = 7 * b.score + 3 * Overlap(query, b.terms)
    BY <2>1, RerankedIs
  <2> DEFINE p == r.score
             q == b.score
             o == Overlap(query, b.terms)
  <2>4. p \in Nat /\ q \in Nat /\ o \in Nat /\ p <= q
    BY <2>1, <2>2
  <2> HIDE DEF p, q, o
  <2>5. 7 * p + 3 * o <= 7 * q + 3 * o
    BY <2>4
  <2> QED
    BY <2>3, <2>5 DEF p, q, o
<1>3. b \in same /\ same \subseteq found
  OBVIOUS
<1>4. Range(score) = scores
  BY DEF Range
<1>5. score \in [same -> Nat]
  BY <1>1
<1>6. Reranked(query, b).score \in scores /\ \A n \in scores : n <= Reranked(query, b).score
  BY <1>2, <1>3
<1>7. scores \subseteq Nat
  BY <1>1
<1>8. IsFiniteSet(same)
  BY <1>3, FS_Subset
<1> HIDE DEF score, same
<1>9. IsFiniteSet(Range(score))
  BY <1>5, <1>8, FiniteImage
<1> DEFINE top == Reranked(query, b).score
           t == scores
<1>10. t \subseteq Nat /\ IsFiniteSet(t) /\ top \in t /\ \A n \in t : n <= top
  BY <1>4, <1>6, <1>7, <1>9
<1> HIDE DEF t, top
<1>11. Max(t) \in t /\ \A n \in t : n <= Max(t)
  BY <1>10, MaxIs
<1>12. Max(t) = top
  <2>1. Max(t) \in Nat /\ top \in Nat /\ Max(t) <= top /\ top <= Max(t)
    BY <1>10, <1>11
  <2> QED
    BY <2>1
<1> QED
  BY <1>12 DEF t, top, scores, same, ScoresBest

\* What is shown is the best of each of the best chunks.
LEMMA RetrievedIsBest ==
    ASSUME NEW query, NEW documents, NEW results, NEW topK, SearchOK(query, results, topK)
    PROVE  BestOfEach(query, documents, results, topK, Retrieve(query, documents, results, topK))
<1> DEFINE S == Results(results)
           found == Candidates(documents, results, topK)
           R == Range(found)
           d == DedupeResults(found)
           n == Len(d)
           x == [k \in DOMAIN d |-> Reranked(query, d[k])]
           got == Top(x, topK)
           chunks == {r.chunk : r \in R}
           best(c) == Max({Reranked(query, r).score : r \in {s \in R : s.chunk = c}})
<1>1. /\ IsFiniteSet(query) /\ topK \in Nat \ {0} /\ results \in Seq(S)
      /\ \A r, o \in Range(results) : r.chunk = o.chunk => r.terms = o.terms
      /\ \A r \in S : r.score \in Nat
  BY DEF SearchOK, Results
<1> HIDE DEF found
<1>2. found \in Seq(S) /\ R \subseteq Range(results) /\ (documents # {} => \A r \in R : r.document \in documents)
  <2> HIDE DEF S
  <2> QED
    BY <1>1, CandidatesAre DEF found
<1>3. R \subseteq S /\ IsFiniteSet(R)
  <2> HIDE DEF S
  <2>1. IsFiniteSet(R)
    BY <1>2, FiniteRange
  <2>2. \A k \in DOMAIN found : found[k] \in S
    BY <1>2
  <2> QED
    BY <2>1, <2>2 DEF Range
<1> HIDE DEF S
<1>4. BestOnes(d, found)
  BY <1>1, <1>2, DistinctAreBest
<1> HIDE DEF d, R
<1>5. /\ DOMAIN d = 1..n /\ n \in Nat
      /\ \A i \in 1..n : d[i] \in R /\ \A r \in R : r.chunk = d[i].chunk => r.score <= d[i].score
      /\ \A i, j \in 1..n : i # j => d[i].chunk # d[j].chunk
      /\ \A r \in R : \E i \in 1..n : d[i].chunk = r.chunk
  BY <1>4 DEF BestOnes, R
<1>6. ASSUME NEW i \in 1..n
      PROVE  /\ x[i].chunk = d[i].chunk /\ x[i].document = d[i].document
             /\ x[i].score = best(d[i].chunk) /\ x[i].score \in Nat
  <2> DEFINE b == d[i]
  <2>1. x[i] = Reranked(query, b)
    BY <1>5
  <2>2. b \in R /\ \A r \in R : r.chunk = b.chunk => r.score <= b.score
    BY <1>5
  <2> HIDE DEF x, b
  <2>3. b \in S
    BY <1>3, <2>2
  <2> DEFINE A == {r.chunk : r \in Range(results)}
             B == {r.document : r \in Range(results)}
             E == {r.terms : r \in Range(results)}
  <2>4. S = [chunk : A, document : B, score : Nat, terms : E]
    BY DEF S, Results
  <2>5. \A r, o \in R : r.chunk = o.chunk => r.terms = o.terms
    BY <1>1, <1>2
  <2> HIDE DEF A, B, E
  <2>6. /\ Reranked(query, b).chunk = b.chunk /\ Reranked(query, b).document = b.document
        /\ Reranked(query, b).score \in Nat
    BY <1>1, <2>3, <2>4, RerankedIs
  <2>7. best(b.chunk) = Reranked(query, b).score
    <3>1. ScoresBest(query, R, b)
      BY <1>1, <1>3, <2>2, <2>4, <2>5, BestScore
    <3> QED
      BY <3>1 DEF ScoresBest
  <2> HIDE DEF best
  <2> QED
    BY <2>1, <2>6, <2>7 DEF b
<1> HIDE DEF best
<1>7. DOMAIN x = 1..n /\ x = [k \in 1..n |-> x[k]]
  BY <1>5
<1> HIDE DEF x
<1>8. Len(x) = n /\ x \in Seq({x[k] : k \in 1..n})
  <2> DEFINE W == {x[k] : k \in 1..n}
  <2>1. \A k \in 1..n : x[k] \in W
    OBVIOUS
  <2> HIDE DEF W
  <2>2. x \in [1..n -> W]
    BY <1>7, <2>1
  <2>3. x \in Seq(W) /\ Len(x) = n
    BY <1>5, <2>2, FunctionIsSequence
  <2> QED
    BY <2>3 DEF W
<1> DEFINE shown == Min({topK, n})
<1>9. PICK order : Order(order, x, shown, got)
  <2> DEFINE W == {x[k] : k \in 1..n}
  <2>1. \A i \in DOMAIN x : x[i].score \in Int
    BY <1>6, <1>7
  <2> HIDE DEF W
  <2>2. x \in Seq(W)
    BY <1>8 DEF W
  <2>3. \E order : Order(order, x, Min({topK, Len(x)}), Top(x, topK))
    BY <1>1, <2>1, <2>2, TopOrders
  <2> QED
    BY <1>8, <2>3
<1>10. Cardinality(chunks) = n
  <2> DEFINE s == [i \in 1..n |-> d[i].chunk]
  <2>1. s \in [1..n -> chunks] /\ \A i, j \in 1..n : i # j => s[i] # s[j]
    BY <1>5
  <2>2. Range(s) = chunks
    <3>1. Range(s) = {d[i].chunk : i \in 1..n}
      BY DEF Range
    <3>2. chunks \subseteq {d[i].chunk : i \in 1..n}
      BY <1>5
    <3>3. {d[i].chunk : i \in 1..n} \subseteq chunks
      BY <1>5
    <3> QED
      BY <3>1, <3>2, <3>3
  <2> HIDE DEF chunks, s
  <2>3. s \in Seq(chunks) /\ Len(s) = n
    BY <1>5, <2>1, FunctionIsSequence
  <2> QED
    BY <2>1, <2>2, <2>3, AsManyAsLong
<1> HIDE DEF got, shown
<1>11. /\ order \in [1..n -> 1..n]
       /\ \A i \in 1..n : \E m \in 1..n : order[m] = i
       /\ \A m, k \in 1..n : m < k => order[m] # order[k] /\ x[order[m]].score >= x[order[k]].score
       /\ shown \in Nat /\ shown <= n /\ DOMAIN got = 1..shown /\ Len(got) = shown
       /\ \A m \in 1..shown : got[m] = x[order[m]]
  BY <1>8, <1>9 DEF Order
<1>12. ASSUME NEW m \in 1..shown
       PROVE  m \in 1..n /\ order[m] \in 1..n /\ got[m] = x[order[m]] /\ d[order[m]] \in R
  <2>1. m \in 1..n
    BY <1>5, <1>11
  <2> QED
    BY <2>1, <1>5, <1>11
<1>13. documents # {} => \A m \in 1..shown : got[m].document \in documents
  BY <1>2, <1>6, <1>12
<1>14. \A i, j \in 1..shown : i < j => got[i].chunk # got[j].chunk /\ got[i].score >= got[j].score
  <2> SUFFICES ASSUME NEW i \in 1..shown, NEW j \in 1..shown, i < j
               PROVE  got[i].chunk # got[j].chunk /\ got[i].score >= got[j].score
    OBVIOUS
  <2>1. /\ order[i] # order[j] /\ x[order[i]].score >= x[order[j]].score
        /\ got[i] = x[order[i]] /\ got[j] = x[order[j]] /\ order[i] \in 1..n /\ order[j] \in 1..n
    BY <1>11, <1>12
  <2>2. d[order[i]].chunk # d[order[j]].chunk
    BY <1>5, <2>1
  <2> QED
    BY <1>6, <2>1, <2>2
<1>15. \A m \in 1..shown : got[m].chunk \in chunks /\ got[m].score = best(got[m].chunk)
  BY <1>6, <1>12
<1>16. ASSUME NEW c \in chunks, \A m \in 1..shown : got[m].chunk # c, NEW m \in 1..shown
       PROVE  got[m].score >= best(c)
  <2>1. PICK r \in R : c = r.chunk
    OBVIOUS
  <2>2. PICK i \in 1..n : d[i].chunk = c
    BY <1>5, <2>1
  <2>3. PICK k \in 1..n : order[k] = i
    BY <1>11
  <2>4. k \notin 1..shown
    BY <1>6, <1>12, <1>16, <2>2, <2>3
  <2>5. m \in 1..n /\ m < k
    BY <1>5, <1>11, <2>4
  <2>6. x[order[m]].score >= x[order[k]].score
    BY <1>11, <2>5
  <2>7. x[order[k]].score = best(c) /\ got[m] = x[order[m]]
    BY <1>6, <1>12, <2>2, <2>3
  <2> QED
    BY <2>6, <2>7
<1>17. Retrieve(query, documents, results, topK) = got
  BY DEF Retrieve, got, x, d, found
<1> HIDE DEF chunks
<1>18. Len(got) = Min({topK, Cardinality(chunks)})
  BY <1>10, <1>11 DEF shown
<1>19. BestOfEach(query, documents, results, topK, got)
  <2>1. \A c \in chunks : (\A i \in DOMAIN got : got[i].chunk # c) => \A i \in DOMAIN got : got[i].score >= best(c)
    BY <1>11, <1>16
  <2> QED
    BY <1>11, <1>13, <1>14, <1>15, <1>18, <2>1 DEF BestOfEach, chunks, best, R, found
<1> QED
  BY <1>17, <1>19

-----------------------------------------------------------------------------
(* Answers and citations (module Answers)                                  *)

Sentences == [says : Speech, refs : Seq(Nat), after : Seq(Nat)]
Named(s) == Range(s.refs) \cup Range(s.after)

\* The references that are extracted are the ones of the sentences, once each.
Extracts(refs, message) ==
    /\ refs \in Seq(Nat)
    /\ Range(refs) = UNION {Named(message[k]) : k \in DOMAIN message}
    /\ \A i, j \in 1..Len(refs) : i # j => refs[i] # refs[j]

LEMMA ExtractedRefs ==
    ASSUME NEW message \in Seq(Sentences)
    PROVE  Extracts(ExtractSourceRefs(message), message)
<1> DEFINE mentions == [k \in DOMAIN message |-> message[k].refs \o message[k].after]
<1>1. \A k \in DOMAIN message : message[k].refs \in Seq(Nat) /\ message[k].after \in Seq(Nat)
  <2>1. \A k \in DOMAIN message : message[k] \in Sentences
    OBVIOUS
  <2> QED
    BY <2>1 DEF Sentences
<1>2. mentions \in Seq(Seq(Nat))
  <2>1. \A a, b \in Seq(Nat) : a \o b \in Seq(Nat)
    OBVIOUS
  <2>2. mentions \in [1..Len(message) -> Seq(Nat)] /\ Len(message) \in Nat
    BY <1>1, <2>1
  <2> QED
    BY <2>2
<1>3. \A k \in DOMAIN message : Range(mentions[k]) = Named(message[k])
  BY <1>1, ConcatRange DEF Named
<1>4. DOMAIN mentions = DOMAIN message
  OBVIOUS
<1>5. ExtractSourceRefs(message) = Distinct(FlattenSeq(mentions))
  BY DEF ExtractSourceRefs
<1> HIDE DEF mentions
<1>6. FlattenSeq(mentions) \in Seq(Nat) /\ Range(FlattenSeq(mentions)) = UNION {Range(mentions[k]) : k \in DOMAIN mentions}
  BY <1>2, FlattenLays, FlattenedElements
<1>7. {Range(mentions[k]) : k \in DOMAIN mentions} = {Named(message[k]) : k \in DOMAIN message}
  BY <1>3, <1>4
<1> DEFINE flat == FlattenSeq(mentions)
<1> HIDE DEF flat
<1>8. /\ Distinct(flat) \in Seq(Nat) /\ Range(Distinct(flat)) = Range(flat)
      /\ \A i, j \in 1..Len(Distinct(flat)) : i # j => Distinct(flat)[i] # Distinct(flat)[j]
  BY <1>6, DistinctElements DEF flat
<1> QED
  BY <1>5, <1>6, <1>7, <1>8 DEF Extracts, flat

\* What the pipeline makes of a message is grounded in it, claim by claim.
LEMMA GeneratedIsGrounded ==
    ASSUME NEW message \in Seq(Sentences), NEW count \in Nat
    PROVE  Grounded(message, count, Generate(message, count))
<1> DEFINE got == Generate(message, count)
           refs == ExtractSourceRefs(message)
<1>1. Extracts(refs, message)
  BY ExtractedRefs
<1>2. CASE got.outcome = "answer"
  <2>1. /\ got = [outcome |-> "answer", citations |-> refs]
        /\ Uncited(message) = {} /\ Range(refs) \subseteq 1..count /\ refs # << >>
    BY <1>2 DEF Generate, BuildCitations, Refused, Unanswered
  <2>2. ASSUME NEW k \in DOMAIN message, message[k].says = "claim"
        PROVE  Named(message[k]) # {}
    <3>1. NormalizeCitationPlacement(message)[k].refs # << >>
      BY <2>1, <2>2 DEF Uncited
    <3>2. message[k] \in Sentences
      OBVIOUS
    <3>3. message[k].refs \in Seq(Nat) /\ message[k].after \in Seq(Nat)
      BY <3>2 DEF Sentences
    <3>4. NormalizeCitationPlacement(message)[k].refs = message[k].refs \o message[k].after
      BY <3>2 DEF NormalizeCitationPlacement, Sentences
    <3>5. message[k].refs # << >> \/ message[k].after # << >>
      BY <3>1, <3>3, <3>4
    <3>6. \A s \in Seq(Nat) : s # << >> => 1 \in DOMAIN s
      OBVIOUS
    <3> QED
      BY <3>3, <3>5, <3>6 DEF Named, Range
  <2>3. UNION {Named(message[k]) : k \in DOMAIN message} = UNION {Named(s) : s \in Range(message)}
    BY DEF Range
  <2>4. Cardinality(Range(refs)) = Len(refs)
    BY <1>1, AsManyAsLong DEF Extracts
  <2> HIDE DEF refs, got
  <2>5. Range(refs) = UNION {Named(s) : s \in Range(message)}
    BY <1>1, <2>3 DEF Extracts
  <2>6. got.citations = refs
    BY <2>1
  <2> QED
    BY <2>1, <2>2, <2>4, <2>5, <2>6 DEF Grounded, Named, got
<1>3. CASE got.outcome # "answer"
  BY <1>3 DEF Grounded
<1> QED
  BY <1>2, <1>3

-----------------------------------------------------------------------------
(* The local language model (module Answers)                               *)

\* An evidence unit: a sentence, or a useful line with a heading not far above it.
IsUnit(lines, u) ==
    \/ \E s \in Range(FlattenSeq(lines)) : u = << s >>
    \/ \E i, j \in DOMAIN lines : /\ LooksLikeHeading(lines[i]) /\ Useful(lines[j]) /\ i < j /\ j <= i + 4
                                  /\ u = Headed(lines[i], lines[j])

AreUnits(units, lines) ==
    /\ \E W : units \in Seq(W)
    /\ \A u \in Range(units) : IsUnit(lines, u)

IsNext(lines, i, j) == j \in DOMAIN lines /\ Useful(lines[j]) /\ i < j /\ j <= i + 4

LEMMA NextLineUseful ==
    ASSUME NEW S, NEW lines \in Seq(S), NEW i \in DOMAIN lines, NextUsefulLines(lines, i) # {}
    PROVE  IsNext(lines, i, Min(NextUsefulLines(lines, i)))
<1>1. DOMAIN lines = 1..Len(lines) /\ Len(lines) \in Nat /\ i \in 1..Len(lines)
  OBVIOUS
<1>2. Min({i + 4, Len(lines)}) \in {i + 4, Len(lines)} /\ Min({i + 4, Len(lines)}) <= Len(lines)
      /\ Min({i + 4, Len(lines)}) <= i + 4
  <2> DEFINE b == {i + 4, Len(lines)}
  <2>1. b \subseteq Nat /\ b # {} /\ Len(lines) \in b /\ i + 4 \in b
    BY <1>1
  <2> HIDE DEF b
  <2>2. Min(b) \in b /\ \A n \in b : Min(b) <= n
    BY <2>1, MinIs
  <2> QED
    BY <2>1, <2>2 DEF b
<1> DEFINE bound == Min({i + 4, Len(lines)})
<1>3. bound \in Nat /\ bound <= Len(lines) /\ bound <= i + 4
  BY <1>1, <1>2
<1>4. NextUsefulLines(lines, i) = {j \in (i + 1)..bound : ~LooksLikeHeading(lines[j]) /\ Useful(lines[j])}
  BY DEF NextUsefulLines
<1> HIDE DEF bound
<1> DEFINE next == NextUsefulLines(lines, i)
<1>5. \A j \in next : j \in 1..Len(lines) /\ Useful(lines[j]) /\ i < j /\ j <= i + 4
  BY <1>1, <1>3, <1>4
<1>6. next \subseteq Nat /\ next # {}
  BY <1>5
<1> HIDE DEF next
<1>7. Min(next) \in next
  BY <1>6, MinIs
<1> QED
  BY <1>1, <1>5, <1>7 DEF next, IsNext

LEMMA UnitsAreUnits ==
    ASSUME NEW S, NEW lines \in Seq(Seq(S))
    PROVE  AreUnits(EvidenceUnits(lines), lines)
<1> DEFINE heads == [i \in DOMAIN lines |->
                        IF LooksLikeHeading(lines[i]) /\ NextUsefulLines(lines, i) # {}
                        THEN << Headed(lines[i], lines[Min(NextUsefulLines(lines, i))]) >> ELSE << >>]
           sentences == FlattenSeq(lines)
           single == [k \in DOMAIN sentences |-> << sentences[k] >>]
           A == {Headed(lines[i], lines[j]) : i \in DOMAIN lines, j \in DOMAIN lines}
           B == {<< s >> : s \in Range(sentences)}
           W == A \cup B
<1>1. sentences \in Seq(S)
  BY FlattenLays
<1>2. EvidenceUnits(lines) = Distinct(FlattenSeq(heads) \o single)
  BY DEF EvidenceUnits
<1>3. DOMAIN lines = 1..Len(lines) /\ Len(lines) \in Nat
  OBVIOUS
<1> HIDE DEF sentences
<1>4. single \in Seq(W) /\ Range(single) = B
  <2>1. DOMAIN sentences = 1..Len(sentences) /\ Len(sentences) \in Nat
    BY <1>1
  <2>2. \A k \in DOMAIN sentences : << sentences[k] >> \in B
    BY DEF Range
  <2>3. B \subseteq W
    OBVIOUS
  <2>4. Range(single) = B
    BY Zenon DEF Range
  <2> HIDE DEF A, B, W
  <2>5. single \in [1..Len(sentences) -> W]
    BY <2>1, <2>2, <2>3
  <2> HIDE DEF single
  <2>6. single \in Seq(W)
    BY <2>1, <2>5, FunctionIsSequence
  <2> QED
    BY <2>4, <2>6
<1>5. ASSUME NEW i \in DOMAIN lines
      PROVE  /\ heads[i] \in Seq(W)
             /\ \A u \in Range(heads[i]) : IsUnit(lines, u)
  <2>1. CASE LooksLikeHeading(lines[i]) /\ NextUsefulLines(lines, i) # {}
    <3> DEFINE j == Min(NextUsefulLines(lines, i))
               u == Headed(lines[i], lines[j])
    <3>1. heads[i] = << u >>
      BY <2>1
    <3>2. j \in DOMAIN lines /\ Useful(lines[j]) /\ i < j /\ j <= i + 4
      BY <2>1, NextLineUseful DEF IsNext
    <3> HIDE DEF j
    <3>3. u \in W /\ IsUnit(lines, u)
      BY <2>1, <3>2 DEF IsUnit
    <3> HIDE DEF u, W, heads
    <3>4. << u >> \in Seq(W) /\ DOMAIN << u >> = {1} /\ << u >>[1] = u
      BY <3>3
    <3> QED
      BY <3>1, <3>3, <3>4 DEF Range
  <2>2. CASE ~(LooksLikeHeading(lines[i]) /\ NextUsefulLines(lines, i) # {})
    <3>1. heads[i] = << >>
      BY <2>2
    <3> HIDE DEF heads, W
    <3>2. << >> \in Seq(W) /\ DOMAIN << >> = {}
      OBVIOUS
    <3> QED
      BY <3>1, <3>2 DEF Range
  <2> QED
    BY <2>1, <2>2
<1>6. DOMAIN heads = 1..Len(lines)
  BY <1>3
<1>7. heads \in Seq(Seq(W))
  <2> DEFINE T == Seq(W)
  <2>1. heads = [i \in 1..Len(lines) |-> heads[i]]
    BY <1>3
  <2> HIDE DEF heads, W
  <2>2. \A i \in 1..Len(lines) : heads[i] \in T
    BY <1>3, <1>5
  <2> HIDE DEF T
  <2>3. heads \in [1..Len(lines) -> T]
    BY <2>1, <2>2
  <2>4. heads \in Seq(T)
    BY <2>3, <1>3, FunctionIsSequence
  <2> QED
    BY <2>4 DEF T
<1>8. \A u \in B : IsUnit(lines, u)
  BY DEF IsUnit, sentences
<1> HIDE DEF heads, single, W, A, B
<1> DEFINE flat == FlattenSeq(heads)
           all == flat \o single
<1>9. flat \in Seq(W) /\ Range(flat) = UNION {Range(heads[i]) : i \in DOMAIN heads}
  BY <1>7, FlattenLays, FlattenedElements
<1>10. \A u \in Range(flat) : IsUnit(lines, u)
  BY <1>3, <1>5, <1>6, <1>9
<1> HIDE DEF flat
<1>11. all \in Seq(W) /\ Range(all) = Range(flat) \cup Range(single)
  BY <1>4, <1>9, ConcatRange
<1> HIDE DEF all
<1>12. Distinct(all) \in Seq(W) /\ Range(Distinct(all)) = Range(all)
  BY <1>11, DistinctElements
<1> QED
  BY <1>2, <1>4, <1>8, <1>10, <1>11, <1>12 DEF AreUnits, all, flat

Written == [terms : SUBSET STRING, words : Nat, stop : BOOLEAN, says : Speech, lead : Seq(Nat), refs : Seq(Nat)]

\* The markers in sentences of a text.
Marks(s) == Range(s.lead) \cup Range(s.refs)
Marked(sentences) == UNION {Marks(s) : s \in Range(sentences)}

\* A unit says nothing its lines do not, and is a single sentence unless a
\* heading stands above a line and one of them is of several.
Split(lines) ==
    \E i, j \in DOMAIN lines : /\ LooksLikeHeading(lines[i]) /\ i < j /\ j <= i + 4
                               /\ Len(lines[i]) + Len(lines[j]) > 2
UnitIsFit(lines, u) ==
    /\ u \in Seq(Written) /\ Len(u) >= 1
    /\ TermsOf(u) \subseteq TermsOf(FlattenSeq(lines))
    /\ Marked(u) \subseteq Marked(FlattenSeq(lines))
    /\ Split(lines) \/ Len(u) = 1

\* "Heading: line", sentence by sentence.
HeadedIs(u, heading, line) ==
    /\ u \in Seq(Written) /\ Len(u) = Len(heading) + Len(line) - 1
    /\ \A s \in Range(u) :
          /\ s.terms \subseteq TermsOf(heading) \cup TermsOf(line)
          /\ Marks(s) \subseteq Marked(heading) \cup Marked(line)

LEMMA ConcatLength ==
    ASSUME NEW S, NEW a \in Seq(S), NEW b \in Seq(S)
    PROVE  a \o b \in Seq(S) /\ Len(a \o b) = Len(a) + Len(b)
OBVIOUS

LEMMA FirstPart ==
    ASSUME NEW S, NEW s \in Seq(S), NEW m \in 0..Len(s)
    PROVE  SubSeq(s, 1, m) \in Seq(S) /\ Len(SubSeq(s, 1, m)) = m
OBVIOUS

LEMMA HeadingRuns ==
    ASSUME NEW heading \in Seq(Written), heading # << >>, NEW line \in Seq(Written), line # << >>
    PROVE  HeadedIs(Headed(heading, line), heading, line)
<1> DEFINE last == heading[Len(heading)]
           first == line[1]
           joined == [last EXCEPT !.terms = @ \cup first.terms, !.words = @ + first.words, !.stop = first.stop,
                                  !.refs = @ \o first.lead \o first.refs]
           one == << joined >>
           front == Front(heading)
           rest == Tail(line)
           u == Headed(heading, line)
<1>1. u = (front \o one) \o rest
  BY DEF Headed
<1>2. /\ Len(heading) \in Nat /\ Len(heading) >= 1 /\ Len(line) \in Nat /\ Len(line) >= 1
      /\ Len(heading) \in DOMAIN heading /\ 1 \in DOMAIN line
  OBVIOUS
<1>3. last \in Written /\ first \in Written /\ last \in Range(heading) /\ first \in Range(line)
  BY <1>2 DEF Range
<1>4. front \in Seq(Written) /\ Len(front) = Len(heading) - 1 /\ \A k \in DOMAIN front : front[k] \in Range(heading)
  <2>1. front = SubSeq(heading, 1, Len(heading) - 1)
    BY DEF Front
  <2>2. front \in Seq(Written) /\ Len(front) = Len(heading) - 1
    <3>1. Len(heading) - 1 \in 0..Len(heading)
      BY <1>2
    <3> QED
      BY <2>1, <3>1, FirstPart
  <2>3. \A k \in 1..(Len(heading) - 1) : front[k] = heading[k] /\ k \in DOMAIN heading
    BY <2>1, <1>2
  <2>4. DOMAIN front = 1..(Len(heading) - 1)
    BY <2>2
  <2> HIDE DEF front
  <2> QED
    BY <2>2, <2>3, <2>4 DEF Range
<1>5. rest \in Seq(Written) /\ Len(rest) = Len(line) - 1 /\ \A k \in DOMAIN rest : rest[k] \in Range(line)
  <2>1. rest \in Seq(Written) /\ Len(rest) = Len(line) - 1 /\ DOMAIN rest = 1..(Len(line) - 1)
    BY <1>2
  <2>2. \A k \in 1..(Len(line) - 1) : rest[k] = line[k + 1] /\ k + 1 \in DOMAIN line
    BY <1>2
  <2> HIDE DEF rest
  <2> QED
    BY <2>1, <2>2 DEF Range
<1> HIDE DEF front, rest, u
<1>6. /\ joined.terms = last.terms \cup first.terms /\ joined.lead = last.lead
      /\ joined.refs = last.refs \o first.lead \o first.refs /\ joined \in Written
  <2> HIDE DEF last, first
  <2>1. /\ last = [terms |-> last.terms, words |-> last.words, stop |-> last.stop, says |-> last.says,
                   lead |-> last.lead, refs |-> last.refs]
        /\ last.refs \in Seq(Nat) /\ first.lead \in Seq(Nat) /\ first.refs \in Seq(Nat)
        /\ last.terms \cup first.terms \in SUBSET STRING /\ last.words + first.words \in Nat
        /\ first.stop \in BOOLEAN /\ last.says \in Speech /\ last.lead \in Seq(Nat)
    <3> DEFINE T == Seq(Nat)
    <3>1. /\ last \in [terms : SUBSET STRING, words : Nat, stop : BOOLEAN, says : Speech, lead : T, refs : T]
          /\ first \in [terms : SUBSET STRING, words : Nat, stop : BOOLEAN, says : Speech, lead : T, refs : T]
      BY <1>3 DEF Written
    <3> HIDE DEF T
    <3>2. last = [terms |-> last.terms, words |-> last.words, stop |-> last.stop, says |-> last.says,
                  lead |-> last.lead, refs |-> last.refs]
      BY <3>1
    <3>3. last.refs \in T /\ first.lead \in T /\ first.refs \in T /\ last.lead \in T
      BY <3>1
    <3>4. /\ last.terms \in SUBSET STRING /\ first.terms \in SUBSET STRING /\ last.words \in Nat /\ first.words \in Nat
          /\ first.stop \in BOOLEAN /\ last.says \in Speech
      BY <3>1
    <3> QED
      BY <3>2, <3>3, <3>4 DEF T
  <2> DEFINE refs == last.refs \o first.lead \o first.refs
             words == last.words + first.words
             terms == last.terms \cup first.terms
  <2>2. joined = [terms |-> terms, words |-> words, stop |-> first.stop, says |-> last.says,
                  lead |-> last.lead, refs |-> refs]
    <3> HIDE DEF refs, words, terms
    <3>1. joined = [last EXCEPT !.terms = terms, !.words = words, !.stop = first.stop, !.refs = refs]
      BY DEF refs, words, terms
    <3> HIDE DEF joined
    <3> QED
      BY <3>1, <2>1
  <2>3. refs \in Seq(Nat)
    BY <2>1
  <2> DEFINE T == Seq(Nat)
  <2>4. /\ terms \in SUBSET STRING /\ words \in Nat /\ first.stop \in BOOLEAN /\ last.says \in Speech
        /\ last.lead \in T /\ refs \in T
    BY <2>1, <2>3
  <2> HIDE DEF refs, words, terms, joined, T
  <2>5. joined \in [terms : SUBSET STRING, words : Nat, stop : BOOLEAN, says : Speech, lead : T, refs : T]
    BY <2>2, <2>4
  <2> QED
    BY <2>2, <2>5 DEF Written, T, refs, terms
<1> HIDE DEF joined
<1>7. one \in Seq(Written) /\ Len(one) = 1 /\ Range(one) = {joined}
  <2>1. one \in Seq(Written) /\ Len(one) = 1 /\ DOMAIN one = {1} /\ one[1] = joined
    BY <1>6
  <2> QED
    BY <2>1 DEF Range
<1> HIDE DEF one
<1> DEFINE head == front \o one
<1>8. head \in Seq(Written) /\ Len(head) = Len(heading) /\ Range(head) = Range(front) \cup {joined}
  <2>1. head \in Seq(Written) /\ Len(head) = Len(front) + Len(one)
    BY <1>4, <1>7, ConcatLength
  <2> QED
    BY <2>1, <1>2, <1>4, <1>7, ConcatRange
<1> HIDE DEF head
<1>9. u \in Seq(Written) /\ Len(u) = Len(heading) + Len(line) - 1 /\ Range(u) = Range(front) \cup {joined} \cup Range(rest)
  <2>1. u = head \o rest
    BY <1>1 DEF head
  <2>2. head \o rest \in Seq(Written) /\ Len(head \o rest) = Len(head) + Len(rest)
    BY <1>5, <1>8
  <2>3. Range(head \o rest) = Range(head) \cup Range(rest)
    BY <1>5, <1>8, ConcatRange
  <2> QED
    BY <2>1, <2>2, <2>3, <1>2, <1>5, <1>8
<1>10. /\ \A s \in Range(heading) : s.terms \subseteq TermsOf(heading) /\ Marks(s) \subseteq Marked(heading)
       /\ \A s \in Range(line) : s.terms \subseteq TermsOf(line) /\ Marks(s) \subseteq Marked(line)
  BY DEF TermsOf, Marked
<1>11. joined.terms \subseteq TermsOf(heading) \cup TermsOf(line) /\ Marks(joined) \subseteq Marked(heading) \cup Marked(line)
  <2>1. last.refs \in Seq(Nat) /\ first.lead \in Seq(Nat) /\ first.refs \in Seq(Nat)
    BY <1>3 DEF Written
  <2>2. joined.refs = (last.refs \o first.lead) \o first.refs /\ joined.lead = last.lead /\ joined.terms = last.terms \cup first.terms
    BY <1>6
  <2> HIDE DEF last, first
  <2>3. last.refs \o first.lead \in Seq(Nat)
    BY <2>1
  <2>4. Range(joined.refs) = Range(last.refs) \cup Range(first.lead) \cup Range(first.refs)
    <3> DEFINE a == last.refs
               b == first.lead
               c == first.refs
    <3>1. a \in Seq(Nat) /\ b \in Seq(Nat) /\ c \in Seq(Nat) /\ joined.refs = (a \o b) \o c /\ a \o b \in Seq(Nat)
      BY <2>1, <2>2, <2>3
    <3> HIDE DEF a, b, c
    <3>2. Range(a \o b) = Range(a) \cup Range(b)
      BY <3>1, ConcatRange
    <3> DEFINE ab == a \o b
    <3> HIDE DEF ab
    <3>3. ab \in Seq(Nat) /\ Range(ab) = Range(a) \cup Range(b)
      BY <3>1, <3>2 DEF ab
    <3>4. Range(ab \o c) = Range(ab) \cup Range(c)
      BY <3>1, <3>3, ConcatRange
    <3> QED
      BY <3>1, <3>3, <3>4 DEF a, b, c, ab
  <2>5. Marks(joined) = Marks(last) \cup Marks(first)
    BY <2>2, <2>4 DEF Marks
  <2> QED
    BY <2>2, <2>5, <1>3, <1>10
<1>12. Range(front) \subseteq Range(heading) /\ Range(rest) \subseteq Range(line)
  BY <1>4, <1>5 DEF Range
<1>13. ASSUME NEW s \in Range(u)
       PROVE  s.terms \subseteq TermsOf(heading) \cup TermsOf(line) /\ Marks(s) \subseteq Marked(heading) \cup Marked(line)
  <2>1. CASE s = joined
    BY <2>1, <1>11
  <2>2. CASE s \in Range(heading)
    BY <2>2, <1>10
  <2>3. CASE s \in Range(line)
    BY <2>3, <1>10
  <2> QED
    BY <2>1, <2>2, <2>3, <1>9, <1>12
<1> QED
  BY <1>9, <1>13 DEF HeadedIs, u

LEMMA UnitsAreFit ==
    ASSUME NEW lines \in Seq(Seq(Written)), NEW u, IsUnit(lines, u)
    PROVE  UnitIsFit(lines, u)
<1> DEFINE all == FlattenSeq(lines)
<1>1. Range(all) = UNION {Range(lines[i]) : i \in DOMAIN lines} /\ all \in Seq(Written)
  BY FlattenedElements, FlattenLays
<1> HIDE DEF all
<1>2. CASE \E s \in Range(all) : u = << s >>
  <2>1. PICK s \in Range(all) : u = << s >>
    BY <1>2
  <2>2. s \in Written
    BY <1>1 DEF Range
  <2>3. u \in Seq(Written) /\ DOMAIN u = {1} /\ Len(u) = 1 /\ u[1] = s
    BY <2>1, <2>2
  <2>4. Range(u) = {s}
    BY <2>3 DEF Range
  <2>5. TermsOf(u) \subseteq TermsOf(all) /\ Marked(u) \subseteq Marked(all)
    BY <2>1, <2>4 DEF TermsOf, Marked
  <2> QED
    BY <2>3, <2>5 DEF UnitIsFit, all
<1>3. CASE \E i, j \in DOMAIN lines : /\ LooksLikeHeading(lines[i]) /\ Useful(lines[j]) /\ i < j /\ j <= i + 4
                                      /\ u = Headed(lines[i], lines[j])
  <2>1. PICK i, j \in DOMAIN lines : /\ LooksLikeHeading(lines[i]) /\ Useful(lines[j]) /\ i < j /\ j <= i + 4
                                     /\ u = Headed(lines[i], lines[j])
    BY <1>3
  <2> DEFINE heading == lines[i]
             line == lines[j]
  <2>2. heading \in Seq(Written) /\ line \in Seq(Written)
    OBVIOUS
  <2>3. Range(heading) \subseteq Range(all) /\ Range(line) \subseteq Range(all)
    BY <1>1
  <2>4. LooksLikeHeading(heading) /\ Useful(line) /\ u = Headed(heading, line)
    BY <2>1
  <2>5. Len(heading) + Len(line) > 2 => Split(lines)
    BY <2>1 DEF Split
  <2> HIDE DEF heading, line
  <2>6. Range(<< >>) = {} /\ TermsOf(<< >>) = {}
    <3>1. DOMAIN << >> = {}
      OBVIOUS
    <3> QED
      BY <3>1 DEF TermsOf, Range
  <2>7. heading # << >>
    BY <2>4, <2>6 DEF LooksLikeHeading
  <2>8. line # << >>
    <3>1. Cardinality({}) = 0
      BY FS_EmptySet
    <3>2. Cardinality(TermsOf(line)) >= 2
      BY <2>4 DEF Useful
    <3>3. TermsOf(line) = {} => Cardinality(TermsOf(line)) = 0
      BY <3>1
    <3> QED
      BY <2>6, <3>2, <3>3
  <2>9. HeadedIs(u, heading, line)
    BY <2>2, <2>4, <2>7, <2>8, HeadingRuns
  <2>10. u \in Seq(Written) /\ Len(u) = Len(heading) + Len(line) - 1
    BY <2>9 DEF HeadedIs
  <2>11. Len(heading) \in Nat /\ Len(line) \in Nat /\ Len(heading) >= 1 /\ Len(line) >= 1
    BY <2>2, <2>7, <2>8
  <2>12. /\ TermsOf(heading) \subseteq TermsOf(all) /\ TermsOf(line) \subseteq TermsOf(all)
         /\ Marked(heading) \subseteq Marked(all) /\ Marked(line) \subseteq Marked(all)
    BY <2>3 DEF TermsOf, Marked
  <2>13. TermsOf(u) \subseteq TermsOf(all)
    <3>1. \A s \in Range(u) : s.terms \subseteq TermsOf(all)
      BY <2>9, <2>12 DEF HeadedIs
    <3> QED
      BY <3>1 DEF TermsOf
  <2>14. Marked(u) \subseteq Marked(all)
    <3>1. \A s \in Range(u) : Marks(s) \subseteq Marked(all)
      BY <2>9, <2>12 DEF HeadedIs
    <3> QED
      BY <3>1 DEF Marked
  <2>15. Split(lines) \/ Len(u) = 1
    BY <2>5, <2>10, <2>11
  <2>16. Len(u) >= 1
    BY <2>10, <2>11
  <2> QED
    BY <2>10, <2>13, <2>14, <2>15, <2>16 DEF UnitIsFit, all
<1> QED
  BY <1>2, <1>3 DEF IsUnit, all

\* What the local model says: a few cited units, each of a source that exists
\* and with a term of the query.
IsCited(c, query, sources) ==
    /\ c.source \in DOMAIN sources /\ IsUnit(sources[c.source], c.unit)
    /\ query \cap TermsOf(c.unit) # {}
CitedUnits(cited) == FlattenSeq([k \in DOMAIN cited |-> Cited(cited[k].source, cited[k].unit)])
SaysCited(message, query, sources) ==
    \/ message = NoAnswer
    \/ \E C : \E cited \in Seq(C) :
          /\ cited # << >> /\ message = AsMessage(CitedUnits(cited))
          /\ \A c \in Range(cited) : IsCited(c, query, sources)

LEMMA LocalSaysCited ==
    ASSUME NEW query, NEW S, NEW sources \in Seq(Seq(Seq(S)))
    PROVE  SaysCited(GenerateAnswer(query, sources), query, sources)
<1> DEFINE units(n) == EvidenceUnits(sources[n])
           pairs(n) == [k \in DOMAIN units(n) |-> [source |-> n, unit |-> units(n)[k]]]
           K(n) == {k \in DOMAIN units(n) : Useful(units(n)[k]) /\ query \cap TermsOf(units(n)[k]) # {}}
           mine == [n \in DOMAIN sources |-> Picked(pairs(n), K(n))]
           all == FlattenSeq(mine)
           cited == SubSeq(all, 1, Min({3, Len(all)}))
<1>1. GenerateAnswer(query, sources) =
        IF cited = << >> THEN NoAnswer ELSE AsMessage(CitedUnits(cited))
  BY DEF GenerateAnswer, CitedUnits
<1> DEFINE C == {c \in UNION {Range(pairs(n)) : n \in DOMAIN sources} : IsCited(c, query, sources)}
<1>2. ASSUME NEW n \in DOMAIN sources
      PROVE  mine[n] \in Seq(C)
  <2>1. sources[n] \in Seq(Seq(S))
    OBVIOUS
  <2>2. AreUnits(units(n), sources[n])
    BY <2>1, UnitsAreUnits
  <2> DEFINE us == units(n)
             ps == pairs(n)
             ks == K(n)
             P == Range(ps)
  <2>3. DOMAIN ps = DOMAIN us /\ \A k \in DOMAIN us : ps[k].source = n /\ ps[k].unit = us[k] /\ ps[k] \in P
    BY DEF Range
  <2>4. ks \subseteq DOMAIN us /\ \A k \in ks : query \cap TermsOf(us[k]) # {}
    OBVIOUS
  <2>5. mine[n] = Picked(ps, ks)
    OBVIOUS
  <2>6. C = {c \in UNION {Range(pairs(m)) : m \in DOMAIN sources} : IsCited(c, query, sources)} /\ P = Range(pairs(n))
    OBVIOUS
  <2>7. P \subseteq UNION {Range(pairs(m)) : m \in DOMAIN sources}
    OBVIOUS
  <2> DEFINE all0 == UNION {Range(pairs(m)) : m \in DOMAIN sources}
  <2>8. C = {c \in all0 : IsCited(c, query, sources)}
    OBVIOUS
  <2> HIDE DEF all0, C, mine
  <2> DEFINE D == P
  <2>9. ps = [k \in DOMAIN us |-> ps[k]]
    OBVIOUS
  <2>10. AreUnits(us, sources[n])
    BY <2>2
  <2> HIDE DEF units, us, ps, ks, P
  <2>11. PICK W : us \in Seq(W)
    BY <2>10 DEF AreUnits
  <2>12. DOMAIN us = 1..Len(us) /\ Len(us) \in Nat
    BY <2>11
  <2>13. ps \in Seq(P)
    <3>1. ps \in [1..Len(us) -> P]
      BY <2>3, <2>9, <2>12
    <3> QED
      BY <3>1, <2>12, FunctionIsSequence
  <2>14. Picked(ps, ks) \in Seq(P) /\ Range(Picked(ps, ks)) = {ps[k] : k \in ks \cap DOMAIN ps}
    BY <2>13, PickedInOrder, PickedElements
  <2>15. ASSUME NEW k \in ks
         PROVE  ps[k] \in C
    <3>1. k \in DOMAIN us /\ us[k] \in Range(us)
      BY <2>4 DEF Range
    <3>2. IsUnit(sources[n], us[k])
      BY <3>1, <2>10 DEF AreUnits
    <3>3. IsCited(ps[k], query, sources)
      BY <3>1, <3>2, <2>3, <2>4 DEF IsCited
    <3>4. ps[k] \in all0
      BY <3>1, <2>3, <2>7 DEF all0, P, ps
    <3> QED
      BY <3>3, <3>4, <2>8
  <2>16. Range(Picked(ps, ks)) \subseteq C
    BY <2>14, <2>15
  <2> DEFINE r == Picked(ps, ks)
  <2> HIDE DEF r
  <2>17. r \in Seq(P) /\ Range(r) \subseteq C
    BY <2>14, <2>16 DEF r
  <2>18. r \in Seq(C)
    <3>1. DOMAIN r = 1..Len(r) /\ Len(r) \in Nat /\ r = [k \in 1..Len(r) |-> r[k]]
      BY <2>17
    <3>2. \A k \in 1..Len(r) : r[k] \in C
      BY <2>17, <3>1 DEF Range
    <3>3. r \in [1..Len(r) -> C]
      BY <3>1, <3>2
    <3> QED
      BY <3>1, <3>3, FunctionIsSequence
  <2> QED
    BY <2>5, <2>18 DEF r
<1>3. DOMAIN mine = 1..Len(sources) /\ DOMAIN sources = 1..Len(sources) /\ Len(sources) \in Nat
  OBVIOUS
<1>4. mine = [n \in 1..Len(sources) |-> mine[n]]
  BY <1>3
<1>5. \A c \in C : IsCited(c, query, sources)
  OBVIOUS
<1> HIDE DEF mine, C
<1>6. mine \in Seq(Seq(C))
  <2> DEFINE T == Seq(C)
  <2>1. \A n \in 1..Len(sources) : mine[n] \in T
    BY <1>2, <1>3
  <2> HIDE DEF T
  <2>2. mine \in [1..Len(sources) -> T]
    BY <1>4, <2>1
  <2>3. mine \in Seq(T)
    BY <1>3, <2>2, FunctionIsSequence
  <2> QED
    BY <2>3 DEF T
<1>7. all \in Seq(C)
  BY <1>6, FlattenLays
<1> HIDE DEF all
<1>8. cited \in Seq(C)
  BY <1>7, FirstOnes
<1> HIDE DEF cited
<1>9. \A c \in Range(cited) : IsCited(c, query, sources)
  <2>1. \A k \in DOMAIN cited : cited[k] \in C
    BY <1>8
  <2> QED
    BY <2>1, <1>5 DEF Range
<1> QED
  BY <1>1, <1>8, <1>9 DEF SaysCited

\* A cited unit: its markers and the number of its source, which is in its last sentence.
CitedIs(r, source, unit) ==
    /\ r \in Seq(Written) /\ Len(r) = Len(unit)
    /\ Marked(r) \subseteq Marked(unit) \cup {source}
    /\ source \in Range(r[Len(r)].refs)

LEMMA UnitIsCited ==
    ASSUME NEW source \in Nat, NEW unit \in Seq(Written), Len(unit) >= 1
    PROVE  CitedIs(Cited(source, unit), source, unit)
<1> DEFINE r == Cited(source, unit)
           n == Len(unit)
           last == unit[n]
           added == [last EXCEPT !.refs = Append(@, source)]
<1>1. n \in Nat /\ n >= 1 /\ n \in DOMAIN unit /\ DOMAIN unit = 1..n
  OBVIOUS
<1>2. /\ r = [k \in 1..n |-> IF k = n THEN added ELSE unit[k]]
      /\ \A k \in 1..n : r[k] = IF k = n THEN added ELSE unit[k]
  BY <1>1 DEF Cited
<1>3. \A k \in 1..n : unit[k] \in Written /\ Marks(unit[k]) \subseteq Marked(unit)
  BY <1>1 DEF Marked, Range
<1> HIDE DEF r
<1>4. added \in Written /\ Marks(added) = Marks(last) \cup {source} /\ source \in Range(added.refs)
  <2>1. last \in Written
    BY <1>1
  <2> HIDE DEF last
  <2> DEFINE T == Seq(Nat)
             refs == Append(last.refs, source)
  <2>2. /\ last = [terms |-> last.terms, words |-> last.words, stop |-> last.stop, says |-> last.says,
                   lead |-> last.lead, refs |-> last.refs]
        /\ last.terms \in SUBSET STRING /\ last.words \in Nat /\ last.stop \in BOOLEAN /\ last.says \in Speech
        /\ last.lead \in Seq(Nat) /\ last.refs \in Seq(Nat)
    BY <2>1 DEF Written
  <2>3. refs \in Seq(Nat) /\ Range(refs) = Range(last.refs) \cup {source}
    <3>1. << source >> \in Seq(Nat) /\ DOMAIN << source >> = {1} /\ << source >>[1] = source
      OBVIOUS
    <3>2. refs = last.refs \o << source >>
      BY <2>2
    <3>3. Range(<< source >>) = {source}
      BY <3>1 DEF Range
    <3> DEFINE a == last.refs
               b == << source >>
    <3>4. a \in Seq(Nat) /\ b \in Seq(Nat) /\ refs = a \o b /\ Range(b) = {source}
      BY <2>2, <3>1, <3>2, <3>3
    <3> HIDE DEF a, b, refs
    <3>5. Range(a \o b) = Range(a) \cup Range(b) /\ a \o b \in Seq(Nat)
      BY <3>4, ConcatRange, ConcatLength
    <3> QED
      BY <3>4, <3>5 DEF a
  <2>4. refs \in T /\ last.lead \in T
    BY <2>2, <2>3
  <2> HIDE DEF T, refs
  <2>5. added = [last EXCEPT !.refs = refs]
    BY DEF refs
  <2> HIDE DEF added
  <2>6. added = [terms |-> last.terms, words |-> last.words, stop |-> last.stop, says |-> last.says,
                 lead |-> last.lead, refs |-> refs]
    BY <2>2, <2>5
  <2>7. added \in [terms : SUBSET STRING, words : Nat, stop : BOOLEAN, says : Speech, lead : T, refs : T]
    BY <2>2, <2>4, <2>6
  <2>8. added.refs = refs /\ added.lead = last.lead
    BY <2>6
  <2> QED
    BY <2>3, <2>7, <2>8 DEF Written, T, Marks
<1>5. Marks(added) \subseteq Marked(unit) \cup {source}
  BY <1>1, <1>3, <1>4
<1> HIDE DEF added
<1>6. r \in [1..n -> Written]
  BY <1>2, <1>3, <1>4
<1>7. r \in Seq(Written) /\ Len(r) = n /\ DOMAIN r = 1..n
  BY <1>1, <1>6, FunctionIsSequence
<1>8. Marked(r) \subseteq Marked(unit) \cup {source}
  <2>1. \A k \in 1..n : Marks(r[k]) \subseteq Marked(unit) \cup {source}
    BY <1>2, <1>3, <1>5
  <2>2. \A s \in Range(r) : Marks(s) \subseteq Marked(unit) \cup {source}
    BY <1>7, <2>1 DEF Range
  <2> QED
    BY <2>2 DEF Marked
<1>9. r[n] = added
  BY <1>1, <1>2
<1> QED
  BY <1>4, <1>7, <1>8, <1>9 DEF CitedIs, r

\* Read as a message, sentences keep their markers.
MessageIs(message, sentences) ==
    /\ message \in Seq(Sentences) /\ DOMAIN message = DOMAIN sentences
    /\ \A k \in DOMAIN message : /\ Named(message[k]) \subseteq Marked(sentences)
                                 /\ Range(sentences[k].refs) \subseteq Range(message[k].refs)

LEMMA MessageIsRead ==
    ASSUME NEW sentences \in Seq(Written)
    PROVE  MessageIs(AsMessage(sentences), sentences)
<1> DEFINE message == AsMessage(sentences)
           n == Len(sentences)
           says(k) == IF k = 1 /\ sentences[k].lead # << >> THEN "claim" ELSE sentences[k].says
           refs(k) == IF k = 1 THEN sentences[k].lead \o sentences[k].refs ELSE sentences[k].refs
           after(k) == IF k = n THEN << >> ELSE sentences[k + 1].lead
           T == Seq(Nat)
<1>1. n \in Nat /\ DOMAIN sentences = 1..n
  OBVIOUS
<1>2. message = [k \in 1..n |-> [says |-> says(k), refs |-> refs(k), after |-> after(k)]]
  BY <1>1 DEF AsMessage
<1>3. ASSUME NEW k \in 1..n
      PROVE  /\ sentences[k].lead \in T /\ sentences[k].refs \in T /\ sentences[k].says \in Speech
             /\ Range(sentences[k].lead) \subseteq Marked(sentences) /\ Range(sentences[k].refs) \subseteq Marked(sentences)
  <2>1. sentences[k] \in Written /\ sentences[k] \in Range(sentences)
    BY <1>1 DEF Range
  <2> QED
    BY <2>1 DEF Written, Marked, Marks
<1>4. << >> \in T /\ Range(<< >>) = {}
  <2>1. DOMAIN << >> = {}
    OBVIOUS
  <2> QED
    BY <2>1 DEF Range
<1>5. ASSUME NEW k \in 1..n
      PROVE  refs(k) \in T /\ Range(refs(k)) \subseteq Marked(sentences) /\ Range(sentences[k].refs) \subseteq Range(refs(k))
  <2> DEFINE lead == sentences[k].lead
             own == sentences[k].refs
  <2>1. lead \in Seq(Nat) /\ own \in Seq(Nat) /\ Range(lead) \subseteq Marked(sentences) /\ Range(own) \subseteq Marked(sentences)
    BY <1>3
  <2>2. refs(k) = IF k = 1 THEN lead \o own ELSE own
    OBVIOUS
  <2> HIDE DEF lead, refs
  <2>3. lead \o own \in Seq(Nat) /\ Range(lead \o own) = Range(lead) \cup Range(own)
    <3> HIDE DEF own
    <3> QED
      BY <2>1, ConcatRange
  <2> QED
    BY <2>1, <2>2, <2>3
<1>6. ASSUME NEW k \in 1..n
      PROVE  after(k) \in T /\ Range(after(k)) \subseteq Marked(sentences)
  <2>1. CASE k = n
    BY <2>1, <1>4
  <2>2. CASE k # n
    <3>1. k + 1 \in 1..n
      <4> HIDE DEF n
      <4> QED
        BY <2>2, <1>1
    <3> QED
      BY <2>2, <3>1, <1>3
  <2> QED
    BY <2>1, <2>2
<1>7. \A k \in 1..n : says(k) \in Speech
  BY <1>3 DEF Speech
<1> HIDE DEF says, refs, after, T, message
<1>8. \A k \in 1..n : /\ message[k] \in [says : Speech, refs : T, after : T]
                      /\ message[k].refs = refs(k) /\ message[k].after = after(k)
  BY <1>2, <1>5, <1>6, <1>7
<1>9. message \in Seq(Sentences) /\ DOMAIN message = 1..n
  <2>1. message \in [1..n -> Sentences]
    <3>1. \A k \in 1..n : message[k] \in Sentences
      BY <1>8 DEF Sentences, T
    <3> QED
      BY <1>2, <3>1
  <2> QED
    BY <1>1, <2>1, FunctionIsSequence
<1> QED
  BY <1>1, <1>5, <1>6, <1>8, <1>9 DEF MessageIs, Named, message

\* The local model's answer is refused only for a heading or a marker in its
\* sources, and cites no source but by a marker or for a term of the query.
LocalGrounded(query, sources, message) ==
    LET got == Generate(message, Len(sources))
        marked == UNION {Marked(FlattenSeq(sources[n])) : n \in DOMAIN sources}
    IN  /\ got.outcome = "refused" =>
               \/ \E n \in DOMAIN sources : Split(sources[n])
               \/ \E m \in marked : m \notin 1..Len(sources)
        /\ got.outcome = "answer" => \A n \in Range(got.citations) \ marked :
               query \cap TermsOf(FlattenSeq(sources[n])) # {}

LEMMA LocalIsGrounded ==
    ASSUME NEW query, NEW sources \in Seq(Seq(Seq(Written)))
    PROVE  LocalGrounded(query, sources, GenerateAnswer(query, sources))
<1> DEFINE message == GenerateAnswer(query, sources)
           got == Generate(message, Len(sources))
           marked == UNION {Marked(FlattenSeq(sources[n])) : n \in DOMAIN sources}
<1>1. CASE message = NoAnswer
  <2>1. NoAnswer # << >> /\ NoAnswer[1].says = "no evidence"
    BY DEF NoAnswer
  <2>2. got = Unanswered
    BY <1>1, <2>1 DEF Generate
  <2> HIDE DEF got, message
  <2>3. got.outcome = "no answer"
    BY <2>2 DEF Unanswered
  <2> QED
    BY <2>3 DEF LocalGrounded, got, message
<1>2. ASSUME NEW C, NEW cited \in Seq(C), cited # << >>, message = AsMessage(CitedUnits(cited)),
             \A c \in Range(cited) : IsCited(c, query, sources)
      PROVE  LocalGrounded(query, sources, message)
  <2> HIDE DEF message
  <2> DEFINE parts == [k \in DOMAIN cited |-> Cited(cited[k].source, cited[k].unit)]
             flat == FlattenSeq(parts)
  <2>1. DOMAIN cited = 1..Len(cited) /\ Len(cited) \in Nat /\ 1 \in DOMAIN cited
    BY <1>2
  <2>2. DOMAIN sources = 1..Len(sources) /\ Len(sources) \in Nat /\ \A n \in DOMAIN sources : sources[n] \in Seq(Seq(Written))
    OBVIOUS
  <2>3. ASSUME NEW k \in DOMAIN cited
        PROVE  /\ cited[k].source \in DOMAIN sources /\ query \cap TermsOf(cited[k].unit) # {}
               /\ UnitIsFit(sources[cited[k].source], cited[k].unit)
               /\ CitedIs(parts[k], cited[k].source, cited[k].unit)
    <3> DEFINE c == cited[k]
    <3>1. c \in Range(cited)
      BY DEF Range
    <3>2. IsCited(c, query, sources) /\ parts[k] = Cited(c.source, c.unit)
      BY <3>1, <1>2
    <3> HIDE DEF c, parts
    <3>3. c.source \in DOMAIN sources /\ IsUnit(sources[c.source], c.unit) /\ query \cap TermsOf(c.unit) # {}
      BY <3>2 DEF IsCited
    <3>4. sources[c.source] \in Seq(Seq(Written)) /\ c.source \in Nat
      BY <3>3, <2>2
    <3>5. UnitIsFit(sources[c.source], c.unit)
      BY <3>3, <3>4, UnitsAreFit
    <3>6. c.unit \in Seq(Written) /\ Len(c.unit) >= 1
      BY <3>5 DEF UnitIsFit
    <3>7. CitedIs(Cited(c.source, c.unit), c.source, c.unit)
      BY <3>4, <3>6, UnitIsCited
    <3> QED
      BY <3>2, <3>3, <3>5, <3>7 DEF c
  <2>4. parts = [k \in 1..Len(cited) |-> parts[k]] /\ DOMAIN parts = 1..Len(cited)
    BY <2>1
  <2>5. message = AsMessage(flat)
    BY <1>2 DEF CitedUnits
  <2> HIDE DEF parts
  <2>6. parts \in Seq(Seq(Written))
    <3> DEFINE T == Seq(Written)
    <3>1. \A k \in 1..Len(cited) : parts[k] \in T
      BY <2>1, <2>3 DEF CitedIs
    <3> HIDE DEF T
    <3>2. parts \in [1..Len(cited) -> T]
      BY <2>4, <3>1
    <3>3. parts \in Seq(T)
      BY <2>1, <3>2, FunctionIsSequence
    <3> QED
      BY <3>3 DEF T
  <2>7. flat \in Seq(Written) /\ Range(flat) = UNION {Range(parts[k]) : k \in DOMAIN parts}
    BY <2>6, FlattenLays, FlattenedElements
  <2> HIDE DEF flat
  <2>8. MessageIs(message, flat)
    BY <2>5, <2>7, MessageIsRead
  <2> DEFINE refs == ExtractSourceRefs(message)
             named == {cited[k].source : k \in DOMAIN cited}
  <2>9. Extracts(refs, message)
    BY <2>8, ExtractedRefs DEF MessageIs
  <2> HIDE DEF refs
  <2>10. Marked(flat) \subseteq marked \cup named
    <3>1. ASSUME NEW k \in DOMAIN cited
          PROVE  Marked(parts[k]) \subseteq marked \cup named
      <4> DEFINE n == cited[k].source
      <4>1. Marked(parts[k]) \subseteq Marked(cited[k].unit) \cup {n}
        BY <2>3 DEF CitedIs
      <4>2. Marked(cited[k].unit) \subseteq Marked(FlattenSeq(sources[n]))
        BY <2>3 DEF UnitIsFit
      <4>3. Marked(FlattenSeq(sources[n])) \subseteq marked
        BY <2>3
      <4>4. n \in named
        OBVIOUS
      <4> HIDE DEF n, named, marked
      <4> QED
        BY <4>1, <4>2, <4>3, <4>4
    <3> HIDE DEF named, marked
    <3>2. ASSUME NEW s \in Range(flat)
          PROVE  Marks(s) \subseteq marked \cup named
      <4>1. PICK k \in DOMAIN cited : s \in Range(parts[k])
        BY <2>1, <2>4, <2>7
      <4>2. Marks(s) \subseteq Marked(parts[k])
        BY <4>1 DEF Marked
      <4> QED
        BY <4>2, <3>1
    <3> QED
      BY <3>2 DEF Marked
  <2>11. Range(refs) \subseteq marked \cup named
    <3> HIDE DEF marked, named
    <3>1. \A k \in DOMAIN message : Named(message[k]) \subseteq marked \cup named
      BY <2>8, <2>10 DEF MessageIs
    <3> QED
      BY <2>9, <3>1 DEF Extracts
  <2>12. ASSUME got.outcome = "answer", NEW n \in Range(got.citations) \ marked
         PROVE  query \cap TermsOf(FlattenSeq(sources[n])) # {}
    <3>1. got.citations = refs
      BY <2>12 DEF Generate, BuildCitations, Refused, Unanswered, refs
    <3>2. PICK k \in DOMAIN cited : n = cited[k].source
      <4> HIDE DEF marked, got
      <4>1. n \in named
        BY <2>11, <2>12, <3>1
      <4> QED
        BY <4>1
    <3>3. UnitIsFit(sources[n], cited[k].unit) /\ query \cap TermsOf(cited[k].unit) # {}
      BY <2>3, <3>2
    <3> QED
      BY <3>3 DEF UnitIsFit
  <2>13. ASSUME got.outcome = "refused", \A n \in DOMAIN sources : ~Split(sources[n]), marked \subseteq 1..Len(sources)
         PROVE  FALSE
    <3>1. Uncited(message) # {} \/ ~(Range(refs) \subseteq 1..Len(sources)) \/ refs = << >>
      BY <2>13 DEF Generate, BuildCitations, Refused, Unanswered, refs
    <3>2. Range(refs) \subseteq 1..Len(sources)
      <4>1. named \subseteq 1..Len(sources)
        BY <2>2, <2>3
      <4> HIDE DEF marked, named
      <4> QED
        BY <2>11, <2>13, <4>1
    <3>3. ASSUME NEW k \in DOMAIN cited
          PROVE  /\ parts[k] \in Seq(Written) /\ Len(parts[k]) = 1
                 /\ cited[k].source \in Range(parts[k][1].refs)
      <4>1. Len(cited[k].unit) = 1
        BY <2>3, <2>13 DEF UnitIsFit
      <4> QED
        BY <2>3, <4>1 DEF CitedIs
    <3>4. ASSUME NEW s \in Range(flat)
          PROVE  Range(s.refs) # {}
      <4>1. PICK k \in DOMAIN cited : s \in Range(parts[k])
        BY <2>1, <2>4, <2>7
      <4>2. DOMAIN parts[k] = {1}
        BY <3>3
      <4>3. s = parts[k][1]
        BY <4>1, <4>2 DEF Range
      <4> QED
        BY <4>3, <3>3
    <3>5. ASSUME NEW j \in DOMAIN message
          PROVE  /\ NormalizeCitationPlacement(message)[j].refs # << >>
                 /\ Named(message[j]) # {}
      <4>1. flat[j] \in Range(flat) /\ Range(flat[j].refs) \subseteq Range(message[j].refs)
        BY <2>8 DEF MessageIs, Range
      <4>2. Range(message[j].refs) # {}
        BY <4>1, <3>4
      <4>3. message[j] \in Sentences
        BY <2>8 DEF MessageIs
      <4>4. message[j].refs \in Seq(Nat) /\ message[j].after \in Seq(Nat)
        BY <4>3 DEF Sentences
      <4>5. NormalizeCitationPlacement(message)[j].refs = message[j].refs \o message[j].after
        BY <4>3 DEF NormalizeCitationPlacement, Sentences
      <4>6. message[j].refs # << >>
        <5>1. Range(<< >>) = {}
          <6>1. DOMAIN << >> = {}
            OBVIOUS
          <6> QED
            BY <6>1 DEF Range
        <5> QED
          BY <4>2, <5>1
      <4>7. message[j].refs \o message[j].after # << >>
        BY <4>4, <4>6
      <4> QED
        BY <4>2, <4>5, <4>7 DEF Named
    <3>6. Uncited(message) = {}
      BY <3>5 DEF Uncited
    <3>7. refs # << >>
      <4>1. parts[1][1] \in Range(parts[1])
        <5>1. parts[1] \in Seq(Written) /\ Len(parts[1]) = 1
          BY <2>1, <3>3
        <5>2. 1 \in DOMAIN parts[1]
          BY <5>1
        <5> QED
          BY <5>2 DEF Range
      <4>2. parts[1][1] \in Range(flat)
        BY <2>1, <2>4, <2>7, <4>1
      <4>3. PICK j \in DOMAIN flat : flat[j] = parts[1][1]
        BY <4>2 DEF Range
      <4>4. j \in DOMAIN message
        BY <2>8, <4>3 DEF MessageIs
      <4>5. Named(message[j]) # {} /\ Named(message[j]) \subseteq Range(refs)
        BY <2>9, <3>5, <4>4 DEF Extracts
      <4>6. Range(<< >>) = {}
        <5>1. DOMAIN << >> = {}
          OBVIOUS
        <5> QED
          BY <5>1 DEF Range
      <4> QED
        BY <4>5, <4>6
    <3> QED
      BY <3>1, <3>2, <3>6, <3>7
  <2>14. got.outcome = "refused" =>
           (\E n \in DOMAIN sources : Split(sources[n])) \/ \E m \in marked : m \notin 1..Len(sources)
    <3> HIDE DEF marked, got
    <3> QED
      BY <2>13
  <2> QED
    BY <2>12, <2>14 DEF LocalGrounded
<1>3. SaysCited(message, query, sources)
  BY LocalSaysCited
<1> HIDE DEF message
<1>4. LocalGrounded(query, sources, message)
  <2>1. CASE message # NoAnswer
    <3>1. PICK C : \E cited \in Seq(C) :
             /\ cited # << >> /\ message = AsMessage(CitedUnits(cited))
             /\ \A c \in Range(cited) : IsCited(c, query, sources)
      BY <1>3, <2>1 DEF SaysCited
    <3>2. PICK cited \in Seq(C) :
             /\ cited # << >> /\ message = AsMessage(CitedUnits(cited))
             /\ \A c \in Range(cited) : IsCited(c, query, sources)
      BY <3>1
    <3> QED
      BY <3>2, <1>2
  <2> QED
    BY <1>1, <2>1 DEF message
<1> QED
  BY <1>4 DEF message

-----------------------------------------------------------------------------
(* Comparison and report (module Comparison)                               *)

\* The k-th line of the n-th source gives the key a value, and is the first to.
Tells(side, key, n, k) ==
    /\ n \in DOMAIN side.sources /\ k \in DOMAIN side.sources[n].lines
    /\ NormalKey[side.sources[n].lines[k].key] = key
    /\ NormalValue[side.sources[n].lines[k].value] # NoValue

TellsFirst(side, key, n, k) ==
    /\ Tells(side, key, n, k)
    /\ \A m \in 1..n : \A j \in DOMAIN side.sources[m].lines : Tells(side, key, m, j) => m = n /\ k <= j

\* The facts of a side are its first lines, one for each key it tells.
FactsOf(facts, side) ==
    /\ IsFiniteSet(DOMAIN facts)
    /\ \A key \in DOMAIN facts : \E n, k \in Nat :
          /\ TellsFirst(side, key, n, k)
          /\ facts[key] = [value |-> side.sources[n].lines[k].value, source |-> n]
    /\ \A key, n, k : Tells(side, key, n, k) => key \in DOMAIN facts

LEMMA FactsAreFirst ==
    ASSUME NEW side, SideOK(side)
    PROVE  FactsOf(ExtractFacts(side), side)
<1> DEFINE sources == side.sources
           seqs == [n \in DOMAIN side.sources |->
                      [k \in DOMAIN side.sources[n].lines |-> [source |-> n, line |-> side.sources[n].lines[k]]]]
           lines == LinesOf(side)
           facts == ExtractFacts(side)
           All == [source : Nat, line : SideLines]
<1>1. /\ Len(sources) \in Nat /\ DOMAIN sources = 1..Len(sources)
      /\ \A n \in 1..Len(sources) :
            /\ sources[n].lines \in Seq(SideLines)
            /\ DOMAIN sources[n].lines = 1..Len(sources[n].lines)
            /\ Len(sources[n].lines) \in Nat
            /\ \A k \in 1..Len(sources[n].lines) : sources[n].lines[k] \in SideLines
  <2>1. Len(sources) \in Nat /\ DOMAIN sources = 1..Len(sources)
    BY DEF SideOK
  <2>2. \A s \in Seq(SideLines) : DOMAIN s = 1..Len(s) /\ Len(s) \in Nat /\ \A k \in 1..Len(s) : s[k] \in SideLines
    OBVIOUS
  <2>3. \A n \in 1..Len(sources) : sources[n].lines \in Seq(SideLines)
    BY <2>1 DEF SideOK
  <2> HIDE DEF sources
  <2> QED
    BY <2>1, <2>2, <2>3
<1>2. \A n \in 1..Len(sources) : /\ seqs[n] \in [1..Len(sources[n].lines) -> All]
                                 /\ \A k \in 1..Len(sources[n].lines) : seqs[n][k] = [source |-> n, line |-> sources[n].lines[k]]
  <2> TAKE n \in 1..Len(sources)
  <2>1. n \in Nat /\ n \in DOMAIN sources
    BY <1>1
  <2>2. seqs[n] = [k \in 1..Len(sources[n].lines) |-> [source |-> n, line |-> sources[n].lines[k]]]
    BY <1>1, <2>1
  <2>3. \A k \in 1..Len(sources[n].lines) : [source |-> n, line |-> sources[n].lines[k]] \in All
    BY <1>1, <2>1
  <2> HIDE DEF seqs, sources, All
  <2> QED
    BY <2>2, <2>3
<1>3. DOMAIN seqs = 1..Len(sources)
  BY <1>1
<1>4. lines = FlattenSeq(seqs)
  BY DEF LinesOf
<1> HIDE DEF seqs, lines, All
<1>5. \A n \in 1..Len(sources) : seqs[n] \in Seq(All) /\ Len(seqs[n]) = Len(sources[n].lines)
  BY <1>1, <1>2
<1>6. seqs \in Seq(Seq(All)) /\ Len(seqs) = Len(sources)
  <2>1. seqs \in [1..Len(sources) -> Seq(All)]
    <3>1. seqs = [n \in 1..Len(sources) |-> seqs[n]]
      BY <1>3 DEF seqs
    <3> QED
      BY <3>1, <1>5
  <2> QED
    BY <2>1, <1>1
<1>7. lines \in Seq(All) /\ \E at : Lays(at, seqs, lines)
  BY <1>4, <1>6, FlattenLays
<1>8. PICK at : Lays(at, seqs, lines)
  BY <1>7
<1>9. DOMAIN lines = 1..Len(lines) /\ Len(lines) \in Nat
  BY <1>7
<1>10. /\ \A i \in 0..Len(sources) : at[i] \in Nat
       /\ \A i, j \in 0..Len(sources) : i <= j => at[i] <= at[j]
       /\ \A i \in 1..Len(sources) : at[i] = at[i - 1] + Len(sources[i].lines)
       /\ \A i \in 1..Len(sources) : \A k \in 1..Len(sources[i].lines) :
             at[i - 1] + k \in 1..Len(lines) /\ lines[at[i - 1] + k] = [source |-> i, line |-> sources[i].lines[k]]
       /\ \A p \in 1..Len(lines) : \E i \in 1..Len(sources) : \E k \in 1..Len(sources[i].lines) : p = at[i - 1] + k
  <2>1. /\ \A i \in 0..Len(seqs) : at[i] \in Nat
        /\ \A i, j \in 0..Len(seqs) : i <= j => at[i] <= at[j]
        /\ \A i \in 1..Len(seqs) : at[i] = at[i - 1] + Len(seqs[i])
        /\ \A i \in 1..Len(seqs) : \A k \in 1..Len(seqs[i]) :
              at[i - 1] + k \in 1..Len(lines) /\ lines[at[i - 1] + k] = seqs[i][k]
        /\ \A p \in 1..Len(lines) : \E i \in 1..Len(seqs) : \E k \in 1..Len(seqs[i]) : p = at[i - 1] + k
    BY <1>8 DEF Lays
  <2> HIDE DEF sources
  <2>2. \A p \in 1..Len(lines) : \E i \in 1..Len(sources) : \E k \in 1..Len(sources[i].lines) : p = at[i - 1] + k
    <3> TAKE p \in 1..Len(lines)
    <3>1. PICK i \in 1..Len(seqs) : \E k \in 1..Len(seqs[i]) : p = at[i - 1] + k
      BY <2>1
    <3>2. i \in 1..Len(sources) /\ Len(seqs[i]) = Len(sources[i].lines)
      BY <1>5, <1>6
    <3> QED
      BY <3>1, <3>2
  <2>3. \A i \in 1..Len(sources) : at[i] = at[i - 1] + Len(sources[i].lines)
    BY <2>1, <1>5, <1>6
  <2>4. ASSUME NEW i \in 1..Len(sources), NEW k \in 1..Len(sources[i].lines)
        PROVE  at[i - 1] + k \in 1..Len(lines) /\ lines[at[i - 1] + k] = [source |-> i, line |-> sources[i].lines[k]]
    <3>1. i \in 1..Len(seqs) /\ k \in 1..Len(seqs[i])
      BY <1>5, <1>6
    <3>2. seqs[i][k] = [source |-> i, line |-> sources[i].lines[k]]
      BY <1>2
    <3> QED
      BY <3>1, <3>2, <2>1
  <2> QED
    BY <2>1, <2>2, <2>3, <2>4, <1>6
<1>11. \A key, n, k : Tells(side, key, n, k) <=>
         n \in 1..Len(sources) /\ k \in 1..Len(sources[n].lines) /\ at[n - 1] + k \in PlacesOf(lines, key)
  <2> TAKE key, n, k
  <2>1. CASE n \in 1..Len(sources) /\ k \in 1..Len(sources[n].lines)
    <3>1. at[n - 1] + k \in 1..Len(lines) /\ lines[at[n - 1] + k] = [source |-> n, line |-> sources[n].lines[k]]
      BY <2>1, <1>10
    <3>2. lines[at[n - 1] + k].line = sources[n].lines[k]
      BY <3>1
    <3> QED
      BY <2>1, <3>1, <3>2, <1>1, <1>9 DEF Tells, PlacesOf, Told, KeyAt
  <2>2. CASE ~(n \in 1..Len(sources) /\ k \in 1..Len(sources[n].lines))
    BY <2>2, <1>1 DEF Tells
  <2> QED
    BY <2>1, <2>2
<1>12. /\ DOMAIN facts = {KeyAt(lines, k) : k \in Told(lines)}
       /\ \A key \in DOMAIN facts :
            facts[key] = [value |-> lines[Min(PlacesOf(lines, key))].line.value, source |-> lines[Min(PlacesOf(lines, key))].source]
  BY DEF ExtractFacts, lines
<1> HIDE DEF facts, sources
<1>13. IsFiniteSet(DOMAIN facts)
  <2>1. Told(lines) \subseteq 1..Len(lines)
    BY <1>9 DEF Told
  <2>2. IsFiniteSet(Told(lines))
    <3>1. IsFiniteSet(1..Len(lines))
      BY <1>9, FS_Interval
    <3> QED
      BY <2>1, <3>1, FS_Subset
  <2> DEFINE f == [k \in Told(lines) |-> KeyAt(lines, k)]
  <2>3. f \in Surjection(Told(lines), DOMAIN facts)
    BY <1>12 DEF Surjection
  <2> HIDE DEF f
  <2> QED
    BY <2>2, <2>3, FS_Surjection
<1>14. ASSUME NEW key \in DOMAIN facts
       PROVE  \E n, k \in Nat : /\ TellsFirst(side, key, n, k)
                                /\ facts[key] = [value |-> side.sources[n].lines[k].value, source |-> n]
  <2> DEFINE q == Min(PlacesOf(lines, key))
  <2>1. PlacesOf(lines, key) # {} /\ PlacesOf(lines, key) \subseteq 1..Len(lines)
    BY <1>9, <1>12 DEF PlacesOf, Told
  <2>2. PlacesOf(lines, key) \subseteq Nat
    BY <2>1, <1>9
  <2>3. q \in PlacesOf(lines, key) /\ \A p \in PlacesOf(lines, key) : q <= p
    BY <2>1, <2>2, MinIs
  <2>4. q \in 1..Len(lines)
    BY <2>1, <2>3
  <2> HIDE DEF q
  <2>5. PICK n \in 1..Len(sources) : \E k \in 1..Len(sources[n].lines) : q = at[n - 1] + k
    BY <2>4, <1>10
  <2>6. PICK k \in 1..Len(sources[n].lines) : q = at[n - 1] + k
    BY <2>5
  <2>7. Tells(side, key, n, k)
    BY <2>3, <2>6, <1>11
  <2>8. facts[key] = [value |-> sources[n].lines[k].value, source |-> n]
    <3>1. lines[q] = [source |-> n, line |-> sources[n].lines[k]]
      BY <2>6, <1>10
    <3>2. lines[q].source = n /\ lines[q].line.value = sources[n].lines[k].value
      BY <3>1
    <3> QED
      BY <3>2, <1>12 DEF q
  <2>9. ASSUME NEW m \in 1..n, NEW j \in DOMAIN side.sources[m].lines, Tells(side, key, m, j)
        PROVE  m = n /\ k <= j
    <3>1. m \in 1..Len(sources) /\ j \in 1..Len(sources[m].lines) /\ q <= at[m - 1] + j
      BY <2>3, <2>9, <1>11
    <3>2. /\ n \in Nat /\ m \in Nat /\ k \in Nat /\ j \in Nat /\ m <= n /\ k > 0
          /\ m \in 0..Len(sources) /\ n - 1 \in 0..Len(sources) /\ m - 1 \in 0..Len(sources)
      BY <3>1, <1>1
    <3>3. at[m] \in Nat /\ at[n - 1] \in Nat /\ at[m - 1] \in Nat /\ at[m] = at[m - 1] + Len(sources[m].lines)
      BY <3>1, <3>2, <1>10
    <3>4. m = n
      <4> SUFFICES ASSUME m < n
                   PROVE  FALSE
        BY <3>2
      <4>1. at[m] <= at[n - 1]
        <5>1. \A a, b \in 0..Len(sources) : a <= b => at[a] <= at[b]
          BY <1>10
        <5>2. m <= n - 1
          BY <3>2
        <5> QED
          BY <3>2, <5>1, <5>2
      <4>2. j <= Len(sources[m].lines) /\ Len(sources[m].lines) \in Nat
        BY <3>1, <1>1
      <4>3. at[m - 1] + j <= at[m]
        BY <4>2, <3>2, <3>3
      <4>4. at[m] < at[n - 1] + k
        BY <4>1, <3>2, <3>3
      <4>5. at[n - 1] + k <= at[m - 1] + j
        BY <3>1, <2>6
      <4>6. at[m - 1] + j \in Nat /\ at[m] \in Nat /\ at[n - 1] + k \in Nat
        BY <3>2, <3>3
      <4> QED
        BY <4>3, <4>4, <4>5, <4>6
    <3>5. at[n - 1] + k <= at[n - 1] + j
      BY <3>1, <3>4, <2>6
    <3> QED
      BY <3>2, <3>3, <3>4, <3>5
  <2>10. TellsFirst(side, key, n, k)
    BY <2>7, <2>9 DEF TellsFirst
  <2>11. n \in Nat /\ k \in Nat
    BY <1>1
  <2> QED
    BY <2>8, <2>10, <2>11 DEF sources
<1>15. \A key, n, k : Tells(side, key, n, k) => key \in DOMAIN facts
  BY <1>11, <1>12 DEF PlacesOf
<1> QED
  BY <1>13, <1>14, <1>15 DEF FactsOf, facts

\* What a side says is what its facts say.
LEMMA FactsSay ==
    ASSUME NEW side, SideOK(side), NEW facts, FactsOf(facts, side), NEW key, NEW value
    PROVE  Says(side, key, value) <=> key \in DOMAIN facts /\ value = NormalValue[facts[key].value]
<1>1. DOMAIN side.sources = 1..Len(side.sources) /\ Len(side.sources) \in Nat
  BY DEF SideOK
<1>2. \A n \in DOMAIN side.sources : DOMAIN side.sources[n].lines \subseteq Nat
  <2>1. \A s \in Seq(SideLines) : DOMAIN s \subseteq Nat
    OBVIOUS
  <2> QED
    BY <2>1 DEF SideOK
<1>3. Says(side, key, value) <=>
        \E n, k : TellsFirst(side, key, n, k) /\ NormalValue[side.sources[n].lines[k].value] = value
  <2>1. ASSUME Says(side, key, value)
        PROVE  \E n, k : TellsFirst(side, key, n, k) /\ NormalValue[side.sources[n].lines[k].value] = value
    <3>1. PICK n \in DOMAIN side.sources : \E k \in DOMAIN side.sources[n].lines :
                /\ Tells(side, key, n, k) /\ NormalValue[side.sources[n].lines[k].value] = value
                /\ \A m \in 1..n : \A j \in DOMAIN side.sources[m].lines : Tells(side, key, m, j) => m = n /\ k <= j
      <4>1. 1..0 = {}
        OBVIOUS
      <4>2. \A m \in 1..Len(side.sources) : 1..m \subseteq DOMAIN side.sources
        BY <1>1
      <4> QED
        BY <2>1, <1>1, <4>2 DEF Says, Tells
    <3> QED
      BY <3>1 DEF TellsFirst
  <2>2. ASSUME NEW n, NEW k, TellsFirst(side, key, n, k), NormalValue[side.sources[n].lines[k].value] = value
        PROVE  Says(side, key, value)
    <3>1. /\ n \in DOMAIN side.sources /\ k \in DOMAIN side.sources[n].lines
          /\ NormalKey[side.sources[n].lines[k].key] = key
          /\ NormalValue[side.sources[n].lines[k].value] # NoValue
      BY <2>2 DEF TellsFirst, Tells
    <3>2. \A m \in 1..n : m \in DOMAIN side.sources
      BY <3>1, <1>1
    <3>3. \A m \in 1..n : \A j \in DOMAIN side.sources[m].lines :
             /\ NormalKey[side.sources[m].lines[j].key] = key
             /\ NormalValue[side.sources[m].lines[j].value] # NoValue
             => m = n /\ k <= j
      BY <2>2, <3>2 DEF TellsFirst, Tells
    <3> QED
      BY <2>2, <3>1, <3>3 DEF Says
  <2> QED
    BY <2>1, <2>2
<1>4. \A n, k, m, j : TellsFirst(side, key, n, k) /\ TellsFirst(side, key, m, j) => n = m /\ k = j
  <2> SUFFICES ASSUME NEW n, NEW k, NEW m, NEW j, TellsFirst(side, key, n, k), TellsFirst(side, key, m, j)
               PROVE  n = m /\ k = j
    OBVIOUS
  <2>1. /\ Tells(side, key, n, k) /\ Tells(side, key, m, j)
        /\ n \in DOMAIN side.sources /\ k \in DOMAIN side.sources[n].lines
        /\ m \in DOMAIN side.sources /\ j \in DOMAIN side.sources[m].lines
    BY DEF TellsFirst, Tells
  <2>2. n \in Nat /\ m \in Nat /\ k \in Nat /\ j \in Nat /\ n > 0 /\ m > 0
    BY <2>1, <1>1, <1>2
  <2>3. m \in 1..n => m = n /\ k <= j
    BY <2>1 DEF TellsFirst
  <2>4. n \in 1..m => n = m /\ j <= k
    BY <2>1 DEF TellsFirst
  <2>5. m \in 1..n \/ n \in 1..m
    BY <2>2
  <2>6. m = n
    BY <2>3, <2>4, <2>5
  <2> QED
    BY <2>2, <2>3, <2>4, <2>6
<1>5. CASE key \in DOMAIN facts
  <2>1. PICK n, k \in Nat : /\ TellsFirst(side, key, n, k)
                            /\ facts[key] = [value |-> side.sources[n].lines[k].value, source |-> n]
    BY <1>5 DEF FactsOf
  <2>2. facts[key].value = side.sources[n].lines[k].value
    BY <2>1
  <2> QED
    BY <1>3, <1>4, <1>5, <2>1, <2>2
<1>6. CASE key \notin DOMAIN facts
  BY <1>3, <1>6 DEF TellsFirst, FactsOf
<1> QED
  BY <1>5, <1>6

\* The keys that are compared.
LEMMA KeysCompared ==
    ASSUME NEW left, NEW right, IsFiniteSet(DOMAIN left), IsFiniteSet(DOMAIN right),
           NEW S, NEW fields \in Seq(S)
    PROVE  /\ \E n \in Nat : DOMAIN ComparisonKeys(left, right, fields) = 1..n
           /\ Range(ComparisonKeys(left, right, fields)) =
                IF fields # << >> THEN {NormalKey[f] : f \in Range(fields)} ELSE DOMAIN left \cup DOMAIN right
<1> DEFINE keys == ComparisonKeys(left, right, fields)
<1>1. CASE fields # << >>
  <2>1. keys = [k \in DOMAIN fields |-> NormalKey[fields[k]]]
    BY <1>1 DEF ComparisonKeys
  <2>2. DOMAIN fields = 1..Len(fields) /\ Len(fields) \in Nat
    OBVIOUS
  <2>3. DOMAIN keys = 1..Len(fields)
    BY <2>1, <2>2
  <2>4. Range(keys) = {NormalKey[f] : f \in Range(fields)}
    <3>1. Range(keys) = {keys[k] : k \in 1..Len(fields)} /\ Range(fields) = {fields[k] : k \in 1..Len(fields)}
      BY <2>2, <2>3 DEF Range
    <3>2. \A k \in 1..Len(fields) : keys[k] = NormalKey[fields[k]]
      BY <2>1, <2>2
    <3> HIDE DEF keys
    <3> QED
      BY <3>1, <3>2
  <2> QED
    BY <1>1, <2>2, <2>3, <2>4
<1>2. CASE fields = << >>
  <2> DEFINE all == DOMAIN left \cup DOMAIN right
  <2>1. keys = SetToSeq(all)
    BY <1>2 DEF ComparisonKeys
  <2>2. IsFiniteSet(all)
    BY FS_Union
  <2> HIDE DEF all
  <2>3. /\ Cardinality(all) \in Nat
        /\ SetToSeq(all) \in [1..Cardinality(all) -> all]
        /\ \A key \in all : \E n \in 1..Cardinality(all) : SetToSeq(all)[n] = key
    BY <2>2, Enumerated
  <2>4. DOMAIN keys = 1..Cardinality(all)
    BY <2>1, <2>3
  <2>5. Range(keys) = all
    BY <2>1, <2>3 DEF Range
  <2> QED
    BY <1>2, <2>3, <2>4, <2>5 DEF all
<1> QED
  BY <1>1, <1>2

\* What is compared: nothing, if a side was refused, or one item for each key.
Compared(comparison, left, right, leftFacts, rightFacts, fields) ==
    \/ comparison = Rejected
    \/ /\ \E keys :
             /\ \E n \in Nat : DOMAIN keys = 1..n
             /\ Range(keys) = IF fields # << >> THEN {NormalKey[f] : f \in Range(fields)}
                              ELSE DOMAIN leftFacts \cup DOMAIN rightFacts
             /\ comparison.items = [k \in DOMAIN keys |-> CompareKey(keys[k], leftFacts, rightFacts)]
       /\ comparison.flags = ReviewFlags(comparison.items)
       /\ comparison.appendix = Appendix(left, right)

LEMMA CompareCompares ==
    ASSUME NEW left, SideOK(left), NEW right, SideOK(right), NEW S, NEW fields \in Seq(S)
    PROVE  Compared(Compare(left, right, fields), left, right, ExtractFacts(left), ExtractFacts(right), fields)
<1> DEFINE lf == ExtractFacts(left)
           rf == ExtractFacts(right)
           keys == ComparisonKeys(lf, rf, fields)
           items == [k \in DOMAIN keys |-> CompareKey(keys[k], lf, rf)]
<1>1. IsFiniteSet(DOMAIN lf) /\ IsFiniteSet(DOMAIN rf)
  BY FactsAreFirst DEF FactsOf
<1>2. Compare(left, right, fields) =
        IF ~ValidSide(left) \/ ~ValidSide(right) THEN Rejected
        ELSE [items |-> items, flags |-> ReviewFlags(items), appendix |-> Appendix(left, right)]
  BY DEF Compare
<1> HIDE DEF lf, rf
<1>3. /\ \E n \in Nat : DOMAIN keys = 1..n
      /\ Range(keys) = IF fields # << >> THEN {NormalKey[f] : f \in Range(fields)} ELSE DOMAIN lf \cup DOMAIN rf
  BY <1>1, KeysCompared
<1> HIDE DEF keys
<1>4. CASE ~ValidSide(left) \/ ~ValidSide(right)
  BY <1>2, <1>4 DEF Compared
<1>5. CASE ~(~ValidSide(left) \/ ~ValidSide(right))
  <2> HIDE DEF items
  <2> DEFINE c == Compare(left, right, fields)
  <2>1. c.items = items /\ c.flags = ReviewFlags(items) /\ c.appendix = Appendix(left, right)
    BY <1>2, <1>5
  <2> HIDE DEF c
  <2>2. Compared(c, left, right, lf, rf, fields)
    BY <1>3, <2>1 DEF Compared, items
  <2> QED
    BY <2>2 DEF c, lf, rf
<1> QED
  BY <1>4, <1>5 DEF lf, rf

\* The number of items of a status, and how the four of them add up.
Statuses == {"same", "changed", "only_left", "only_right"}

LEMMA CountsAddUp ==
    ASSUME NEW n \in Nat, NEW items, DOMAIN items = 1..n, \A k \in 1..n : items[k].status \in Statuses
    PROVE  n = CountItems(items, "same") + CountItems(items, "changed")
               + CountItems(items, "only_left") + CountItems(items, "only_right")
<1> DEFINE Of(status) == {k \in 1..n : items[k].status = status}
           a == Of("same")
           b == Of("changed")
           c == Of("only_left")
           d == Of("only_right")
<1>1. /\ a \cap b = {} /\ (a \cup b) \cap c = {} /\ (a \cup b \cup c) \cap d = {}
      /\ a \cup b \cup c \cup d = 1..n
  BY DEF Statuses
<1>2. IsFiniteSet(1..n) /\ Cardinality(1..n) = n
  BY FS_Interval
<1>3. IsFiniteSet(a) /\ IsFiniteSet(b) /\ IsFiniteSet(c) /\ IsFiniteSet(d)
  <2>1. a \subseteq 1..n /\ b \subseteq 1..n /\ c \subseteq 1..n /\ d \subseteq 1..n
    OBVIOUS
  <2> HIDE DEF a, b, c, d
  <2> QED
    BY <2>1, <1>2, FS_Subset
<1>4. /\ CountItems(items, "same") = Cardinality(a) /\ CountItems(items, "changed") = Cardinality(b)
      /\ CountItems(items, "only_left") = Cardinality(c) /\ CountItems(items, "only_right") = Cardinality(d)
  BY DEF CountItems
<1> HIDE DEF a, b, c, d
<1>5. Cardinality(a) \in Nat /\ Cardinality(b) \in Nat /\ Cardinality(c) \in Nat /\ Cardinality(d) \in Nat
  BY <1>3, FS_CardinalityType
<1>6. Cardinality({}) = 0
  BY FS_EmptySet
<1>7. IsFiniteSet(a \cup b) /\ Cardinality(a \cup b) = Cardinality(a) + Cardinality(b)
  <2>1. IsFiniteSet(a \cup b) /\ Cardinality(a \cup b) = Cardinality(a) + Cardinality(b) - Cardinality(a \cap b)
    BY <1>3, FS_Union
  <2>2. Cardinality(a \cap b) = 0
    BY <1>1, <1>6
  <2> QED
    BY <2>1, <2>2, <1>5
<1>8. IsFiniteSet(a \cup b \cup c) /\ Cardinality(a \cup b \cup c) = Cardinality(a) + Cardinality(b) + Cardinality(c)
  <2>1. /\ IsFiniteSet((a \cup b) \cup c)
        /\ Cardinality((a \cup b) \cup c) = Cardinality(a \cup b) + Cardinality(c) - Cardinality((a \cup b) \cap c)
    BY <1>3, <1>7, FS_Union
  <2>2. Cardinality((a \cup b) \cap c) = 0
    BY <1>1, <1>6
  <2> QED
    BY <2>1, <2>2, <1>5, <1>7
<1>9. Cardinality(a \cup b \cup c \cup d) = Cardinality(a) + Cardinality(b) + Cardinality(c) + Cardinality(d)
  <2>1. Cardinality((a \cup b \cup c) \cup d) =
            Cardinality(a \cup b \cup c) + Cardinality(d) - Cardinality((a \cup b \cup c) \cap d)
    BY <1>3, <1>8, FS_Union
  <2>2. Cardinality((a \cup b \cup c) \cap d) = 0
    BY <1>1, <1>6
  <2> QED
    BY <2>1, <2>2, <1>5, <1>8
<1> QED
  BY <1>1, <1>2, <1>4, <1>9

\* A status is what the facts of the two sides make it.
LEMMA StatusCases ==
    ASSUME NEW key, NEW left, NEW right
    PROVE  /\ Status(key, left, right) \in Statuses
           /\ Status(key, left, right) = "same" =>
                 /\ key \in DOMAIN left /\ key \in DOMAIN right
                 /\ NormalValue[left[key].value] = NormalValue[right[key].value]
           /\ Status(key, left, right) = "only_left" <=> key \in DOMAIN left /\ key \notin DOMAIN right
           /\ Status(key, left, right) = "only_right" <=> key \notin DOMAIN left /\ key \in DOMAIN right
BY DEF Status, Statuses

\* What both sides say, where the comparison finds them the same.
Said(side, key) == {value \in Range(NormalValue) : Says(side, key, value)}

LEMMA NothingHidden ==
    ASSUME NEW left, SideOK(left), NEW right, SideOK(right), NEW fields \in Seq(DOMAIN NormalKey)
    PROVE  NoFlagsNoDifference(left, right, fields, Report(Compare(left, right, fields)))
<1> DEFINE lf == ExtractFacts(left)
           rf == ExtractFacts(right)
           c == Compare(left, right, fields)
<1>1. FactsOf(lf, left) /\ FactsOf(rf, right)
  BY FactsAreFirst
<1>2. Compared(c, left, right, lf, rf, fields)
  BY CompareCompares
<1>3. Report(c).flags = c.flags
  BY DEF Report
<1> HIDE DEF lf, rf, c
<1> DEFINE Keys == IF fields # << >> THEN {NormalKey[f] : f \in Range(fields)} ELSE Range(NormalKey)
           Compares == IF fields # << >> THEN {NormalKey[f] : f \in Range(fields)} ELSE DOMAIN lf \cup DOMAIN rf
<1>4. ASSUME c.flags = {}
      PROVE  \A key \in Compares : /\ key \in DOMAIN lf /\ key \in DOMAIN rf
                                   /\ NormalValue[lf[key].value] = NormalValue[rf[key].value]
  <2>1. c # Rejected
    BY <1>4 DEF Rejected
  <2>2. PICK keys : /\ \E n \in Nat : DOMAIN keys = 1..n
                    /\ Range(keys) = Compares
                    /\ c.items = [k \in DOMAIN keys |-> CompareKey(keys[k], lf, rf)]
    BY <2>1, <1>2 DEF Compared
  <2>3. ReviewFlags(c.items) = {}
    BY <2>1, <1>2, <1>4 DEF Compared
  <2>4. ASSUME NEW key \in Compares
        PROVE  Status(key, lf, rf) = "same"
    <3>1. PICK k \in DOMAIN keys : keys[k] = key
      BY <2>2, <2>4 DEF Range
    <3>2. c.items[k].status = Status(key, lf, rf) /\ k \in DOMAIN c.items
      BY <3>1, <2>2 DEF CompareKey
    <3>3. Status(key, lf, rf) \in {item.status : item \in Range(c.items)}
      BY <3>2 DEF Range
    <3> DEFINE statuses == {item.status : item \in Range(c.items)}
    <3> HIDE DEF statuses
    <3>4. ~("changed" \in statuses) /\ statuses \cap {"only_left", "only_right"} = {}
      BY <2>3 DEF ReviewFlags, statuses
    <3>5. Status(key, lf, rf) \in Statuses
      BY StatusCases
    <3> QED
      BY <3>3, <3>4, <3>5 DEF Statuses, statuses
  <2> QED
    BY <2>4, StatusCases
<1>5. \A key, value : /\ Says(left, key, value) <=> key \in DOMAIN lf /\ value = NormalValue[lf[key].value]
                      /\ Says(right, key, value) <=> key \in DOMAIN rf /\ value = NormalValue[rf[key].value]
  BY <1>1, FactsSay
<1>6. ASSUME c.flags = {}, NEW key \in Keys
      PROVE  Said(left, key) = Said(right, key)
  <2>1. CASE key \in Compares
    BY <2>1, <1>4, <1>5, <1>6 DEF Said
  <2>2. CASE key \notin Compares
    BY <2>2, <1>5, <1>6 DEF Said
  <2> QED
    BY <2>1, <2>2
<1>7. ASSUME c.flags = {}, fields # << >>, NEW key \in Keys
      PROVE  Said(left, key) # {}
  <2>1. key \in DOMAIN lf
    BY <1>4, <1>7
  <2>2. PICK n, k \in Nat : /\ TellsFirst(left, key, n, k)
                            /\ lf[key] = [value |-> left.sources[n].lines[k].value, source |-> n]
    BY <2>1, <1>1 DEF FactsOf
  <2>3. n \in DOMAIN left.sources /\ k \in DOMAIN left.sources[n].lines
    BY <2>2 DEF TellsFirst, Tells
  <2>4. left.sources[n].lines \in Seq(SideLines)
    BY <2>3 DEF SideOK
  <2>5. left.sources[n].lines[k] \in SideLines
    <3> DEFINE s == left.sources[n].lines
    <3> HIDE DEF s
    <3>1. s \in Seq(SideLines) /\ k \in DOMAIN s
      BY <2>3, <2>4 DEF s
    <3>2. s[k] \in SideLines
      BY <3>1
    <3> QED
      BY <3>2 DEF s
  <2>6. left.sources[n].lines[k].value \in DOMAIN NormalValue
    BY <2>5 DEF SideLines
  <2>7. lf[key].value \in DOMAIN NormalValue
    BY <2>2, <2>6
  <2>8. NormalValue[lf[key].value] \in Range(NormalValue)
    BY <2>7 DEF Range
  <2> QED
    BY <2>1, <2>8, <1>5 DEF Said
<1>8. NoFlagsNoDifference(left, right, fields, Report(c))
  BY <1>3, <1>6, <1>7 DEF NoFlagsNoDifference, Said
<1> QED
  BY <1>8 DEF c

\* What one side cites for a key: nothing, or the source of its fact, where the
\* key and its value stand.
CitesFact(cited, side, facts, key, name) ==
    /\ \E S : cited \in Seq(S)
    /\ Len(cited) = IF key \in DOMAIN facts THEN 1 ELSE 0
    /\ \A e \in Range(cited) : \E n \in DOMAIN side.sources :
          /\ e = << name, n >>
          /\ \E line \in Range(side.sources[n].lines) :
                NormalKey[line.key] = key /\ Says(side, key, NormalValue[line.value])

LEMMA EvidenceTells ==
    ASSUME NEW side, SideOK(side), NEW facts, FactsOf(facts, side), NEW key, NEW name
    PROVE  CitesFact([n \in DOMAIN Evidence(facts, key) |-> << name, Evidence(facts, key)[n] >>],
                     side, facts, key, name)
<1> DEFINE cited == [n \in DOMAIN Evidence(facts, key) |-> << name, Evidence(facts, key)[n] >>]
<1>1. CASE key \in DOMAIN facts
  <2> DEFINE e == << name, facts[key].source >>
  <2>1. Evidence(facts, key) = << facts[key].source >>
    BY <1>1 DEF Evidence
  <2>2. cited = << e >>
    BY <2>1
  <2>3. PICK n, k \in Nat : /\ TellsFirst(side, key, n, k)
                            /\ facts[key] = [value |-> side.sources[n].lines[k].value, source |-> n]
    BY <1>1 DEF FactsOf
  <2>4. /\ n \in DOMAIN side.sources /\ k \in DOMAIN side.sources[n].lines
        /\ NormalKey[side.sources[n].lines[k].key] = key
    BY <2>3 DEF TellsFirst, Tells
  <2>5. facts[key].source = n /\ facts[key].value = side.sources[n].lines[k].value
    BY <2>3
  <2>6. Says(side, key, NormalValue[side.sources[n].lines[k].value])
    BY <1>1, <2>5, FactsSay
  <2>7. side.sources[n].lines[k] \in Range(side.sources[n].lines)
    BY <2>4 DEF Range
  <2>8. e[2] = n /\ e = << name, n >>
    BY <2>5
  <2> HIDE DEF e, cited
  <2>9. cited \in Seq({e}) /\ Len(cited) = 1 /\ Range(cited) = {e}
    <3>1. << e >> \in Seq({e}) /\ Len(<< e >>) = 1
      OBVIOUS
    <3>2. DOMAIN << e >> = {1} /\ << e >>[1] = e
      OBVIOUS
    <3> QED
      BY <2>2, <3>1, <3>2 DEF Range
  <2> QED
    BY <1>1, <2>4, <2>6, <2>7, <2>8, <2>9 DEF CitesFact, cited
<1>2. CASE key \notin DOMAIN facts
  <2>1. cited = << >>
    BY <1>2 DEF Evidence
  <2>2. cited \in Seq({}) /\ Len(cited) = 0 /\ DOMAIN cited = {}
    BY <2>1
  <2>3. Range(cited) = {}
    BY <2>2 DEF Range
  <2> QED
    BY <1>2, <2>2, <2>3 DEF CitesFact
<1> QED
  BY <1>1, <1>2

\* The appendix names every source of both sides.
LEMMA AppendixNames ==
    ASSUME NEW left, SideOK(left), NEW right, SideOK(right)
    PROVE  /\ \A n \in DOMAIN left.sources : << "left", n >> \in Range(Appendix(left, right))
           /\ \A n \in DOMAIN right.sources : << "right", n >> \in Range(Appendix(left, right))
<1> DEFINE a == [n \in DOMAIN left.sources |-> << "left", n >>]
           b == [n \in DOMAIN right.sources |-> << "right", n >>]
           S == {"left", "right"} \X Nat
<1>1. a \in [1..Len(left.sources) -> S] /\ Len(left.sources) \in Nat
  BY DEF SideOK
<1>2. b \in [1..Len(right.sources) -> S] /\ Len(right.sources) \in Nat
  BY DEF SideOK
<1>3. Appendix(left, right) = a \o b
  BY DEF Appendix
<1>4. /\ \A n \in DOMAIN left.sources : << "left", n >> \in Range(a)
      /\ \A n \in DOMAIN right.sources : << "right", n >> \in Range(b)
  BY DEF Range
<1> HIDE DEF a, b, S
<1>5. a \in Seq(S) /\ b \in Seq(S)
  BY <1>1, <1>2, FunctionIsSequence
<1>6. Range(a \o b) = Range(a) \cup Range(b)
  BY <1>5, ConcatRange
<1> QED
  BY <1>3, <1>4, <1>6

\* What a row says is in the appendix and in the source it cites.
RowTells(row, left, right, appendix) ==
    LET side(name) == IF name = "left" THEN left ELSE right IN
    /\ \A e \in Range(row.evidence) :
          /\ e \in Range(appendix)
          /\ \E line \in Range(side(e[1]).sources[e[2]].lines) :
                NormalKey[line.key] = row.key /\ Says(side(e[1]), row.key, NormalValue[line.value])
    /\ row.status \in {"only_left", "only_right"} <=> Len(row.evidence) = 1

LEMMA RowsTell ==
    ASSUME NEW left, SideOK(left), NEW right, SideOK(right), NEW lf, FactsOf(lf, left), NEW rf, FactsOf(rf, right),
           NEW key, NEW row,
           row = LET item == CompareKey(key, lf, rf)
                 IN  [key |-> item.key, status |-> item.status,
                      evidence |-> [n \in DOMAIN item.left |-> << "left", item.left[n] >>]
                                     \o [n \in DOMAIN item.right |-> << "right", item.right[n] >>]]
    PROVE  RowTells(row, left, right, Appendix(left, right))
<1> DEFINE a == [n \in DOMAIN Evidence(lf, key) |-> << "left", Evidence(lf, key)[n] >>]
           b == [n \in DOMAIN Evidence(rf, key) |-> << "right", Evidence(rf, key)[n] >>]
<1>1. row.key = key /\ row.status = Status(key, lf, rf) /\ row.evidence = a \o b
  BY DEF CompareKey
<1>2. CitesFact(a, left, lf, key, "left")
  BY EvidenceTells
<1>3. CitesFact(b, right, rf, key, "right")
  BY EvidenceTells
<1> HIDE DEF a, b
<1>4. Range(a \o b) = Range(a) \cup Range(b) /\ Len(a \o b) = Len(a) + Len(b)
  <2>1. PICK A, B : a \in Seq(A) /\ b \in Seq(B)
    BY <1>2, <1>3 DEF CitesFact
  <2> DEFINE S == A \cup B
  <2>2. a \in Seq(S) /\ b \in Seq(S)
    <3>1. \A s \in Seq(A) : s \in Seq(S)
      OBVIOUS
    <3>2. \A s \in Seq(B) : s \in Seq(S)
      OBVIOUS
    <3> QED
      BY <2>1, <3>1, <3>2
  <2> HIDE DEF S
  <2> QED
    BY <2>2, ConcatRange
<1>5. ASSUME NEW e \in Range(a)
      PROVE  /\ e \in Range(Appendix(left, right)) /\ e[1] = "left"
             /\ \E line \in Range(left.sources[e[2]].lines) :
                   NormalKey[line.key] = key /\ Says(left, key, NormalValue[line.value])
  <2>1. PICK n \in DOMAIN left.sources :
             /\ e = << "left", n >>
             /\ \E line \in Range(left.sources[n].lines) :
                   NormalKey[line.key] = key /\ Says(left, key, NormalValue[line.value])
    BY <1>2 DEF CitesFact
  <2>2. e[1] = "left" /\ e[2] = n
    BY <2>1
  <2> QED
    BY <2>1, <2>2, AppendixNames
<1>6. ASSUME NEW e \in Range(b)
      PROVE  /\ e \in Range(Appendix(left, right)) /\ e[1] = "right"
             /\ \E line \in Range(right.sources[e[2]].lines) :
                   NormalKey[line.key] = key /\ Says(right, key, NormalValue[line.value])
  <2>1. PICK n \in DOMAIN right.sources :
             /\ e = << "right", n >>
             /\ \E line \in Range(right.sources[n].lines) :
                   NormalKey[line.key] = key /\ Says(right, key, NormalValue[line.value])
    BY <1>3 DEF CitesFact
  <2>2. e[1] = "right" /\ e[2] = n
    BY <2>1
  <2> QED
    BY <2>1, <2>2, AppendixNames
<1>7. row.status \in {"only_left", "only_right"} <=> Len(row.evidence) = 1
  <2>1. row.status \in {"only_left", "only_right"} <=> (key \in DOMAIN lf) # (key \in DOMAIN rf)
    BY <1>1, StatusCases
  <2>2. Len(row.evidence) = Len(a) + Len(b)
    BY <1>1, <1>4
  <2>3. CASE key \in DOMAIN lf
    <3>1. Len(a) = 1
      BY <1>2, <2>3 DEF CitesFact
    <3>2. CASE key \in DOMAIN rf
      BY <1>3, <2>1, <2>2, <2>3, <3>1, <3>2 DEF CitesFact
    <3>3. CASE key \notin DOMAIN rf
      BY <1>3, <2>1, <2>2, <2>3, <3>1, <3>3 DEF CitesFact
    <3> QED
      BY <3>2, <3>3
  <2>4. CASE key \notin DOMAIN lf
    <3>1. Len(a) = 0
      BY <1>2, <2>4 DEF CitesFact
    <3>2. CASE key \in DOMAIN rf
      BY <1>3, <2>1, <2>2, <2>4, <3>1, <3>2 DEF CitesFact
    <3>3. CASE key \notin DOMAIN rf
      BY <1>3, <2>1, <2>2, <2>4, <3>1, <3>3 DEF CitesFact
    <3> QED
      BY <3>2, <3>3
  <2> QED
    BY <2>3, <2>4
<1> QED
  BY <1>1, <1>4, <1>5, <1>6, <1>7 DEF RowTells

LEMMA SectionsAgree ==
    ASSUME NEW left, SideOK(left), NEW right, SideOK(right), NEW fields \in Seq(DOMAIN NormalKey)
    PROVE  ReportAddsUp(left, right, Report(Compare(left, right, fields)))
<1> DEFINE lf == ExtractFacts(left)
           rf == ExtractFacts(right)
           c == Compare(left, right, fields)
           report == Report(c)
<1>1. FactsOf(lf, left) /\ FactsOf(rf, right)
  BY FactsAreFirst
<1>2. Compared(c, left, right, lf, rf, fields)
  BY CompareCompares
<1>3. /\ report.rows = SideBySide(c) /\ report.appendix = c.appendix
      /\ report.summary.total = Len(c.items)
      /\ report.summary.same = CountItems(c.items, "same")
      /\ report.summary.changed = CountItems(c.items, "changed")
      /\ report.summary.onlyLeft = CountItems(c.items, "only_left")
      /\ report.summary.onlyRight = CountItems(c.items, "only_right")
  BY DEF Report, ExecutiveSummary
<1> HIDE DEF lf, rf, c, report
<1>4. \E n \in Nat : /\ DOMAIN c.items = 1..n
                     /\ \A k \in 1..n : /\ c.items[k].status \in Statuses
                                        /\ \E key : c.items[k] = CompareKey(key, lf, rf)
                                        /\ c.appendix = Appendix(left, right)
  <2>1. CASE c = Rejected
    <3>1. DOMAIN c.items = 1..0 /\ 1..0 = {}
      BY <2>1 DEF Rejected
    <3> QED
      BY <3>1
  <2>2. CASE c # Rejected
    <3>1. PICK keys : /\ \E n \in Nat : DOMAIN keys = 1..n
                      /\ c.items = [k \in DOMAIN keys |-> CompareKey(keys[k], lf, rf)]
      BY <2>2, <1>2 DEF Compared
    <3>2. PICK n \in Nat : DOMAIN keys = 1..n
      BY <3>1
    <3>3. \A k \in 1..n : c.items[k] = CompareKey(keys[k], lf, rf)
      BY <3>1, <3>2
    <3>4. ASSUME NEW k \in 1..n
          PROVE  c.items[k].status \in Statuses
      <4> DEFINE item == c.items[k]
      <4>1. item = CompareKey(keys[k], lf, rf)
        BY <3>3
      <4> HIDE DEF item
      <4>2. item.status = Status(keys[k], lf, rf)
        BY <4>1 DEF CompareKey
      <4>3. item.status \in Statuses
        BY <4>2, StatusCases
      <4> QED
        BY <4>3 DEF item
    <3>5. c.appendix = Appendix(left, right)
      BY <2>2, <1>2 DEF Compared
    <3>6. DOMAIN c.items = 1..n
      BY <3>1, <3>2
    <3> QED
      BY <3>3, <3>4, <3>5, <3>6
  <2> QED
    BY <2>1, <2>2
<1>5. PICK n \in Nat : /\ DOMAIN c.items = 1..n
                       /\ \A k \in 1..n : /\ c.items[k].status \in Statuses
                                          /\ \E key : c.items[k] = CompareKey(key, lf, rf)
                                          /\ c.appendix = Appendix(left, right)
  BY <1>4
<1>6. n = CountItems(c.items, "same") + CountItems(c.items, "changed")
            + CountItems(c.items, "only_left") + CountItems(c.items, "only_right")
  BY <1>5, CountsAddUp
<1>7. Len(c.items) = n
  <2>1. c.items \in [1..n -> {c.items[k] : k \in 1..n}]
    <3>1. c.items = [k \in 1..n |-> c.items[k]]
      <4>1. c = Rejected \/ \E keys : c.items = [k \in DOMAIN keys |-> CompareKey(keys[k], lf, rf)]
        BY <1>2 DEF Compared
      <4>2. c = Rejected => c.items = << >> /\ n = 0
        BY <1>5 DEF Rejected
      <4>3. CASE c = Rejected
        <5>1. c.items = << >> /\ 1..n = {}
          BY <4>2, <4>3
        <5> QED
          BY <5>1
      <4>4. ASSUME NEW keys, c.items = [k \in DOMAIN keys |-> CompareKey(keys[k], lf, rf)]
            PROVE  c.items = [k \in 1..n |-> c.items[k]]
        <5> DEFINE items == c.items
        <5>1. items = [k \in DOMAIN keys |-> CompareKey(keys[k], lf, rf)] /\ DOMAIN items = 1..n
          BY <4>4, <1>5
        <5> HIDE DEF items
        <5>2. items = [k \in 1..n |-> items[k]]
          BY <5>1
        <5> QED
          BY <5>2 DEF items
      <4> QED
        BY <4>1, <4>3, <4>4
    <3> QED
      BY <3>1
  <2> QED
    BY <2>1, FunctionIsSequence
<1>8. DOMAIN report.rows = 1..n /\ Len(report.rows) = n
  <2> DEFINE rows == SideBySide(c)
             S == {rows[k] : k \in 1..n}
  <2>1. DOMAIN rows = 1..n /\ rows \in [1..n -> S]
    BY <1>5 DEF SideBySide
  <2> HIDE DEF rows, S
  <2>2. Len(rows) = n
    BY <2>1, FunctionIsSequence
  <2> QED
    BY <1>3, <2>1, <2>2 DEF rows
<1>9. ASSUME NEW k \in 1..n
      PROVE  RowTells(report.rows[k], left, right, report.appendix)
  <2>1. PICK key : c.items[k] = CompareKey(key, lf, rf)
    BY <1>5
  <2>2. report.rows[k] = LET item == c.items[k]
                         IN  [key |-> item.key, status |-> item.status,
                              evidence |-> [m \in DOMAIN item.left |-> << "left", item.left[m] >>]
                                     \o [m \in DOMAIN item.right |-> << "right", item.right[m] >>]]
    BY <1>3, <1>5 DEF SideBySide
  <2>3. RowTells(report.rows[k], left, right, Appendix(left, right))
    BY <2>1, <2>2, <1>1, RowsTell
  <2> QED
    BY <2>3, <1>3, <1>5
<1>10. \A row \in Range(report.rows) : RowTells(row, left, right, report.appendix)
  BY <1>8, <1>9 DEF Range
<1>11. report.summary.total = Len(report.rows)
  BY <1>3, <1>7, <1>8
<1>12. report.summary.total = report.summary.same + report.summary.changed
                                + report.summary.onlyLeft + report.summary.onlyRight
  BY <1>3, <1>6, <1>7
<1>13. ReportAddsUp(left, right, report)
  BY <1>10, <1>11, <1>12 DEF ReportAddsUp, RowTells
<1> QED
  BY <1>13 DEF report, c

-----------------------------------------------------------------------------
(* Extraction (module Extraction)                                          *)

\* Validation accepts only if no field is unknown, is a list, lacks evidence or
\* has no sound confidence.
Sound(raw, schema, sources) ==
    /\ raw.name \in DOMAIN schema
    /\ ~Breaks(raw)
    /\ raw.value = None \/ HasEvidence(raw, sources)
    /\ raw.sound

LEMMA ValidateAccepts ==
    ASSUME NEW fields, NEW schema, NEW sources
    PROVE  Validate(fields, schema, sources) = "accepted" <=>
             (\A k \in DOMAIN fields : Sound(fields[k], schema, sources)) /\ AllPresent(fields, schema)
<1> DEFINE verdict(k) == Verdict(fields[k], schema, sources)
           bad == {k \in DOMAIN fields : verdict(k) # "fine"}
           last == IF AllPresent(fields, schema) THEN "accepted" ELSE "rejected"
<1>1. Validate(fields, schema, sources) = IF bad # {} THEN verdict(Min(bad)) ELSE last
  BY Zenon DEF Validate
<1>2. bad = {} <=> \A k \in DOMAIN fields : Sound(fields[k], schema, sources)
  <2>1. \A k \in DOMAIN fields : verdict(k) = "fine" <=> Sound(fields[k], schema, sources)
    BY DEF Verdict, Sound
  <2> QED
    BY <2>1
<1>3. verdict(Min(bad)) # "accepted"
  <2> HIDE DEF bad
  <2> QED
    BY DEF Verdict
<1>4. last = "accepted" <=> AllPresent(fields, schema)
  OBVIOUS
<1> HIDE DEF bad, verdict, last
<1> QED
  BY <1>1, <1>2, <1>3, <1>4

\* Whoever extracted them, accepted fields are evidenced.
LEMMA AcceptedEvidence ==
    ASSUME NEW fields, NEW schema, NEW sources
    PROVE  AcceptedIsEvidenced(fields, schema, sources, Validate(fields, schema, sources))
<1> SUFFICES ASSUME \A k \in DOMAIN fields : Sound(fields[k], schema, sources),
                    AllPresent(fields, schema)
             PROVE  /\ {raw.name : raw \in Range(fields)} = DOMAIN schema
                    /\ \A raw \in Range(fields) : raw.value # None =>
                         raw.source \in DOMAIN sources /\ \E t \in DOMAIN sources[raw.source] : sources[raw.source][t] = raw.quote
                    /\ \A raw \in Range(fields) : raw.sound
  BY ValidateAccepts DEF AcceptedIsEvidenced
<1>1. \A raw \in Range(fields) : Sound(raw, schema, sources)
  BY DEF Range
<1>2. {raw.name : raw \in Range(fields)} = DOMAIN schema
  BY <1>1 DEF Sound, AllPresent
<1>3. ASSUME NEW raw \in Range(fields), raw.value # None
      PROVE  raw.source \in DOMAIN sources /\ \E t \in DOMAIN sources[raw.source] : sources[raw.source][t] = raw.quote
  BY <1>1, <1>3 DEF Sound, HasEvidence, QuotesOf
<1>4. \A raw \in Range(fields) : raw.sound
  BY <1>1 DEF Sound
<1> QED
  BY <1>2, <1>3, <1>4

\* The sources that have a value of a type, and the first of them.
Holders(type, sources) == {n \in DOMAIN sources : type \in DOMAIN sources[n]}

\* What is extracted for a field, from the first source that has it.
Extracted(raw, name, type, sources) ==
    /\ raw.name = name /\ raw.sound
    /\ Holders(type, sources) = {} => raw.value = None /\ ~raw.list
    /\ Holders(type, sources) # {} =>
         /\ raw.list <=> type = "list"
         /\ type # "list" => HasEvidence(raw, sources)
    /\ \A n \in Holders(type, sources) : raw.source \in 1..n

LEMMA ExtractedField ==
    ASSUME NEW name, NEW type, NEW S, NEW sources \in Seq(S)
    PROVE  Extracted(ExtractField(name, type, sources), name, type, sources)
<1> DEFINE raw == ExtractField(name, type, sources)
<1>1. CASE Holders(type, sources) = {}
  <2>1. raw = NoField(name)
    BY <1>1 DEF ExtractField, Holders
  <2> QED
    BY <2>1, <1>1 DEF NoField, Extracted
<1>2. CASE Holders(type, sources) # {}
  <2> DEFINE n == Min(Holders(type, sources))
  <2>1. raw = FieldFrom(name, type, sources, n)
    BY <1>2 DEF ExtractField, Holders
  <2>2. DOMAIN sources \subseteq Nat \ {0}
    OBVIOUS
  <2>3. Holders(type, sources) \subseteq Nat \ {0}
    BY <2>2 DEF Holders
  <2>4. n \in Holders(type, sources) /\ \A m \in Holders(type, sources) : n <= m
    BY <1>2, <2>3, MinIs
  <2>5. n \in DOMAIN sources /\ type \in DOMAIN sources[n]
    BY <2>4 DEF Holders
  <2> HIDE DEF n
  <2>6. raw.name = name /\ raw.sound /\ raw.source = n /\ raw.quote = sources[n][type] /\ raw.list = (type = "list")
    BY <2>1 DEF FieldFrom
  <2>7. type # "list" => HasEvidence(raw, sources)
    BY <2>5, <2>6 DEF HasEvidence, QuotesOf
  <2>8. \A m \in Holders(type, sources) : raw.source \in 1..m
    BY <2>3, <2>4, <2>6
  <2>9. raw.list <=> type = "list"
    BY <2>6
  <2>10. Extracted(raw, name, type, sources)
    <3> HIDE DEF raw
    <3> QED
      BY <1>2, <2>6, <2>7, <2>8, <2>9 DEF Extracted
  <2> QED
    BY <2>10
<1> QED
  BY <1>1, <1>2

\* What the local client extracts is accepted unless it found a list.
LEMMA LocalAccepted ==
    ASSUME NEW schema, IsFiniteSet(DOMAIN schema), NEW S, NEW sources \in Seq(S)
    PROVE  LocalIsAccepted(schema, sources, ExtractJson(schema, sources),
                           Validate(ExtractJson(schema, sources), schema, sources))
<1> DEFINE names == SetToSeq(DOMAIN schema)
           fields == ExtractJson(schema, sources)
           found(name) == \E n \in DOMAIN sources : schema[name] \in DOMAIN sources[n]
<1>1. /\ DOMAIN names = 1..Cardinality(DOMAIN schema)
      /\ \A k \in DOMAIN names : names[k] \in DOMAIN schema
      /\ \A name \in DOMAIN schema : \E k \in DOMAIN names : names[k] = name
  BY Enumerated
<1>2. /\ DOMAIN fields = DOMAIN names
      /\ \A k \in DOMAIN names : fields[k] = ExtractField(names[k], schema[names[k]], sources)
  BY DEF ExtractJson
<1> HIDE DEF names, fields
<1>3. \A k \in DOMAIN names : fields[k].name = names[k]
  BY <1>2, ExtractedField DEF Extracted
<1>4. AllPresent(fields, schema)
  <2> SUFFICES ASSUME NEW name \in DOMAIN schema
               PROVE  \E raw \in Range(fields) : raw.name = name
    BY DEF AllPresent
  <2>1. PICK k \in DOMAIN names : names[k] = name
    BY <1>1
  <2> QED
    BY <2>1, <1>2, <1>3 DEF Range
<1>5. \A k \in DOMAIN names :
        Sound(fields[k], schema, sources) <=> (schema[names[k]] = "list" => ~found(names[k]))
  <2> SUFFICES ASSUME NEW k \in DOMAIN names
               PROVE  Sound(fields[k], schema, sources) <=> (schema[names[k]] = "list" => ~found(names[k]))
    OBVIOUS
  <2>1. found(names[k]) <=> Holders(schema[names[k]], sources) # {}
    BY DEF Holders
  <2>2. fields[k].name \in DOMAIN schema /\ fields[k].sound
    BY <1>1, <1>2, <1>3, ExtractedField DEF Extracted
  <2>3. CASE ~found(names[k])
    <3>1. fields[k].value = None /\ ~fields[k].list
      BY <2>1, <2>3, <1>2, ExtractedField DEF Extracted
    <3> QED
      BY <2>2, <2>3, <3>1 DEF Sound, Breaks
  <2>4. CASE found(names[k])
    <3>1. /\ fields[k].list <=> schema[names[k]] = "list"
          /\ schema[names[k]] # "list" => HasEvidence(fields[k], sources)
      BY <2>1, <2>4, <1>2, ExtractedField DEF Extracted
    <3> QED
      BY <2>2, <2>4, <3>1 DEF Sound, Breaks
  <2> QED
    BY <2>3, <2>4
<1>6. Validate(fields, schema, sources) = "accepted" <=>
        \A name \in DOMAIN schema : schema[name] = "list" => ~found(name)
  <2>1. (\A k \in DOMAIN fields : Sound(fields[k], schema, sources)) <=>
          \A name \in DOMAIN schema : schema[name] = "list" => ~found(name)
    BY <1>1, <1>2, <1>5
  <2> QED
    BY <2>1, <1>4, ValidateAccepts
<1>7. ASSUME NEW raw \in Range(fields), NEW n \in DOMAIN sources, schema[raw.name] \in DOMAIN sources[n]
      PROVE  raw.source \in 1..n
  <2>1. PICK k \in DOMAIN names : raw = fields[k]
    BY <1>2 DEF Range
  <2>2. raw.name = names[k] /\ raw = ExtractField(names[k], schema[names[k]], sources)
    BY <2>1, <1>2, <1>3
  <2>3. n \in Holders(schema[names[k]], sources)
    BY <1>7, <2>2 DEF Holders
  <2> QED
    BY <2>2, <2>3, ExtractedField DEF Extracted
<1> QED
  BY <1>6, <1>7 DEF LocalIsAccepted, fields

-----------------------------------------------------------------------------
(* The chunks of a document (module Chunker).  The loop over the paragraphs *)
(* keeps that the chunks closed so far, and the one that would be closed if *)
(* no paragraph followed, hold the paragraphs read so far (Merged).         *)

\* The sequences of a and then those of b.
LEMMA ConcatAssociates ==
    ASSUME NEW S, NEW a \in Seq(S), NEW b \in Seq(S), NEW c \in Seq(S)
    PROVE  (a \o b) \o c = a \o (b \o c)
OBVIOUS

LEMMA FlattenConcat ==
    ASSUME NEW S, NEW a \in Seq(Seq(S)), NEW b \in Seq(Seq(S))
    PROVE  FlattenSeq(a \o b) = FlattenSeq(a) \o FlattenSeq(b)
<1> DEFINE c == a \o b
           n == Len(a)
           m == Len(b)
           All == Seq(S)
<1>1. /\ n \in Nat /\ m \in Nat /\ c \in Seq(All) /\ Len(c) = n + m
      /\ \A i \in 1..n : c[i] = a[i] /\ a[i] \in All
      /\ \A j \in 1..m : c[n + j] = b[j] /\ b[j] \in All
  OBVIOUS
<1>2. PICK f \in [0..n -> All] : Flattens(f, a)
  BY FlattenIterates
<1>3. PICK g \in [0..m -> All] : Flattens(g, b)
  BY FlattenIterates
<1>4. PICK h \in [0..(n + m) -> All] : Flattens(h, c)
  BY <1>1, FlattenIterates
<1>5. /\ f[0] = << >> /\ f[n] = FlattenSeq(a) /\ \A i \in 1..n : f[i] = f[i - 1] \o a[i]
      /\ g[0] = << >> /\ g[m] = FlattenSeq(b) /\ \A j \in 1..m : g[j] = g[j - 1] \o b[j]
      /\ h[0] = << >> /\ h[n + m] = FlattenSeq(c) /\ \A i \in 1..(n + m) : h[i] = h[i - 1] \o c[i]
  BY <1>1, <1>2, <1>3, <1>4 DEF Flattens
<1>6. FlattenSeq(c) = FlattenSeq(a \o b)
  OBVIOUS
<1>7. \A x, y, z \in All : (x \o y) \o z = x \o (y \o z)
  BY ConcatAssociates
<1>8. \A x \in All : x \o << >> = x
  OBVIOUS
<1> HIDE DEF c, n, m, All
<1> DEFINE T == {i \in Nat : i <= n => h[i] = f[i]}
<1>17. n \in Nat /\ m \in Nat
  BY <1>1
<1>9. 0 \in T
  BY <1>5
<1>10. ASSUME NEW i \in Nat, i \in T
       PROVE  i + 1 \in T
  <2> SUFFICES ASSUME i + 1 <= n
               PROVE  h[i + 1] = f[i + 1]
    OBVIOUS
  <2>1. i + 1 \in 1..n /\ i + 1 \in 1..(n + m) /\ (i + 1) - 1 = i /\ i <= n
    BY <1>17
  <2>2. h[i] = f[i]
    BY <1>10, <2>1
  <2>3. h[i + 1] = h[i] \o c[i + 1] /\ f[i + 1] = f[i] \o a[i + 1] /\ c[i + 1] = a[i + 1]
    BY <1>1, <1>5, <2>1
  <2> QED
    BY <2>2, <2>3
<1> HIDE DEF T
<1>11. n \in T
  BY <1>17, <1>9, <1>10, Induction
<1>12. h[n] = f[n]
  BY <1>17, <1>11 DEF T
<1> DEFINE U == {j \in Nat : j <= m => h[n + j] = f[n] \o g[j]}
<1>13. 0 \in U
  <2>1. n + 0 = n /\ n \in 0..n
    BY <1>17
  <2>2. f[n] \in All
    BY <1>2, <2>1
  <2>3. h[n + 0] = f[n] \o g[0]
    BY <1>5, <1>8, <1>12, <2>1, <2>2
  <2> QED
    BY <2>3
<1>14. ASSUME NEW j \in Nat, j \in U
       PROVE  j + 1 \in U
  <2>7. j + 1 \in Nat
    OBVIOUS
  <2> SUFFICES ASSUME j + 1 <= m
               PROVE  h[n + (j + 1)] = f[n] \o g[j + 1]
    BY <2>7, Zenon
  <2>1. /\ j + 1 \in 1..m /\ n + (j + 1) \in 1..(n + m) /\ (j + 1) - 1 = j
        /\ (n + (j + 1)) - 1 = n + j /\ j \in 0..m /\ n \in 0..n /\ j <= m
    BY <1>17
  <2>2. h[n + j] = f[n] \o g[j]
    BY <1>14, <2>1
  <2>6. /\ h[n + (j + 1)] = h[(n + (j + 1)) - 1] \o c[n + (j + 1)]
        /\ c[n + (j + 1)] = b[j + 1]
    BY <1>1, <1>5, <2>1
  <2>3. h[n + (j + 1)] = (f[n] \o g[j]) \o b[j + 1]
    BY <2>1, <2>2, <2>6
  <2>4. g[j + 1] = g[j] \o b[j + 1]
    BY <1>5, <2>1
  <2>5. f[n] \in All /\ g[j] \in All /\ b[j + 1] \in All
    BY <1>1, <1>2, <1>3, <2>1
  <2> QED
    <3> DEFINE first == f[n]
               second == g[j]
               third == b[j + 1]
    <3>1. first \in All /\ second \in All /\ third \in All
      BY <2>5
    <3>2. h[n + (j + 1)] = (first \o second) \o third
      BY <2>3
    <3>4. g[j + 1] = second \o third
      BY <2>4
    <3> HIDE DEF first, second, third
    <3>3. (first \o second) \o third = first \o (second \o third)
      BY <1>7, <3>1, Zenon
    <3>5. h[n + (j + 1)] = first \o g[j + 1]
      BY <3>2, <3>3, <3>4, Zenon
    <3> QED
      BY <3>5 DEF first
<1> HIDE DEF U
<1>15. m \in U
  BY <1>17, <1>13, <1>14, Induction
<1>16. h[n + m] = f[n] \o g[m]
  BY <1>17, <1>15 DEF U
<1> QED
  BY <1>5, <1>6, <1>16

LEMMA FlattenOne ==
    ASSUME NEW S, NEW s \in Seq(S)
    PROVE  FlattenSeq(<< s >>) = s
<1> DEFINE one == << s >>
<1>1. one \in Seq(Seq(S)) /\ Len(one) = 1 /\ one[1] = s
  OBVIOUS
<1> HIDE DEF one
<1>2. PICK f \in [0..Len(one) -> Seq(S)] : Flattens(f, one)
  BY <1>1, FlattenIterates
<1>5. 1 - 1 = 0 /\ 1 \in 1..1
  OBVIOUS
<1>3. f[0] = << >> /\ f[1] = FlattenSeq(one) /\ f[1] = f[1 - 1] \o s
  BY <1>1, <1>2, <1>5 DEF Flattens
<1>4. f[1] = << >> \o s
  BY <1>3, <1>5
<1>6. << >> \o s = s
  OBVIOUS
<1> QED
  BY <1>3, <1>4, <1>6 DEF one

\* The last sequences say what the whole one ends with.
LEMMA FlattenTail ==
    ASSUME NEW S, NEW seqs \in Seq(Seq(S)), NEW k \in 1..Len(seqs)
    PROVE  /\ SubSeq(seqs, k, Len(seqs)) \in Seq(Seq(S))
           /\ FlattenSeq(SubSeq(seqs, k, Len(seqs))) \in Suffixes(FlattenSeq(seqs))
<1> DEFINE a == SubSeq(seqs, 1, k - 1)
           b == SubSeq(seqs, k, Len(seqs))
           x == FlattenSeq(a)
           y == FlattenSeq(b)
           All == Seq(S)
<1>1. a \in Seq(All) /\ b \in Seq(All) /\ seqs = a \o b
  OBVIOUS
<1>2. FlattenSeq(seqs) = x \o y /\ x \in Seq(S) /\ y \in Seq(S)
  BY <1>1, FlattenConcat, FlattenLays
<1> HIDE DEF a, b, x, y
<1>3. CASE y = << >>
  BY <1>1, <1>3 DEF Suffixes, y, b
<1>4. CASE y # << >>
  <2>1. Len(x) \in Nat /\ Len(y) \in Nat \ {0} /\ Len(x \o y) = Len(x) + Len(y)
    BY <1>2, <1>4
  <2>2. SubSeq(x \o y, Len(x) + 1, Len(x \o y)) = y
    BY <1>2, <2>1
  <2>3. Len(x) + 1 \in 1..Len(x \o y)
    BY <2>1
  <2>4. y \in Suffixes(x \o y)
    BY <2>2, <2>3 DEF Suffixes
  <2> QED
    BY <1>1, <1>2, <2>4 DEF y, b
<1> QED
  BY <1>3, <1>4

RawChunks == [text : Seq(Nat), start : Nat, end : Nat, count : Nat]
Segments  == [text : Seq(Nat), start : Nat, end : Nat]
Configs   == [max : Nat, overlap : Nat]

Increases(s) == \A j, k \in 1..Len(s) : j < k => s[j] < s[k]

\* The paragraphs lie one behind the other, and their tokens in their ranges.
InOrder(segs) ==
    /\ \A i \in 1..Len(segs) :
          /\ Len(segs[i].text) >= 1 /\ Increases(segs[i].text)
          /\ \A k \in 1..Len(segs[i].text) : segs[i].start <= segs[i].text[k] /\ segs[i].text[k] < segs[i].end
    /\ \A i, j \in 1..Len(segs) : i < j => segs[i].end <= segs[j].start

IsToken(segs, x) == \E i \in 1..Len(segs) : \E k \in 1..Len(segs[i].text) : segs[i].text[k] = x

\* What a chunk owes to its range when its first r tokens are repeated ones.
SaysRange(c, r, segs) ==
    /\ r < Len(c.text)
    /\ \A k \in 1..Len(c.text) : IsToken(segs, c.text[k]) /\ c.text[k] < c.end /\ (c.start <= c.text[k] <=> r < k)
    /\ \A j, k \in 1..Len(c.text) : r < j /\ j < k => c.text[j] < c.text[k]
    /\ \A x \in Nat : IsToken(segs, x) /\ c.start <= x /\ x < c.end => \E k \in 1..Len(c.text) : c.text[k] = x

IsBounded(c, r, segs, config) ==
    /\ c.count = Len(c.text) /\ Len(c.text) - r <= config.max
    /\ r <= config.overlap \/ \E i \in 1..Len(segs) : SubSeq(c.text, 1, r) = segs[i].text

Fine(c, r, segs, config) == SaysRange(c, r, segs) /\ IsBounded(c, r, segs, config)

\* A chunk behind another one, and a chunk put at the end of a list.
Follows(p, c, r) == p.end <= c.start /\ SubSeq(c.text, 1, r) \in Suffixes(p.text)
Opens(q, c, r) == IF q = << >> THEN r = 0 ELSE Follows(q[Len(q)], c, r)

Chained(q, segs, config) ==
    \A k \in 1..Len(q) : \E r \in Nat :
        Fine(q[k], r, segs, config) /\ (k = 1 => r = 0) /\ (k > 1 => Follows(q[k - 1], q[k], r))

\* The list holds the first n paragraphs and ends before the others.
Reaches(q, segs, n) ==
    \A i \in 1..n : \A k \in 1..Len(segs[i].text) : \E j \in 1..Len(q) :
        q[j].start <= segs[i].text[k] /\ segs[i].text[k] < q[j].end
EndsBefore(q, segs, n) == q # << >> => \A m \in (n + 1)..Len(segs) : q[Len(q)].end <= segs[m].start

LEMMA SegmentTyped ==
    ASSUME NEW segs \in Seq(Segments), NEW i \in 1..Len(segs)
    PROVE  /\ segs[i].text \in Seq(Nat) /\ segs[i].start \in Nat /\ segs[i].end \in Nat
           /\ Len(segs[i].text) \in Nat /\ \A k \in 1..Len(segs[i].text) : segs[i].text[k] \in Nat
<1>1. segs[i] \in Segments
  OBVIOUS
<1>2. segs[i].text \in Seq(Nat) /\ segs[i].start \in Nat /\ segs[i].end \in Nat
  BY <1>1 DEF Segments
<1> QED
  BY <1>2

LEMMA ChainJoins ==
    ASSUME NEW segs, NEW config, NEW a \in Seq(RawChunks), NEW b \in Seq(RawChunks), b # << >>,
           Chained(a, segs, config),
           \E r \in Nat : Fine(b[1], r, segs, config) /\ Opens(a, b[1], r),
           \A k \in 2..Len(b) : \E r \in Nat : Fine(b[k], r, segs, config) /\ Follows(b[k - 1], b[k], r)
    PROVE  Chained(a \o b, segs, config)
<1> DEFINE c == a \o b
           n == Len(a)
           m == Len(b)
<1>1. /\ n \in Nat /\ m \in Nat \ {0} /\ Joins(c, a, b) /\ (a = << >> <=> n = 0)
  BY ConcatJoins
<1>2. /\ Len(c) = n + m /\ \A p \in 1..n : c[p] = a[p]
      /\ \A k \in 1..m : c[n + k] = b[k]
  BY <1>1 DEF Joins
<1> HIDE DEF c
<1>3. SUFFICES ASSUME NEW k \in 1..(n + m)
               PROVE  \E r \in Nat : /\ Fine(c[k], r, segs, config) /\ (k = 1 => r = 0)
                                     /\ k > 1 => Follows(c[k - 1], c[k], r)
  BY <1>2 DEF Chained, c
<1>4. CASE k \in 1..n
  <2>1. PICK r \in Nat : Fine(a[k], r, segs, config) /\ (k = 1 => r = 0) /\ (k > 1 => Follows(a[k - 1], a[k], r))
    BY <1>4 DEF Chained
  <2>2. c[k] = a[k] /\ (k > 1 => c[k - 1] = a[k - 1])
    <3>1. k > 1 => k - 1 \in 1..n
      BY <1>4, <1>1
    <3> QED
      BY <3>1, <1>2, <1>4
  <2> QED
    BY <2>1, <2>2
<1>5. CASE k = n + 1
  <2>1. PICK r \in Nat : Fine(b[1], r, segs, config) /\ Opens(a, b[1], r)
    OBVIOUS
  <2>2. c[k] = b[1] /\ (k = 1 <=> a = << >>) /\ (k > 1 => c[k - 1] = a[n])
    BY <1>1, <1>2, <1>5
  <2>3. k = 1 => r = 0
    BY <2>1, <2>2 DEF Opens
  <2>4. k > 1 => Follows(c[k - 1], c[k], r)
    BY <2>1, <2>2, <1>1, <1>5 DEF Opens
  <2> QED
    BY <2>1, <2>2, <2>3, <2>4
<1>6. CASE k > n + 1
  <2> DEFINE i == k - n
  <2>1. i \in 2..m /\ i - 1 \in 1..m /\ k = n + i /\ k - 1 = n + (i - 1) /\ k # 1 /\ i \in 1..m
    BY <1>1, <1>6
  <2>2. c[k] = b[i] /\ c[k - 1] = b[i - 1]
    BY <1>2, <2>1
  <2> HIDE DEF i
  <2> QED
    BY <2>1, <2>2
<1> QED
  BY <1>1, <1>4, <1>5, <1>6

LEMMA ChainParts ==
    ASSUME NEW segs, NEW config, NEW a \in Seq(RawChunks), NEW c \in RawChunks,
           Chained(a \o << c >>, segs, config)
    PROVE  Chained(a, segs, config) /\ \E r \in Nat : Fine(c, r, segs, config) /\ Opens(a, c, r)
<1> DEFINE q == a \o << c >>
           n == Len(a)
<1>1. n \in Nat /\ Len(q) = n + 1 /\ q[n + 1] = c /\ (\A k \in 1..n : q[k] = a[k]) /\ (a = << >> <=> n = 0)
  OBVIOUS
<1>2. Chained(q, segs, config)
  OBVIOUS
<1> HIDE DEF q
<1>3. Chained(a, segs, config)
  <2> SUFFICES ASSUME NEW k \in 1..n
               PROVE  \E r \in Nat : /\ Fine(a[k], r, segs, config) /\ (k = 1 => r = 0)
                                     /\ k > 1 => Follows(a[k - 1], a[k], r)
    BY DEF Chained
  <2>1. k \in 1..Len(q) /\ q[k] = a[k] /\ (k > 1 => q[k - 1] = a[k - 1])
    BY <1>1
  <2> QED
    BY <1>2, <2>1 DEF Chained
<1>4. n + 1 \in 1..Len(q) /\ (n + 1) - 1 = n
  BY <1>1
<1>5. PICK r \in Nat : /\ Fine(q[n + 1], r, segs, config) /\ (n + 1 = 1 => r = 0)
                       /\ n + 1 > 1 => Follows(q[n], q[n + 1], r)
  BY <1>2, <1>4 DEF Chained
<1>6. Opens(a, c, r)
  <2>1. CASE a = << >>
    BY <2>1, <1>1, <1>5 DEF Opens
  <2>2. CASE a # << >>
    <3>1. n + 1 > 1 /\ q[n] = a[n]
      BY <2>2, <1>1
    <3> QED
      BY <2>2, <3>1, <1>1, <1>5 DEF Opens
  <2> QED
    BY <2>1, <2>2
<1> QED
  BY <1>1, <1>3, <1>5, <1>6

\* Between a paragraph and the one before it there are no tokens.
LEMMA Stretch ==
    ASSUME NEW segs \in Seq(Segments), InOrder(segs), NEW n \in Nat, n + 1 <= Len(segs),
           NEW s \in Nat, n >= 1 => segs[n].end <= s, s <= segs[n + 1].start,
           NEW x \in Nat, IsToken(segs, x), s <= x, x < segs[n + 1].end
    PROVE  \E k \in 1..Len(segs[n + 1].text) : segs[n + 1].text[k] = x
<1>1. PICK i \in 1..Len(segs) : \E k \in 1..Len(segs[i].text) : segs[i].text[k] = x
  BY DEF IsToken
<1>2. segs[i].start <= x /\ x < segs[i].end /\ segs[i].start \in Nat /\ segs[i].end \in Nat
  BY <1>1, SegmentTyped DEF InOrder
<1>7. n + 1 \in 1..Len(segs) /\ Len(segs) \in Nat
  OBVIOUS
<1>3. n + 1 \in 1..Len(segs) /\ segs[n + 1].start \in Nat /\ segs[n + 1].end \in Nat
  BY <1>7, SegmentTyped
<1>4. ~(n + 1 < i)
  <2> SUFFICES ASSUME n + 1 < i
               PROVE  FALSE
    OBVIOUS
  <2>1. segs[n + 1].end <= segs[i].start
    BY <1>3 DEF InOrder
  <2> QED
    BY <1>2, <1>3, <2>1
<1>5. ~(i < n + 1)
  <2> SUFFICES ASSUME i < n + 1
               PROVE  FALSE
    OBVIOUS
  <2>4. n \in 1..Len(segs) /\ n >= 1
    BY <1>7
  <2>1. n \in 1..Len(segs) /\ segs[n].end \in Nat /\ segs[n].start \in Nat /\ segs[n].end <= s
    BY <2>4, SegmentTyped
  <2>2. CASE i = n
    BY <1>2, <2>1, <2>2
  <2>3. CASE i < n
    <3>1. segs[i].end <= segs[n].start
      BY <2>1, <2>3 DEF InOrder
    <3>2. segs[n].start <= segs[n].end
      <4>1. 1 \in 1..Len(segs[n].text) /\ segs[n].text \in Seq(Nat)
        <5>1. Len(segs[n].text) >= 1
          BY <2>1 DEF InOrder
        <5> QED
          BY <5>1, <2>1, SegmentTyped
      <4>2. segs[n].start <= segs[n].text[1] /\ segs[n].text[1] < segs[n].end /\ segs[n].text[1] \in Nat
        BY <2>1, <4>1 DEF InOrder
      <4> QED
        BY <2>1, <4>2
    <3> QED
      BY <1>2, <2>1, <3>1, <3>2
  <2> QED
    BY <2>2, <2>3
<1>6. i = n + 1
  BY <1>4, <1>5
<1> QED
  BY <1>1, <1>6

LEMMA ParagraphOrdered ==
    ASSUME NEW segs \in Seq(Segments), InOrder(segs), NEW i \in 1..Len(segs)
    PROVE  /\ \A k \in 1..Len(segs[i].text) : /\ IsToken(segs, segs[i].text[k]) /\ segs[i].text[k] \in Nat
                                              /\ segs[i].start <= segs[i].text[k] /\ segs[i].text[k] < segs[i].end
           /\ \A j, k \in 1..Len(segs[i].text) : j < k => segs[i].text[j] < segs[i].text[k]
           /\ Len(segs[i].text) >= 1 /\ segs[i].start < segs[i].end
<1>1. /\ Len(segs[i].text) >= 1 /\ Increases(segs[i].text)
      /\ \A k \in 1..Len(segs[i].text) : segs[i].start <= segs[i].text[k] /\ segs[i].text[k] < segs[i].end
  BY DEF InOrder
<1>2. /\ segs[i].start \in Nat /\ segs[i].end \in Nat /\ Len(segs[i].text) \in Nat
      /\ \A k \in 1..Len(segs[i].text) : segs[i].text[k] \in Nat
  BY SegmentTyped
<1>3. 1 \in 1..Len(segs[i].text)
  BY <1>1, <1>2
<1>4. segs[i].start < segs[i].end
  BY <1>1, <1>2, <1>3
<1> QED
  BY <1>1, <1>2, <1>4 DEF Increases, IsToken

LEMMA PrefixOfJoin ==
    ASSUME NEW S, NEW a \in Seq(S), NEW b \in Seq(S), NEW r \in 0..Len(a)
    PROVE  SubSeq(a \o b, 1, r) = SubSeq(a, 1, r) /\ SubSeq(a \o b, 1, Len(a)) = a
OBVIOUS

\* A paragraph behind what is carried over makes a chunk.
LEMMA NextChunk ==
    ASSUME NEW segs \in Seq(Segments), InOrder(segs), NEW config \in Configs,
           NEW n \in Nat, n + 1 <= Len(segs),
           NEW s \in Nat, n >= 1 => segs[n].end <= s, s <= segs[n + 1].start,
           NEW carried \in Seq(Nat), \A k \in 1..Len(carried) : IsToken(segs, carried[k]) /\ carried[k] < s,
           Len(segs[n + 1].text) <= config.max,
           Len(carried) <= config.overlap \/ \E i \in 1..Len(segs) : carried = segs[i].text
    PROVE  Fine(Chunk(carried \o segs[n + 1].text, s, segs[n + 1].end), Len(carried), segs, config)
<1> DEFINE own == segs[n + 1].text
           end == segs[n + 1].end
           t == carried \o own
           c == Chunk(t, s, end)
           r == Len(carried)
<1>1. n + 1 \in 1..Len(segs)
  OBVIOUS
<1>2. /\ \A k \in 1..Len(own) : /\ IsToken(segs, own[k]) /\ own[k] \in Nat
                                /\ segs[n + 1].start <= own[k] /\ own[k] < end
      /\ \A j, k \in 1..Len(own) : j < k => own[j] < own[k]
      /\ Len(own) >= 1 /\ segs[n + 1].start < end
  BY <1>1, ParagraphOrdered
<1>3. own \in Seq(Nat) /\ segs[n + 1].start \in Nat /\ end \in Nat /\ Len(own) \in Nat
  BY <1>1, SegmentTyped
<1>4. Joins(t, carried, own) /\ t \in Seq(Nat) /\ SubSeq(t, 1, r) = carried
  BY <1>3, ConcatJoins, PrefixOfJoin
<1>5. c.text = t /\ c.start = s /\ c.end = end /\ c.count = Len(t)
  BY DEF Chunk
<1>6. r \in Nat /\ \A k \in 1..r : carried[k] \in Nat /\ IsToken(segs, carried[k]) /\ carried[k] < s
  OBVIOUS
<1>11. s < end /\ s <= segs[n + 1].start
  BY <1>2, <1>3
<1>12. \A x \in Nat : IsToken(segs, x) /\ s <= x /\ x < end => \E k \in 1..Len(own) : own[k] = x
  BY Stretch
<1> HIDE DEF t, c, r, own, end
<1>7. /\ Len(t) = r + Len(own) /\ \A k \in 1..r : t[k] = carried[k]
      /\ \A k \in 1..Len(own) : t[r + k] = own[k]
  BY <1>4 DEF Joins, r
<1>8. \A k \in 1..Len(t) : k \in 1..r \/ (r < k /\ k - r \in 1..Len(own) /\ t[k] = own[k - r])
  <2> TAKE k \in 1..Len(t)
  <2> SUFFICES ASSUME ~(k \in 1..r)
               PROVE  r < k /\ k - r \in 1..Len(own) /\ t[k] = own[k - r]
    OBVIOUS
  <2>1. k - r \in 1..Len(own) /\ r + (k - r) = k /\ r < k
    BY <1>3, <1>6, <1>7
  <2>2. t[r + (k - r)] = own[k - r]
    BY <1>7, <2>1
  <2> QED
    BY <2>1, <2>2
<1>9. SaysRange(c, r, segs)
  <2>1. r < Len(t)
    BY <1>2, <1>3, <1>6, <1>7
  <2>2. ASSUME NEW k \in 1..Len(t)
        PROVE  IsToken(segs, t[k]) /\ t[k] < end /\ (s <= t[k] <=> r < k)
    <3>1. CASE k \in 1..r
      <4>1. t[k] = carried[k] /\ carried[k] \in Nat /\ carried[k] < s /\ ~(r < k)
        BY <3>1, <1>6, <1>7
      <4>2. t[k] < end /\ ~(s <= t[k])
        BY <4>1, <1>3, <1>11
      <4> QED
        BY <3>1, <4>1, <4>2, <1>6
    <3>2. CASE ~(k \in 1..r)
      <4>1. r < k /\ k - r \in 1..Len(own) /\ t[k] = own[k - r]
        BY <3>2, <1>8
      <4>2. IsToken(segs, t[k]) /\ t[k] \in Nat /\ segs[n + 1].start <= t[k] /\ t[k] < end
        BY <4>1, <1>2
      <4>3. s <= t[k]
        BY <4>2, <1>3, <1>11
      <4> QED
        BY <4>1, <4>2, <4>3
    <3> QED
      BY <3>1, <3>2
  <2>3. ASSUME NEW j \in 1..Len(t), NEW k \in 1..Len(t), r < j, j < k
        PROVE  t[j] < t[k]
    <3>1. ~(j \in 1..r) /\ ~(k \in 1..r)
      BY <2>3, <1>6, <1>7, <1>3
    <3>2. /\ j - r \in 1..Len(own) /\ t[j] = own[j - r]
          /\ k - r \in 1..Len(own) /\ t[k] = own[k - r]
      BY <3>1, <1>8
    <3>3. j - r < k - r
      BY <2>3, <1>6, <1>7, <1>3
    <3> QED
      BY <3>2, <3>3, <1>2
  <2>4. ASSUME NEW x \in Nat, IsToken(segs, x), s <= x, x < end
        PROVE  \E k \in 1..Len(t) : t[k] = x
    <3>1. PICK k \in 1..Len(own) : own[k] = x
      BY <2>4, <1>12
    <3>2. r + k \in 1..Len(t) /\ t[r + k] = x
      BY <3>1, <1>3, <1>6, <1>7
    <3> QED
      BY <3>2
  <2> QED
    BY <2>1, <2>2, <2>3, <2>4, <1>5 DEF SaysRange
<1>10. IsBounded(c, r, segs, config)
  <2>1. config.max \in Nat
    BY DEF Configs
  <2>2. Len(t) - r <= config.max
    BY <2>1, <1>3, <1>6, <1>7 DEF own
  <2>3. r <= config.overlap \/ \E i \in 1..Len(segs) : SubSeq(t, 1, r) = segs[i].text
    BY <1>4 DEF r
  <2> QED
    BY <2>2, <2>3, <1>5 DEF IsBounded
<1> QED
  BY <1>9, <1>10 DEF Fine, c, r, t, own, end

\* A paragraph more, and a chunk is still fine.
LEMMA LongerChunk ==
    ASSUME NEW segs \in Seq(Segments), InOrder(segs), NEW config \in Configs,
           NEW n \in Nat, n + 1 <= Len(segs), n >= 1,
           NEW old \in RawChunks, NEW r \in Nat, Fine(old, r, segs, config), old.end = segs[n].end,
           Len(old.text) + Len(segs[n + 1].text) <= config.max
    PROVE  /\ Fine(Chunk(old.text \o segs[n + 1].text, old.start, segs[n + 1].end), r, segs, config)
           /\ SubSeq(old.text \o segs[n + 1].text, 1, r) = SubSeq(old.text, 1, r)
           /\ old.end < segs[n + 1].end
<1> DEFINE own == segs[n + 1].text
           end == segs[n + 1].end
           first == old.text
           m == Len(first)
           s == old.start
           t == first \o own
           c == Chunk(t, s, end)
<1>1. n + 1 \in 1..Len(segs) /\ n \in 1..Len(segs) /\ n < n + 1
  OBVIOUS
<1>2. /\ \A k \in 1..Len(own) : /\ IsToken(segs, own[k]) /\ own[k] \in Nat
                                /\ segs[n + 1].start <= own[k] /\ own[k] < end
      /\ \A j, k \in 1..Len(own) : j < k => own[j] < own[k]
      /\ Len(own) >= 1 /\ segs[n + 1].start < end
  BY <1>1, ParagraphOrdered
<1>3. own \in Seq(Nat) /\ segs[n + 1].start \in Nat /\ end \in Nat /\ Len(own) \in Nat
  BY <1>1, SegmentTyped
<1>4. first \in Seq(Nat) /\ s \in Nat /\ m \in Nat /\ old.end \in Nat /\ \A k \in 1..m : first[k] \in Nat
  <2>1. first \in Seq(Nat) /\ s \in Nat /\ old.end \in Nat
    BY DEF RawChunks
  <2> QED
    BY <2>1
<1>5. SaysRange(old, r, segs) /\ IsBounded(old, r, segs, config)
  BY DEF Fine
<1>6. r < m
  BY <1>5 DEF SaysRange
<1>7. Joins(t, first, own) /\ SubSeq(t, 1, r) = SubSeq(first, 1, r)
  <2>1. r \in 0..Len(first)
    BY <1>4, <1>6
  <2>2. Joins(t, first, own)
    BY <1>3, <1>4, ConcatJoins
  <2>3. SubSeq(t, 1, r) = SubSeq(first, 1, r)
    BY <2>1, <1>3, <1>4, PrefixOfJoin
  <2> QED
    BY <2>2, <2>3
<1>8. c.text = t /\ c.start = s /\ c.end = end /\ c.count = Len(t)
  BY DEF Chunk
<1>9. old.end <= segs[n + 1].start
  BY <1>1 DEF InOrder
<1>10. /\ \A k \in 1..m : /\ IsToken(segs, first[k]) /\ first[k] < old.end
                          /\ (s <= first[k] <=> r < k)
       /\ \A j, k \in 1..m : r < j /\ j < k => first[j] < first[k]
       /\ \A x \in Nat : IsToken(segs, x) /\ s <= x /\ x < old.end => \E k \in 1..m : first[k] = x
  BY <1>5 DEF SaysRange
<1>11. \A x \in Nat : IsToken(segs, x) /\ old.end <= x /\ x < end => \E k \in 1..Len(own) : own[k] = x
  <2>1. old.end \in Nat /\ segs[n].end <= old.end /\ old.end <= segs[n + 1].start
    BY <1>4, <1>9
  <2> QED
    BY <2>1, Stretch
<1>12. s < old.end
  <2>1. r + 1 \in 1..m /\ r < r + 1
    BY <1>4, <1>6
  <2>2. first[r + 1] \in Nat /\ first[r + 1] < old.end /\ s <= first[r + 1]
    BY <2>1, <1>4, <1>10
  <2> QED
    BY <2>2, <1>4
<1>18. old.end < end
  BY <1>2, <1>3, <1>4, <1>9
<1>20. Len(first) + Len(own) <= config.max
  OBVIOUS
<1> HIDE DEF t, c, own, end, first, s
<1>13. /\ Len(t) = m + Len(own) /\ \A k \in 1..m : t[k] = first[k]
       /\ \A k \in 1..Len(own) : t[m + k] = own[k]
  BY <1>7 DEF Joins, m
<1> HIDE DEF m
<1>14. \A k \in 1..Len(t) : k \in 1..m \/ (m < k /\ k - m \in 1..Len(own) /\ t[k] = own[k - m])
  <2> TAKE k \in 1..Len(t)
  <2> SUFFICES ASSUME ~(k \in 1..m)
               PROVE  m < k /\ k - m \in 1..Len(own) /\ t[k] = own[k - m]
    OBVIOUS
  <2>1. k - m \in 1..Len(own) /\ m + (k - m) = k /\ m < k
    BY <1>3, <1>4, <1>13
  <2>2. t[m + (k - m)] = own[k - m]
    BY <1>13, <2>1
  <2> QED
    BY <2>1, <2>2
<1>15. SaysRange(c, r, segs)
  <2>1. r < Len(t)
    BY <1>3, <1>4, <1>6, <1>13
  <2>2. ASSUME NEW k \in 1..Len(t)
        PROVE  IsToken(segs, t[k]) /\ t[k] < end /\ (s <= t[k] <=> r < k)
    <3>1. CASE k \in 1..m
      <4>1. /\ t[k] = first[k] /\ first[k] \in Nat /\ first[k] < old.end
            /\ IsToken(segs, first[k]) /\ (s <= first[k] <=> r < k)
        BY <3>1, <1>4, <1>10, <1>13
      <4>2. first[k] < end
        BY <4>1, <1>3, <1>4, <1>18
      <4> QED
        BY <4>1, <4>2
    <3>2. CASE ~(k \in 1..m)
      <4>1. m < k /\ k - m \in 1..Len(own) /\ t[k] = own[k - m]
        BY <3>2, <1>14
      <4>2. IsToken(segs, t[k]) /\ t[k] \in Nat /\ segs[n + 1].start <= t[k] /\ t[k] < end
        BY <4>1, <1>2
      <4>3. s <= t[k]
        BY <4>2, <1>3, <1>4, <1>9, <1>12
      <4>4. r < k
        BY <4>1, <1>4, <1>6
      <4> QED
        BY <4>2, <4>3, <4>4
    <3> QED
      BY <3>1, <3>2
  <2>3. ASSUME NEW j \in 1..Len(t), NEW k \in 1..Len(t), r < j, j < k
        PROVE  t[j] < t[k]
    <3>1. CASE j \in 1..m /\ k \in 1..m
      BY <2>3, <3>1, <1>10, <1>13
    <3>2. CASE j \in 1..m /\ ~(k \in 1..m)
      <4>1. t[j] = first[j] /\ first[j] \in Nat /\ first[j] < old.end
        BY <3>2, <1>4, <1>10, <1>13
      <4>2. k - m \in 1..Len(own) /\ t[k] = own[k - m]
        BY <3>2, <1>14
      <4>3. t[k] \in Nat /\ segs[n + 1].start <= t[k]
        BY <4>2, <1>2
      <4> QED
        BY <4>1, <4>3, <1>3, <1>4, <1>9
    <3>3. CASE ~(j \in 1..m)
      <4>1. ~(k \in 1..m)
        BY <3>3, <2>3, <1>4, <1>13, <1>3
      <4>2. /\ j - m \in 1..Len(own) /\ t[j] = own[j - m]
            /\ k - m \in 1..Len(own) /\ t[k] = own[k - m]
        BY <3>3, <4>1, <1>14
      <4>3. j - m < k - m
        BY <2>3, <1>4, <1>13, <1>3
      <4> QED
        BY <4>2, <4>3, <1>2
    <3> QED
      BY <3>1, <3>2, <3>3
  <2>4. ASSUME NEW x \in Nat, IsToken(segs, x), s <= x, x < end
        PROVE  \E k \in 1..Len(t) : t[k] = x
    <3>1. CASE x < old.end
      <4>1. PICK k \in 1..m : first[k] = x
        BY <2>4, <3>1, <1>10
      <4>2. k \in 1..Len(t) /\ t[k] = x
        BY <4>1, <1>3, <1>4, <1>13
      <4> QED
        BY <4>2
    <3>2. CASE old.end <= x
      <4>1. PICK k \in 1..Len(own) : own[k] = x
        BY <2>4, <3>2, <1>11
      <4>2. m + k \in 1..Len(t) /\ t[m + k] = x
        BY <4>1, <1>3, <1>4, <1>13
      <4> QED
        BY <4>2
    <3> QED
      BY <3>1, <3>2, <1>4
  <2> QED
    BY <2>1, <2>2, <2>3, <2>4, <1>8 DEF SaysRange
<1>16. IsBounded(c, r, segs, config)
  <2>1. config.max \in Nat
    BY DEF Configs
  <2>2. Len(t) - r <= config.max
    BY <2>1, <1>3, <1>4, <1>13, <1>20 DEF m
  <2>3. r <= config.overlap \/ \E i \in 1..Len(segs) : SubSeq(t, 1, r) = segs[i].text
    BY <1>5, <1>7 DEF IsBounded, first
  <2> QED
    BY <2>2, <2>3, <1>8 DEF IsBounded
<1> QED
  BY <1>7, <1>15, <1>16, <1>18 DEF Fine, c, t, own, end, first, s

LEMMA Quotient ==
    ASSUME NEW a \in Nat, NEW m \in Nat, m >= 1
    PROVE  a \div m \in Nat /\ (a \div m) * m <= a /\ a < (a \div m) * m + m
OBVIOUS

LEMMA PartOf ==
    ASSUME NEW S, NEW s \in Seq(S), NEW lo \in Nat, NEW hi \in Nat, 1 <= lo, lo <= hi, hi <= Len(s)
    PROVE  /\ SubSeq(s, lo, hi) \in Seq(S) /\ Len(SubSeq(s, lo, hi)) = hi - lo + 1
           /\ \A k \in 1..(hi - lo + 1) : SubSeq(s, lo, hi)[k] = s[lo + k - 1]
OBVIOUS

LEMMA TimesMonotone ==
    ASSUME NEW j \in Nat, NEW k \in Nat, NEW m \in Nat, j <= k
    PROVE  j * m \in Nat /\ k * m \in Nat /\ j * m <= k * m
OBVIOUS

\* A text of n tokens is cut into parts of m.
LEMMA PartBounds ==
    ASSUME NEW n \in Nat, NEW m \in Nat, n >= 1, m >= 1
    PROVE  LET parts == (n + m - 1) \div m IN
           /\ parts \in Nat /\ parts >= 1
           /\ \A k \in 1..parts : (k - 1) * m \in Nat /\ (k - 1) * m < n /\ k * m = (k - 1) * m + m
           /\ \A j \in 1..n : \E k \in 1..parts : (k - 1) * m < j /\ j <= k * m
<1> DEFINE parts == (n + m - 1) \div m
<1>1. parts \in Nat /\ parts * m <= n + m - 1 /\ n + m - 1 < parts * m + m /\ parts * m \in Nat
  <2>1. n + m - 1 \in Nat
    OBVIOUS
  <2>2. parts \in Nat /\ parts * m <= n + m - 1 /\ n + m - 1 < parts * m + m
    BY <2>1, Quotient
  <2> HIDE DEF parts
  <2> QED
    BY <2>2
<1> HIDE DEF parts
<1>2. parts >= 1
  <2>1. parts # 0
    BY <1>1
  <2> QED
    BY <2>1, <1>1
<1>3. ASSUME NEW k \in 1..parts
      PROVE  (k - 1) * m \in Nat /\ (k - 1) * m < n /\ k * m = (k - 1) * m + m
  <2>1. k \in Nat /\ k - 1 \in Nat /\ k <= parts
    BY <1>1
  <2>2. k * m = (k - 1) * m + m
    BY <2>1
  <2>3. k * m \in Nat /\ (k - 1) * m \in Nat /\ k * m <= parts * m
    BY <2>1, <1>1, TimesMonotone
  <2> QED
    BY <2>2, <2>3, <1>1
<1>4. ASSUME NEW j \in 1..n
      PROVE  \E k \in 1..parts : (k - 1) * m < j /\ j <= k * m
  <2> DEFINE q == (j - 1) \div m
  <2>1. q \in Nat /\ q * m <= j - 1 /\ j - 1 < q * m + m
    BY Quotient
  <2> HIDE DEF q
  <2>2. (q + 1) * m = q * m + m /\ (q + 1) - 1 = q
    BY <2>1
  <2>3. q * m \in Nat
    BY <2>1
  <2>4. q + 1 <= parts
    <3> SUFFICES ASSUME parts <= q
                 PROVE  FALSE
      BY <2>1, <1>1
    <3>1. parts * m <= q * m
      BY <2>1, <1>1, TimesMonotone
    <3> QED
      BY <3>1, <2>1, <2>3, <1>1
  <2>5. q + 1 \in 1..parts
    BY <2>1, <2>4, <1>1
  <2>6. ((q + 1) - 1) * m < j /\ j <= (q + 1) * m
    BY <2>1, <2>2, <2>3
  <2> QED
    BY <2>5, <2>6
<1> QED
  BY <1>1, <1>2, <1>3, <1>4 DEF parts

\* The parts of a paragraph: from which token to which.
Cuts(b, lo, hi, segment, max) ==
    /\ Len(b) >= 1 /\ b \in Seq(RawChunks)
    /\ lo \in [1..Len(b) -> Nat] /\ hi \in [1..Len(b) -> Nat]
    /\ \A k \in 1..Len(b) :
          /\ 1 <= lo[k] /\ lo[k] <= hi[k] /\ hi[k] <= Len(segment.text) /\ hi[k] < lo[k] + max
          /\ b[k] = Chunk(SubSeq(segment.text, lo[k], hi[k]), segment.text[lo[k]], segment.text[hi[k]] + 1)
    /\ \A k \in 2..Len(b) : hi[k - 1] < lo[k]
    /\ \A j \in 1..Len(segment.text) : \E k \in 1..Len(b) : lo[k] <= j /\ j <= hi[k]

LEMMA LargeIsCut ==
    ASSUME NEW segment \in Segments, Len(segment.text) >= 1, NEW m \in Nat, m >= 1
    PROVE  \E lo, hi : Cuts(SplitLarge(segment, m), lo, hi, segment, m)
<1> DEFINE text == segment.text
           n == Len(text)
           parts == (n + m - 1) \div m
           lo == [k \in 1..parts |-> (k - 1) * m + 1]
           hi == [k \in 1..parts |-> IF k * m < n THEN k * m ELSE n]
           b == SplitLarge(segment, m)
           part(k) == SubSeq(text, lo[k], hi[k])
<1>1. text \in Seq(Nat) /\ n \in Nat /\ n >= 1
  BY DEF Segments
<1>2. /\ parts \in Nat /\ parts >= 1
      /\ \A k \in 1..parts : (k - 1) * m \in Nat /\ (k - 1) * m < n /\ k * m = (k - 1) * m + m
      /\ \A j \in 1..n : \E k \in 1..parts : (k - 1) * m < j /\ j <= k * m
  <2> HIDE DEF n
  <2> QED
    BY <1>1, PartBounds
<1>3. b = [k \in 1..parts |-> Chunk(part(k), part(k)[1], part(k)[Len(part(k))] + 1)]
  BY DEF SplitLarge
<1> HIDE DEF b, parts, n, text
<1>4. ASSUME NEW k \in 1..parts
      PROVE  /\ lo[k] \in Nat /\ hi[k] \in Nat /\ 1 <= lo[k] /\ lo[k] <= hi[k] /\ hi[k] <= n /\ hi[k] < lo[k] + m
             /\ hi[k] <= k * m /\ k * m \in Nat /\ lo[k] = (k - 1) * m + 1
  <2> DEFINE p == (k - 1) * m
  <2>1. p \in Nat /\ p < n /\ k * m = p + m /\ lo[k] = p + 1 /\ hi[k] = IF k * m < n THEN k * m ELSE n
    BY <1>2
  <2> HIDE DEF p, lo, hi
  <2>2. /\ lo[k] \in Nat /\ hi[k] \in Nat /\ 1 <= lo[k] /\ lo[k] <= hi[k] /\ hi[k] <= n /\ hi[k] < lo[k] + m
        /\ hi[k] <= k * m /\ k * m \in Nat
    BY <2>1, <1>1
  <2> QED
    BY <2>1, <2>2 DEF p
<1>5. lo \in [1..parts -> Nat] /\ hi \in [1..parts -> Nat]
  <2>1. \A k \in 1..parts : lo[k] \in Nat /\ hi[k] \in Nat
    BY <1>4
  <2>2. lo = [k \in 1..parts |-> lo[k]] /\ hi = [k \in 1..parts |-> hi[k]]
    OBVIOUS
  <2> HIDE DEF lo, hi
  <2> QED
    BY <2>1, <2>2
<1>6. ASSUME NEW j \in 1..n
      PROVE  \E k \in 1..parts : lo[k] <= j /\ j <= hi[k]
  <2>1. PICK k \in 1..parts : (k - 1) * m < j /\ j <= k * m
    BY <1>2
  <2> DEFINE p == (k - 1) * m
  <2>2. p \in Nat /\ k * m = p + m /\ lo[k] = p + 1 /\ hi[k] = IF k * m < n THEN k * m ELSE n
    BY <1>2
  <2> HIDE DEF lo, hi
  <2>3. p < j /\ j <= k * m
    BY <2>1
  <2> HIDE DEF p
  <2>4. lo[k] <= j /\ j <= hi[k]
    BY <2>2, <2>3, <1>1
  <2> QED
    BY <2>4
<1>7. ASSUME NEW k \in 2..parts
      PROVE  hi[k - 1] < lo[k]
  <2>1. k \in 1..parts /\ k - 1 \in 1..parts
    BY <1>2
  <2>2. hi[k - 1] <= (k - 1) * m /\ hi[k - 1] \in Nat /\ (k - 1) * m \in Nat /\ lo[k] = (k - 1) * m + 1
    BY <2>1, <1>4
  <2> QED
    BY <2>2
<1> HIDE DEF lo, hi
<1>8. ASSUME NEW k \in 1..parts
      PROVE  /\ b[k] = Chunk(part(k), text[lo[k]], text[hi[k]] + 1)
             /\ Chunk(part(k), text[lo[k]], text[hi[k]] + 1) \in RawChunks
  <2>1. lo[k] \in Nat /\ hi[k] \in Nat /\ 1 <= lo[k] /\ lo[k] <= hi[k] /\ hi[k] <= n
    BY <1>4
  <2>2. /\ part(k) \in Seq(Nat) /\ Len(part(k)) = hi[k] - lo[k] + 1
        /\ part(k)[1] = text[lo[k]] /\ part(k)[hi[k] - lo[k] + 1] = text[hi[k]]
    <3>1. /\ part(k) \in Seq(Nat) /\ Len(part(k)) = hi[k] - lo[k] + 1
          /\ \A j \in 1..(hi[k] - lo[k] + 1) : part(k)[j] = text[lo[k] + j - 1]
      <4> DEFINE l == lo[k]
                 h == hi[k]
      <4>1. l \in Nat /\ h \in Nat /\ 1 <= l /\ l <= h /\ h <= Len(text)
        BY <2>1 DEF n
      <4> HIDE DEF l, h
      <4>2. /\ SubSeq(text, l, h) \in Seq(Nat) /\ Len(SubSeq(text, l, h)) = h - l + 1
            /\ \A j \in 1..(h - l + 1) : SubSeq(text, l, h)[j] = text[l + j - 1]
        BY <4>1, <1>1, PartOf
      <4> QED
        BY <4>2 DEF l, h
    <3>2. 1 \in 1..(hi[k] - lo[k] + 1) /\ hi[k] - lo[k] + 1 \in 1..(hi[k] - lo[k] + 1)
      BY <2>1
    <3>3. lo[k] + 1 - 1 = lo[k] /\ lo[k] + (hi[k] - lo[k] + 1) - 1 = hi[k]
      BY <2>1
    <3> HIDE DEF part
    <3> QED
      BY <3>1, <3>2, <3>3
  <2>3. text[lo[k]] \in Nat /\ text[hi[k]] \in Nat
    BY <2>1, <1>1 DEF n
  <2>4. Len(part(k)) \in Nat
    BY <2>1, <2>2
  <2>5. b[k] = Chunk(part(k), part(k)[1], part(k)[Len(part(k))] + 1)
    BY <1>3
  <2> HIDE DEF part
  <2> QED
    BY <2>2, <2>3, <2>4, <2>5 DEF Chunk, RawChunks
<1>9. b \in Seq(RawChunks) /\ Len(b) = parts
  <2>1. b = [k \in 1..parts |-> b[k]]
    BY <1>3
  <2>2. \A k \in 1..parts : b[k] \in RawChunks
    BY <1>8
  <2>3. b \in [1..parts -> RawChunks]
    BY <2>1, <2>2
  <2> QED
    BY <2>3, <1>2, FunctionIsSequence
<1>10. Cuts(b, lo, hi, segment, m)
  BY <1>2, <1>4, <1>5, <1>6, <1>7, <1>8, <1>9 DEF Cuts, text, n
<1> QED
  BY <1>10 DEF b

LEMMA CutsAreFine ==
    ASSUME NEW segs \in Seq(Segments), InOrder(segs), NEW config \in Configs,
           NEW n \in Nat, n + 1 <= Len(segs), n >= 1 => segs[n].end <= segs[n + 1].start,
           NEW b, NEW lo, NEW hi, Cuts(b, lo, hi, segs[n + 1], config.max)
    PROVE  /\ \A k \in 1..Len(b) : Fine(b[k], 0, segs, config)
           /\ \A k \in 2..Len(b) : b[k - 1].end <= b[k].start
           /\ segs[n + 1].start <= b[1].start /\ b[Len(b)].end <= segs[n + 1].end
           /\ \A j \in 1..Len(segs[n + 1].text) : \E k \in 1..Len(b) :
                 b[k].start <= segs[n + 1].text[j] /\ segs[n + 1].text[j] < b[k].end
<1> DEFINE text == segs[n + 1].text
           s == segs[n + 1].start
           end == segs[n + 1].end
           m == Len(b)
<1>1. n + 1 \in 1..Len(segs)
  OBVIOUS
<1>2. /\ \A k \in 1..Len(text) : /\ IsToken(segs, text[k]) /\ text[k] \in Nat
                                 /\ s <= text[k] /\ text[k] < end
      /\ \A j, k \in 1..Len(text) : j < k => text[j] < text[k]
  BY <1>1, ParagraphOrdered
<1>3. text \in Seq(Nat) /\ s \in Nat /\ end \in Nat /\ Len(text) \in Nat
  BY <1>1, SegmentTyped
<1>4. \A x \in Nat : IsToken(segs, x) /\ s <= x /\ x < end => \E k \in 1..Len(text) : text[k] = x
  <2>1. s \in Nat /\ s <= s
    BY <1>3
  <2> QED
    BY <2>1, Stretch
<1>5. /\ m >= 1 /\ m \in Nat
      /\ \A k \in 1..m :
          /\ lo[k] \in Nat /\ hi[k] \in Nat
          /\ 1 <= lo[k] /\ lo[k] <= hi[k] /\ hi[k] <= Len(text) /\ hi[k] < lo[k] + config.max
          /\ b[k] = Chunk(SubSeq(text, lo[k], hi[k]), text[lo[k]], text[hi[k]] + 1)
      /\ \A k \in 2..m : hi[k - 1] < lo[k]
      /\ \A j \in 1..Len(text) : \E k \in 1..m : lo[k] <= j /\ j <= hi[k]
  <2>1. b \in Seq(RawChunks)
    BY DEF Cuts
  <2>2. m \in Nat
    BY <2>1
  <2> QED
    BY <2>2 DEF Cuts
<1>13. config.max \in Nat /\ config.overlap \in Nat
  BY DEF Configs
<1> HIDE DEF text, s, end, m
<1>6. \A k \in 1..m : lo[k] \in 1..Len(text) /\ hi[k] \in 1..Len(text)
  <2> TAKE k \in 1..m
  <2>1. lo[k] \in Nat /\ hi[k] \in Nat /\ 1 <= lo[k] /\ lo[k] <= hi[k] /\ hi[k] <= Len(text)
    BY <1>5
  <2> QED
    BY <2>1, <1>3
<1>7. \A i, j \in 1..Len(text) : (i <= j => text[i] <= text[j]) /\ (text[i] <= text[j] => i <= j)
  <2> TAKE i, j \in 1..Len(text)
  <2>1. text[i] \in Nat /\ text[j] \in Nat
    BY <1>2
  <2>2. i < j => text[i] < text[j]
    BY <1>2
  <2>3. j < i => text[j] < text[i]
    BY <1>2
  <2>4. i = j \/ i < j \/ j < i
    BY <1>3
  <2> QED
    BY <2>1, <2>2, <2>3, <2>4, <1>3
<1>8. \A k \in 1..m : /\ b[k].start = text[lo[k]] /\ b[k].end = text[hi[k]] + 1
                      /\ b[k].text = SubSeq(text, lo[k], hi[k]) /\ b[k].count = Len(b[k].text)
                      /\ text[lo[k]] \in Nat /\ text[hi[k]] \in Nat
  <2> TAKE k \in 1..m
  <2>1. b[k] = Chunk(SubSeq(text, lo[k], hi[k]), text[lo[k]], text[hi[k]] + 1)
    BY <1>5
  <2>2. text[lo[k]] \in Nat /\ text[hi[k]] \in Nat
    BY <1>2, <1>6
  <2> DEFINE p == SubSeq(text, lo[k], hi[k])
             x == text[lo[k]]
             y == text[hi[k]] + 1
  <2>3. b[k] = Chunk(p, x, y)
    BY <2>1
  <2> HIDE DEF p, x, y
  <2>4. b[k].start = x /\ b[k].end = y /\ b[k].text = p /\ b[k].count = Len(p)
    BY <2>3 DEF Chunk
  <2> QED
    BY <2>2, <2>4 DEF p, x, y
<1>9. ASSUME NEW k \in 1..m
      PROVE  Fine(b[k], 0, segs, config)
  <2> DEFINE t == b[k].text
             l == lo[k]
             h == hi[k]
             w == h - l + 1
  <2>1. /\ l \in Nat /\ h \in Nat /\ 1 <= l /\ l <= h /\ h <= Len(text) /\ w >= 1 /\ w \in Nat
        /\ w <= config.max
    BY <1>5, <1>13
  <2>2. Len(t) = w /\ \A j \in 1..w : t[j] = text[l + j - 1]
    <3>1. t = SubSeq(text, l, h)
      BY <1>8
    <3> HIDE DEF t, l, h
    <3> QED
      BY <3>1, <2>1, <1>3, PartOf
  <2>3. \A j \in 1..w : l + j - 1 \in 1..Len(text) /\ l <= l + j - 1 /\ l + j - 1 <= h
    <3> TAKE j \in 1..w
    <3> HIDE DEF l, h
    <3> QED
      BY <2>1, <1>3
  <2>4. b[k].start = text[l] /\ b[k].end = text[h] + 1 /\ text[l] \in Nat /\ text[h] \in Nat
    BY <1>8
  <2>5. l \in 1..Len(text) /\ h \in 1..Len(text)
    BY <1>6
  <2>10. b[k].count = Len(t)
    BY <1>8
  <2> HIDE DEF t, l, h, w
  <2>6. SaysRange(b[k], 0, segs)
    <3>1. 0 < Len(t)
      BY <2>1, <2>2
    <3>2. ASSUME NEW j \in 1..Len(t)
          PROVE  IsToken(segs, t[j]) /\ t[j] < b[k].end /\ b[k].start <= t[j] /\ 0 < j
      <4>1. j \in 1..w /\ l + j - 1 \in 1..Len(text) /\ l <= l + j - 1 /\ l + j - 1 <= h
        BY <2>2, <2>3
      <4>2. t[j] = text[l + j - 1]
        BY <2>2, <4>1
      <4>3. IsToken(segs, t[j]) /\ t[j] \in Nat
        BY <4>1, <4>2, <1>2
      <4>4. text[l] <= t[j] /\ t[j] <= text[h]
        BY <4>1, <4>2, <2>5, <1>7
      <4>5. 0 < j
        OBVIOUS
      <4>6. b[k].start <= t[j]
        BY <4>4, <2>4
      <4>7. t[j] < b[k].end
        BY <4>3, <4>4, <2>4
      <4> QED
        BY <4>3, <4>5, <4>6, <4>7
    <3>3. ASSUME NEW i \in 1..Len(t), NEW j \in 1..Len(t), i < j
          PROVE  t[i] < t[j]
      <4>1. i \in 1..w /\ j \in 1..w
        BY <2>2
      <4>2. l + i - 1 \in 1..Len(text) /\ l + j - 1 \in 1..Len(text) /\ l + i - 1 < l + j - 1
        <5>1. l + i - 1 \in 1..Len(text) /\ l + j - 1 \in 1..Len(text)
          BY <2>3, <4>1
        <5>2. l + i - 1 < l + j - 1
          BY <2>1, <3>3, <4>1
        <5> QED
          BY <5>1, <5>2
      <4> QED
        BY <2>2, <4>1, <4>2, <1>2
    <3>4. ASSUME NEW x \in Nat, IsToken(segs, x), b[k].start <= x, x < b[k].end
          PROVE  \E j \in 1..Len(t) : t[j] = x
      <4>1. text[l] <= x /\ x <= text[h]
        BY <2>4, <3>4
      <4>2. s <= x /\ x < end
        <5>1. s <= text[l] /\ text[h] < end
          BY <2>5, <1>2
        <5> QED
          BY <5>1, <4>1, <2>4, <1>3
      <4>3. PICK i \in 1..Len(text) : text[i] = x
        BY <3>4, <4>2, <1>4
      <4>4. l <= i /\ i <= h
        BY <4>1, <4>3, <2>5, <1>7
      <4>5. i - l + 1 \in 1..w /\ l + (i - l + 1) - 1 = i
        BY <4>4, <2>1 DEF w
      <4>6. t[i - l + 1] = text[i]
        BY <2>2, <4>5
      <4> QED
        BY <4>3, <4>5, <4>6, <2>2
    <3> QED
      BY <3>1, <3>2, <3>3, <3>4 DEF SaysRange, t
  <2>7. IsBounded(b[k], 0, segs, config)
    BY <2>1, <2>2, <2>10, <1>13 DEF IsBounded, t
  <2> QED
    BY <2>6, <2>7 DEF Fine
<1>10. ASSUME NEW k \in 2..m
       PROVE  b[k - 1].end <= b[k].start
  <2>1. k \in 1..m /\ k - 1 \in 1..m
    BY <1>5
  <2>2. /\ b[k - 1].end = text[hi[k - 1]] + 1 /\ b[k].start = text[lo[k]]
        /\ text[hi[k - 1]] \in Nat /\ text[lo[k]] \in Nat
    BY <2>1, <1>8
  <2>3. hi[k - 1] \in 1..Len(text) /\ lo[k] \in 1..Len(text) /\ hi[k - 1] < lo[k]
    BY <2>1, <1>5, <1>6
  <2>4. text[hi[k - 1]] < text[lo[k]]
    BY <2>3, <1>2
  <2> QED
    BY <2>2, <2>4
<1>11. s <= b[1].start /\ b[m].end <= end
  <2>1. 1 \in 1..m /\ m \in 1..m
    BY <1>5
  <2>2. b[1].start = text[lo[1]] /\ b[m].end = text[hi[m]] + 1 /\ text[hi[m]] \in Nat
    BY <2>1, <1>8
  <2>3. s <= text[lo[1]] /\ text[hi[m]] < end
    BY <2>1, <1>6, <1>2
  <2> QED
    BY <2>2, <2>3, <1>3
<1>12. ASSUME NEW j \in 1..Len(text)
       PROVE  \E k \in 1..m : b[k].start <= text[j] /\ text[j] < b[k].end
  <2>1. PICK k \in 1..m : lo[k] <= j /\ j <= hi[k]
    BY <1>5
  <2>2. text[lo[k]] <= text[j] /\ text[j] <= text[hi[k]] /\ text[j] \in Nat
    BY <2>1, <1>2, <1>6, <1>7
  <2>3. b[k].start = text[lo[k]] /\ b[k].end = text[hi[k]] + 1 /\ text[hi[k]] \in Nat
    BY <1>8
  <2> QED
    BY <2>2, <2>3
<1> QED
  BY <1>9, <1>10, <1>11, <1>12 DEF text, s, end, m

\* What is carried over is empty, a single paragraph or within the overlap.
LEMMA OverlapIsTail ==
    ASSUME NEW parts \in Seq(Seq(Nat)), NEW overlap \in Nat
    PROVE  LET kept == SelectOverlapParts(parts, overlap) IN
           /\ kept \in Seq(Seq(Nat))
           /\ \A i \in 1..Len(kept) : \E j \in 1..Len(parts) : kept[i] = parts[j]
           /\ FlattenSeq(kept) \in Suffixes(FlattenSeq(parts))
           /\ Len(FlattenSeq(kept)) <= overlap \/ \E j \in 1..Len(parts) : FlattenSeq(kept) = parts[j]
<1> DEFINE n == Len(parts)
           taken(k) == SubSeq(parts, k, n)
           fits == {k \in DOMAIN parts : k = n \/ EstimateTokenCount(taken(k)) <= overlap}
           kept == SelectOverlapParts(parts, overlap)
<1>1. CASE overlap = 0 \/ parts = << >>
  <2>1. kept = << >>
    BY <1>1 DEF SelectOverlapParts
  <2>2. FlattenSeq(<< >>) = << >> /\ << >> \in Seq(Seq(Nat)) /\ Len(<< >>) = 0
    BY DEF FlattenSeq
  <2>3. << >> \in Suffixes(FlattenSeq(parts))
    BY DEF Suffixes
  <2> HIDE DEF kept
  <2> QED
    BY <2>1, <2>2, <2>3 DEF kept
<1>2. CASE ~(overlap = 0 \/ parts = << >>)
  <2>1. n \in Nat /\ n >= 1 /\ DOMAIN parts = 1..n
    BY <1>2
  <2>2. fits \subseteq Nat /\ n \in fits /\ fits \subseteq 1..n
    BY <2>1
  <2>3. kept = taken(Min(fits))
    BY <1>2 DEF SelectOverlapParts
  <2> HIDE DEF fits
  <2>4. Min(fits) \in fits
    BY <2>2, MinIs
  <2> DEFINE k == Min(fits)
  <2>5. k \in 1..n /\ (k = n \/ EstimateTokenCount(taken(k)) <= overlap)
    BY <2>2, <2>4 DEF fits
  <2> HIDE DEF k, kept
  <2>6. kept = SubSeq(parts, k, n)
    BY <2>3 DEF k
  <2>7. kept \in Seq(Seq(Nat)) /\ FlattenSeq(kept) \in Suffixes(FlattenSeq(parts))
    BY <2>5, <2>6, FlattenTail
  <2>8. Len(kept) = n - k + 1 /\ \A i \in 1..(n - k + 1) : kept[i] = parts[k + i - 1]
    <3>1. k \in Nat /\ n \in Nat /\ 1 <= k /\ k <= n /\ n <= Len(parts)
      <4>1. n <= Len(parts)
        BY <2>1
      <4> HIDE DEF n
      <4> QED
        BY <2>1, <2>5, <4>1
    <3> DEFINE T == Seq(Nat)
    <3>2. parts \in Seq(T)
      OBVIOUS
    <3> HIDE DEF T, n
    <3> QED
      BY <3>1, <3>2, <2>6, PartOf
  <2> HIDE DEF n
  <2>9. \A i \in 1..Len(kept) : k + i - 1 \in 1..n /\ kept[i] = parts[k + i - 1]
    BY <2>1, <2>5, <2>8
  <2>10. Len(FlattenSeq(kept)) <= overlap \/ \E j \in 1..n : FlattenSeq(kept) = parts[j]
    <3>1. CASE k = n
      <4>1. Len(kept) = 1 /\ kept[1] = parts[n] /\ n \in 1..n
        BY <3>1, <2>1, <2>8
      <4>2. kept = << parts[n] >> /\ parts[n] \in Seq(Nat)
        BY <4>1, <2>7 DEF n
      <4>3. FlattenSeq(kept) = parts[n]
        BY <4>2, FlattenOne
      <4> QED
        BY <4>1, <4>3
    <3>2. CASE k # n
      BY <3>2, <2>5, <2>6 DEF EstimateTokenCount
    <3> QED
      BY <3>1, <3>2
  <2> QED
    BY <2>7, <2>9, <2>10 DEF n, kept
<1> QED
  BY <1>1, <1>2

Lists(q, segs, config, n) == Chained(q, segs, config) /\ Reaches(q, segs, n) /\ EndsBefore(q, segs, n)

\* Chunks of the next paragraph, put at the end of the list.
LEMMA ListGrows ==
    ASSUME NEW segs \in Seq(Segments), InOrder(segs), NEW config, NEW n \in Nat, n + 1 <= Len(segs),
           NEW a \in Seq(RawChunks), NEW b \in Seq(RawChunks), b # << >>, Chained(a \o b, segs, config),
           \A i \in 1..n : \A k \in 1..Len(segs[i].text) : \E j \in 1..Len(a \o b) :
               (a \o b)[j].start <= segs[i].text[k] /\ segs[i].text[k] < (a \o b)[j].end,
           b[Len(b)].end <= segs[n + 1].end,
           \A k \in 1..Len(segs[n + 1].text) : \E j \in 1..Len(b) :
               b[j].start <= segs[n + 1].text[k] /\ segs[n + 1].text[k] < b[j].end
    PROVE  Lists(a \o b, segs, config, n + 1)
<1> DEFINE c == a \o b
<1>1. /\ Joins(c, a, b) /\ Len(a) \in Nat /\ Len(b) \in Nat \ {0}
  BY ConcatJoins
<1>2. /\ Len(c) = Len(a) + Len(b) /\ \A k \in 1..Len(b) : c[Len(a) + k] = b[k]
  BY <1>1 DEF Joins
<1>3. /\ Chained(c, segs, config)
      /\ \A i \in 1..n : \A k \in 1..Len(segs[i].text) : \E j \in 1..Len(c) :
           c[j].start <= segs[i].text[k] /\ segs[i].text[k] < c[j].end
  OBVIOUS
<1> HIDE DEF c
<1>4. ASSUME NEW i \in 1..(n + 1), NEW k \in 1..Len(segs[i].text)
      PROVE  \E j \in 1..Len(c) : c[j].start <= segs[i].text[k] /\ segs[i].text[k] < c[j].end
  <2>1. CASE i \in 1..n
    BY <2>1, <1>3
  <2>2. CASE i = n + 1
    <3>1. PICK j \in 1..Len(b) : b[j].start <= segs[i].text[k] /\ segs[i].text[k] < b[j].end
      BY <2>2
    <3>2. Len(a) + j \in 1..Len(c) /\ c[Len(a) + j] = b[j]
      BY <1>1, <1>2
    <3> QED
      BY <3>1, <3>2
  <2> QED
    BY <2>1, <2>2
<1>5. Reaches(c, segs, n + 1)
  BY <1>4 DEF Reaches
<1>6. EndsBefore(c, segs, n + 1)
  <2> SUFFICES ASSUME NEW m \in ((n + 1) + 1)..Len(segs)
               PROVE  c[Len(c)].end <= segs[m].start
    BY DEF EndsBefore
  <2>1. n + 1 \in 1..Len(segs) /\ m \in 1..Len(segs) /\ n + 1 < m
    OBVIOUS
  <2>2. segs[n + 1].end <= segs[m].start /\ segs[n + 1].end \in Nat /\ segs[m].start \in Nat
    BY <2>1, SegmentTyped DEF InOrder
  <2>3. Len(b) \in 1..Len(b)
    BY <1>1
  <2>4. c[Len(c)] = b[Len(b)]
    BY <2>3, <1>1, <1>2
  <2>5. b[Len(b)].end \in Nat
    <3>1. b[Len(b)] \in RawChunks
      BY <2>3
    <3> QED
      BY <3>1 DEF RawChunks
  <2> QED
    BY <2>2, <2>4, <2>5
<1> QED
  BY <1>3, <1>5, <1>6 DEF Lists, c

\* What is reached by a is reached by a and more.
LEMMA StillReached ==
    ASSUME NEW segs, NEW n \in Nat, NEW a \in Seq(RawChunks), NEW b \in Seq(RawChunks), Reaches(a, segs, n)
    PROVE  \A i \in 1..n : \A k \in 1..Len(segs[i].text) : \E j \in 1..Len(a \o b) :
               (a \o b)[j].start <= segs[i].text[k] /\ segs[i].text[k] < (a \o b)[j].end
<1> TAKE i \in 1..n
<1> TAKE k \in 1..Len(segs[i].text)
<1> DEFINE c == a \o b
<1>1. \A j \in 1..Len(a) : j \in 1..Len(c) /\ c[j] = a[j]
  OBVIOUS
<1> HIDE DEF c
<1>2. PICK j \in 1..Len(a) : a[j].start <= segs[i].text[k] /\ segs[i].text[k] < a[j].end
  BY DEF Reaches
<1>3. j \in 1..Len(c) /\ c[j].start <= segs[i].text[k] /\ segs[i].text[k] < c[j].end
  BY <1>1, <1>2
<1> QED
  BY <1>3 DEF c

LEMMA LargeStep ==
    ASSUME NEW segs \in Seq(Segments), InOrder(segs), NEW config \in Configs, NEW n \in Nat, n + 1 <= Len(segs),
           NEW q \in Seq(RawChunks), Lists(q, segs, config, n),
           NEW b, NEW lo, NEW hi, Cuts(b, lo, hi, segs[n + 1], config.max)
    PROVE  Lists(q \o b, segs, config, n + 1)
<1>1. b \in Seq(RawChunks) /\ Len(b) >= 1
  BY DEF Cuts
<1>2. b # << >> /\ 1 \in 1..Len(b) /\ Len(b) \in Nat
  BY <1>1
<1>3. n + 1 \in 1..Len(segs)
  OBVIOUS
<1>4. n >= 1 => segs[n].end <= segs[n + 1].start
  BY <1>3 DEF InOrder
<1>5. /\ \A k \in 1..Len(b) : Fine(b[k], 0, segs, config)
      /\ \A k \in 2..Len(b) : b[k - 1].end <= b[k].start
      /\ segs[n + 1].start <= b[1].start /\ b[Len(b)].end <= segs[n + 1].end
      /\ \A j \in 1..Len(segs[n + 1].text) : \E k \in 1..Len(b) :
            b[k].start <= segs[n + 1].text[j] /\ segs[n + 1].text[j] < b[k].end
  BY <1>4, CutsAreFine
<1>6. \A k \in 1..Len(b) : SubSeq(b[k].text, 1, 0) = << >>
  <2> TAKE k \in 1..Len(b)
  <2>1. b[k] \in RawChunks
    BY <1>1
  <2>2. b[k].text \in Seq(Nat)
    BY <2>1 DEF RawChunks
  <2> QED
    BY <2>2
<1>7. Opens(q, b[1], 0)
  <2>1. CASE q = << >>
    BY <2>1 DEF Opens
  <2>2. CASE q # << >>
    <3>1. n + 1 \in (n + 1)..Len(segs)
      BY <1>3
    <3>2. q[Len(q)].end <= segs[n + 1].start
      BY <2>2, <3>1 DEF Lists, EndsBefore
    <3>3. q[Len(q)] \in RawChunks /\ b[1] \in RawChunks
      BY <2>2, <1>1, <1>2
    <3>4. q[Len(q)].end \in Nat /\ b[1].start \in Nat
      BY <3>3 DEF RawChunks
    <3>5. segs[n + 1].start \in Nat
      BY <1>3, SegmentTyped
    <3>6. q[Len(q)].end <= b[1].start
      BY <3>2, <3>4, <3>5, <1>5
    <3>7. SubSeq(b[1].text, 1, 0) \in Suffixes(q[Len(q)].text)
      BY <1>2, <1>6 DEF Suffixes
    <3> QED
      BY <2>2, <3>6, <3>7 DEF Opens, Follows
  <2> QED
    BY <2>1, <2>2
<1>8. \A k \in 2..Len(b) : Fine(b[k], 0, segs, config) /\ Follows(b[k - 1], b[k], 0)
  <2> TAKE k \in 2..Len(b)
  <2>1. k \in 1..Len(b)
    OBVIOUS
  <2>2. SubSeq(b[k].text, 1, 0) \in Suffixes(b[k - 1].text)
    BY <2>1, <1>6 DEF Suffixes
  <2> QED
    BY <2>1, <2>2, <1>5 DEF Follows
<1>9. Chained(q \o b, segs, config)
  <2>1. Fine(b[1], 0, segs, config) /\ 0 \in Nat /\ Chained(q, segs, config)
    BY <1>2, <1>5 DEF Lists
  <2> QED
    BY <2>1, <1>1, <1>2, <1>7, <1>8, ChainJoins
<1> QED
  <2>1. Reaches(q, segs, n)
    BY DEF Lists
  <2> QED
    BY <2>1, <1>1, <1>2, <1>5, <1>9, StillReached, ListGrows

\* The last chunk of the list, or nothing, goes before a new chunk.
LEMMA NextStep ==
    ASSUME NEW segs \in Seq(Segments), InOrder(segs), NEW config \in Configs, NEW n \in Nat, n + 1 <= Len(segs),
           NEW q \in Seq(RawChunks), Lists(q, segs, config, n),
           NEW carried \in Seq(Nat), NEW s \in Nat, Len(segs[n + 1].text) <= config.max,
           Len(carried) <= config.overlap \/ \E i \in 1..Len(segs) : carried = segs[i].text,
           \/ carried = << >> /\ s = segs[n + 1].start
           \/ /\ q # << >> /\ n >= 1 /\ s = q[Len(q)].end /\ s = segs[n].end
              /\ carried \in Suffixes(q[Len(q)].text)
    PROVE  Lists(q \o << Chunk(carried \o segs[n + 1].text, s, segs[n + 1].end) >>, segs, config, n + 1)
<1> DEFINE c == Chunk(carried \o segs[n + 1].text, s, segs[n + 1].end)
           last == q[Len(q)]
           own == segs[n + 1].text
<1>1. n + 1 \in 1..Len(segs) /\ n + 1 \in (n + 1)..Len(segs)
  OBVIOUS
<1>2. /\ own \in Seq(Nat) /\ segs[n + 1].start \in Nat /\ segs[n + 1].end \in Nat
      /\ \A k \in 1..Len(own) : own[k] \in Nat /\ segs[n + 1].start <= own[k] /\ own[k] < segs[n + 1].end
  BY <1>1, SegmentTyped, ParagraphOrdered
<1>3. n >= 1 => segs[n].end <= segs[n + 1].start
  BY <1>1 DEF InOrder
<1>4. s <= segs[n + 1].start /\ (n >= 1 => segs[n].end <= s)
  <2>1. CASE carried = << >> /\ s = segs[n + 1].start
    BY <2>1, <1>2, <1>3
  <2>2. CASE n >= 1 /\ s = segs[n].end
    BY <2>2, <1>3
  <2> QED
    BY <2>1, <2>2
<1>5. q # << >> => last \in RawChunks /\ last.text \in Seq(Nat) /\ last.end \in Nat
  <2> HAVE q # << >>
  <2>1. last \in RawChunks
    OBVIOUS
  <2> HIDE DEF last
  <2> QED
    BY <2>1 DEF RawChunks
<1>6. q # << >> => \A k \in 1..Len(last.text) : IsToken(segs, last.text[k]) /\ last.text[k] < last.end
  <2> HAVE q # << >>
  <2>1. Len(q) \in 1..Len(q)
    OBVIOUS
  <2>2. PICK r \in Nat : Fine(q[Len(q)], r, segs, config)
    BY <2>1 DEF Lists, Chained
  <2> QED
    BY <2>2 DEF Fine, SaysRange
<1>7. \A k \in 1..Len(carried) : IsToken(segs, carried[k]) /\ carried[k] < s
  <2>1. CASE carried = << >>
    BY <2>1
  <2>2. CASE q # << >> /\ s = last.end /\ carried \in Suffixes(last.text) /\ carried # << >>
    <3>1. PICK l \in 1..Len(last.text) : carried = SubSeq(last.text, l, Len(last.text))
      BY <2>2 DEF Suffixes
    <3> DEFINE t == last.text
    <3>2. l \in Nat /\ Len(t) \in Nat /\ 1 <= l /\ l <= Len(t) /\ t \in Seq(Nat)
      BY <2>2, <1>5
    <3>5. carried = SubSeq(t, l, Len(t))
      BY <3>1
    <3> HIDE DEF t
    <3>3. Len(carried) = Len(t) - l + 1 /\ \A k \in 1..(Len(t) - l + 1) : carried[k] = t[l + k - 1]
      BY <3>2, <3>5, PartOf
    <3>4. \A k \in 1..Len(carried) : l + k - 1 \in 1..Len(t) /\ carried[k] = t[l + k - 1]
      BY <3>2, <3>3
    <3> QED
      BY <3>4, <2>2, <1>6 DEF t
  <2> QED
    BY <2>1, <2>2
<1>8. Fine(c, Len(carried), segs, config)
  BY <1>4, <1>7, NextChunk
<1>9. c.start = s /\ c.end = segs[n + 1].end /\ c.text = carried \o own /\ c.count = Len(carried \o own)
  BY DEF Chunk
<1>10. c \in RawChunks /\ SubSeq(c.text, 1, Len(carried)) = carried
  <2>1. carried \o own \in Seq(Nat) /\ Len(carried \o own) \in Nat
    BY <1>2
  <2>2. SubSeq(carried \o own, 1, Len(carried)) = carried
    BY <1>2, PrefixOfJoin
  <2>3. c \in RawChunks
    BY <2>1, <1>2 DEF Chunk, RawChunks
  <2> HIDE DEF c
  <2> QED
    BY <2>2, <2>3, <1>9
<1>11. Len(carried) \in Nat
  OBVIOUS
<1> HIDE DEF c
<1>12. Opens(q, c, Len(carried))
  <2>1. CASE q = << >>
    <3>1. carried = << >>
      BY <2>1
    <3> QED
      BY <2>1, <3>1 DEF Opens
  <2>2. CASE q # << >>
    <3>1. last.end <= c.start
      <4>1. last.end <= segs[n + 1].start
        BY <2>2, <1>1 DEF Lists, EndsBefore
      <4>2. CASE s = segs[n + 1].start
        BY <4>1, <4>2, <1>9
      <4>3. CASE s = last.end
        BY <4>3, <2>2, <1>5, <1>9
      <4> QED
        BY <4>2, <4>3
    <3>2. carried \in Suffixes(last.text)
      BY DEF Suffixes
    <3> QED
      BY <2>2, <3>1, <3>2, <1>10 DEF Opens, Follows
  <2> QED
    BY <2>1, <2>2
<1> DEFINE b == << c >>
<1>13. b \in Seq(RawChunks) /\ b # << >> /\ Len(b) = 1 /\ b[1] = c /\ \A k \in 2..Len(b) : FALSE
  BY <1>10
<1> HIDE DEF b
<1>14. Chained(q \o b, segs, config)
  <2>1. Chained(q, segs, config)
    BY DEF Lists
  <2>2. Fine(b[1], Len(carried), segs, config) /\ Opens(q, b[1], Len(carried))
    BY <1>8, <1>12, <1>13
  <2> QED
    BY <2>1, <2>2, <1>11, <1>13, ChainJoins
<1>15. ASSUME NEW k \in 1..Len(own)
       PROVE  \E j \in 1..Len(b) : b[j].start <= own[k] /\ own[k] < b[j].end
  <2>1. s <= own[k] /\ own[k] < segs[n + 1].end
    <3> DEFINE x == own[k]
               from == segs[n + 1].start
    <3>1. /\ x \in Nat /\ from \in Nat /\ from <= x /\ s <= from
          /\ x < segs[n + 1].end
      BY <1>2, <1>4
    <3> HIDE DEF x, from
    <3>2. s <= x
      BY <3>1
    <3> QED
      BY <3>1, <3>2 DEF x
  <2> QED
    BY <2>1, <1>9, <1>13
<1>16. b[Len(b)].end <= segs[n + 1].end
  BY <1>2, <1>9, <1>13
<1>17. \A i \in 1..n : \A k \in 1..Len(segs[i].text) : \E j \in 1..Len(q \o b) :
               (q \o b)[j].start <= segs[i].text[k] /\ segs[i].text[k] < (q \o b)[j].end
  <2>1. Reaches(q, segs, n)
    BY DEF Lists
  <2> QED
    BY <2>1, <1>13, StillReached
<1>18. Lists(q \o b, segs, config, n + 1)
  BY <1>13, <1>14, <1>15, <1>16, <1>17, ListGrows
<1> QED
  BY <1>18 DEF b, c

\* The last chunk of the list takes the next paragraph too.
LEMMA LongerStep ==
    ASSUME NEW segs \in Seq(Segments), InOrder(segs), NEW config \in Configs,
           NEW n \in Nat, n + 1 <= Len(segs), n >= 1,
           NEW a \in Seq(RawChunks), NEW old \in RawChunks, Lists(a \o << old >>, segs, config, n),
           old.end = segs[n].end, Len(old.text) + Len(segs[n + 1].text) <= config.max
    PROVE  Lists(a \o << Chunk(old.text \o segs[n + 1].text, old.start, segs[n + 1].end) >>, segs, config, n + 1)
<1> DEFINE own == segs[n + 1].text
           c == Chunk(old.text \o own, old.start, segs[n + 1].end)
           q == a \o << old >>
           b == << c >>
           m == Len(a)
<1>1. n + 1 \in 1..Len(segs) /\ n \in 1..Len(segs) /\ n < n + 1
  OBVIOUS
<1>2. /\ own \in Seq(Nat) /\ segs[n + 1].start \in Nat /\ segs[n + 1].end \in Nat
      /\ \A k \in 1..Len(own) : own[k] \in Nat /\ segs[n + 1].start <= own[k] /\ own[k] < segs[n + 1].end
  BY <1>1, SegmentTyped, ParagraphOrdered
<1>3. old.text \in Seq(Nat) /\ old.start \in Nat /\ old.end \in Nat
  BY DEF RawChunks
<1>4. Chained(a, segs, config) /\ \E r \in Nat : Fine(old, r, segs, config) /\ Opens(a, old, r)
  <2>1. Chained(a \o << old >>, segs, config)
    BY DEF Lists
  <2> QED
    BY <2>1, ChainParts
<1>5. PICK r \in Nat : Fine(old, r, segs, config) /\ Opens(a, old, r)
  BY <1>4
<1>6. /\ Fine(c, r, segs, config) /\ SubSeq(old.text \o own, 1, r) = SubSeq(old.text, 1, r)
      /\ old.end < segs[n + 1].end
  BY <1>5, LongerChunk
<1>7. c.start = old.start /\ c.end = segs[n + 1].end /\ c.text = old.text \o own /\ c.count = Len(old.text \o own)
  BY DEF Chunk
<1>8. c \in RawChunks
  <2>1. old.text \o own \in Seq(Nat) /\ Len(old.text \o own) \in Nat
    <3> DEFINE x == old.text
    <3>1. x \in Seq(Nat) /\ own \in Seq(Nat)
      BY <1>2, <1>3
    <3> HIDE DEF x, own
    <3>2. x \o own \in Seq(Nat)
      BY <3>1
    <3>3. Len(x \o own) \in Nat
      BY <3>2
    <3> QED
      BY <3>2, <3>3 DEF x
  <2> QED
    BY <2>1, <1>2, <1>3 DEF Chunk, RawChunks
<1>9. Opens(a, c, r)
  <2> HIDE DEF c
  <2>1. SubSeq(c.text, 1, r) = SubSeq(old.text, 1, r)
    BY <1>6, <1>7
  <2> QED
    BY <2>1, <1>5, <1>7 DEF Opens, Follows
<1>19. old.start <= segs[n + 1].start
  <2>1. SaysRange(old, r, segs) /\ Len(old.text) \in Nat
    BY <1>3, <1>5 DEF Fine
  <2>2. r + 1 \in 1..Len(old.text) /\ r < r + 1
    BY <2>1 DEF SaysRange
  <2>3. old.start <= old.text[r + 1] /\ old.text[r + 1] < old.end
    BY <2>1, <2>2 DEF SaysRange
  <2>4. old.end <= segs[n + 1].start
    BY <1>1 DEF InOrder
  <2>5. old.text[r + 1] \in Nat
    BY <2>2, <1>3
  <2> QED
    BY <2>3, <2>4, <2>5, <1>2, <1>3
<1> HIDE DEF c, own
<1>10. /\ b \in Seq(RawChunks) /\ b # << >> /\ Len(b) = 1 /\ b[1] = c /\ \A k \in 2..Len(b) : FALSE
  BY <1>8
<1>11. /\ Len(q) = m + 1 /\ m \in Nat /\ q[m + 1] = old /\ \A j \in 1..m : q[j] = a[j]
  OBVIOUS
<1>12. /\ Len(a \o b) = m + 1 /\ (a \o b)[m + 1] = c /\ \A j \in 1..m : (a \o b)[j] = a[j]
  <2>1. Joins(a \o b, a, b)
    BY <1>10, ConcatJoins
  <2>2. 1 \in 1..Len(b)
    BY <1>10
  <2> QED
    BY <2>1, <2>2, <1>10 DEF Joins
<1> HIDE DEF b, q
<1>13. Chained(a \o b, segs, config)
  <2>1. Fine(b[1], r, segs, config) /\ Opens(a, b[1], r)
    BY <1>6, <1>9, <1>10 DEF c, own
  <2> QED
    BY <2>1, <1>4, <1>10, ChainJoins
<1>14. \A k \in 1..Len(own) : \E j \in 1..Len(b) : b[j].start <= own[k] /\ own[k] < b[j].end
  <2> TAKE k \in 1..Len(own)
  <2>1. own[k] \in Nat /\ segs[n + 1].start <= own[k] /\ own[k] < segs[n + 1].end
    BY <1>2 DEF own
  <2>2. old.start <= own[k]
    BY <2>1, <1>2, <1>3, <1>19
  <2> QED
    BY <2>1, <2>2, <1>7, <1>10 DEF c, own
<1>15. b[Len(b)].end <= segs[n + 1].end
  BY <1>2, <1>7, <1>10
<1>16. ASSUME NEW i \in 1..n, NEW k \in 1..Len(segs[i].text)
       PROVE  \E j \in 1..Len(a \o b) : (a \o b)[j].start <= segs[i].text[k] /\ segs[i].text[k] < (a \o b)[j].end
  <2>1. PICK j \in 1..Len(q) : q[j].start <= segs[i].text[k] /\ segs[i].text[k] < q[j].end
    BY DEF Lists, Reaches, q
  <2>2. CASE j \in 1..m
    <3>1. j \in 1..Len(a \o b) /\ (a \o b)[j] = q[j]
      BY <2>2, <1>11, <1>12
    <3> QED
      BY <2>1, <3>1
  <2>3. CASE j = m + 1
    <3>1. old.start <= segs[i].text[k] /\ segs[i].text[k] < old.end
      BY <2>1, <2>3, <1>11
    <3>2. i \in 1..Len(segs)
      OBVIOUS
    <3>3. segs[i].text[k] \in Nat
      BY <3>2, SegmentTyped
    <3>4. c.start <= segs[i].text[k] /\ segs[i].text[k] < c.end
      <4>1. c.start = old.start /\ c.end = segs[n + 1].end /\ old.end < segs[n + 1].end
        BY <1>6, <1>7
      <4>2. segs[n + 1].end \in Nat
        BY <1>2
      <4> DEFINE y == segs[i].text[k]
                 z == segs[n + 1].end
      <4>3. y \in Nat /\ z \in Nat /\ old.end \in Nat /\ old.start <= y /\ y < old.end /\ old.end < z
        BY <3>1, <3>3, <4>1, <4>2, <1>3
      <4> HIDE DEF y, z
      <4>4. old.start <= y /\ y < z
        BY <4>3
      <4> QED
        BY <4>1, <4>4 DEF y, z
    <3>5. m + 1 \in 1..Len(a \o b)
      BY <1>11, <1>12
    <3> QED
      BY <3>4, <3>5, <1>12
  <2> HIDE DEF m
  <2>4. j \in 1..m \/ j = m + 1
    BY <1>11
  <2> QED
    BY <2>2, <2>3, <2>4
<1>17. Lists(a \o b, segs, config, n + 1)
  BY <1>10, <1>13, <1>14, <1>15, <1>16, ListGrows DEF own
<1> QED
  BY <1>17 DEF b, c, own

OpenChunks == [parts : Seq(Seq(Nat)), start : Nat, end : Nat]
States == [chunks : Seq(RawChunks), open : OpenChunks]

LEMMA FlushedTyped ==
    ASSUME NEW open \in OpenChunks
    PROVE  /\ Flushed(open) \in Seq(RawChunks)
           /\ open.parts # << >> => /\ Chunk(FlattenSeq(open.parts), open.start, open.end) \in RawChunks
                                    /\ Flushed(open) = << Chunk(FlattenSeq(open.parts), open.start, open.end) >>
           /\ open.parts = << >> => Flushed(open) = << >>
<1>1. open.parts \in Seq(Seq(Nat)) /\ open.start \in Nat /\ open.end \in Nat
  BY DEF OpenChunks
<1>2. FlattenSeq(open.parts) \in Seq(Nat)
  BY <1>1, FlattenLays
<1> DEFINE t == FlattenSeq(open.parts)
<1>3. t \in Seq(Nat) /\ Len(t) \in Nat
  BY <1>2
<1> HIDE DEF t
<1>4. Chunk(t, open.start, open.end) \in RawChunks
  BY <1>1, <1>3 DEF Chunk, RawChunks
<1>5. << Chunk(t, open.start, open.end) >> \in Seq(RawChunks) /\ << >> \in Seq(RawChunks)
  BY <1>4
<1> QED
  BY <1>4, <1>5 DEF Flushed, t

LEMMA AfterFlushTyped ==
    ASSUME NEW open \in OpenChunks, NEW overlap \in Nat
    PROVE  OpenAfterFlush(open, overlap) \in OpenChunks
<1>1. open.parts \in Seq(Seq(Nat)) /\ open.start \in Nat /\ open.end \in Nat
  BY DEF OpenChunks
<1>2. SelectOverlapParts(open.parts, overlap) \in Seq(Seq(Nat))
  BY <1>1, OverlapIsTail
<1> DEFINE T == Seq(Seq(Nat))
<1>3. << >> \in T /\ SelectOverlapParts(open.parts, overlap) \in T
  BY <1>2
<1> HIDE DEF T
<1>4. OpenAfterFlush(open, overlap) \in [parts : T, start : Nat, end : Nat]
  BY <1>1, <1>3 DEF OpenAfterFlush, Empty
<1> QED
  BY <1>4 DEF T, OpenChunks

LEMMA MergeTyped ==
    ASSUME NEW state \in States, NEW segment \in Segments, Len(segment.text) >= 1,
           NEW config \in Configs, config.max >= 1
    PROVE  MergeSegment(config, state, segment) \in States
<1>1. state.chunks \in Seq(RawChunks) /\ state.open \in OpenChunks
  BY DEF States
<1>2. segment.text \in Seq(Nat) /\ segment.start \in Nat /\ segment.end \in Nat
  BY DEF Segments
<1>3. config.max \in Nat /\ config.overlap \in Nat
  BY DEF Configs
<1>4. Flushed(state.open) \in Seq(RawChunks) /\ OpenAfterFlush(state.open, config.overlap) \in OpenChunks
  BY <1>1, <1>3, FlushedTyped, AfterFlushTyped
<1>5. SplitLarge(segment, config.max) \in Seq(RawChunks)
  <2>1. PICK lo : \E hi : Cuts(SplitLarge(segment, config.max), lo, hi, segment, config.max)
    BY <1>3, LargeIsCut
  <2> QED
    BY <2>1 DEF Cuts
<1> DEFINE m == Len(segment.text)
           exceeds == EstimateTokenCount(state.open.parts) + m > config.max /\ state.open.parts # << >>
           before == IF exceeds THEN OpenAfterFlush(state.open, config.overlap) ELSE state.open
           All == Seq(RawChunks)
           flushed == IF exceeds THEN Flushed(state.open) ELSE << >>
           large == state.chunks \o Flushed(state.open) \o SplitLarge(segment, config.max)
           longer == state.chunks \o flushed
           open == [parts |-> Append(before.parts, segment.text),
                    start |-> IF before.parts = << >> THEN segment.start ELSE before.start,
                    end |-> segment.end]
<1>6. large \in All
  <2> HIDE DEF m, exceeds
  <2>1. state.chunks \o Flushed(state.open) \in All
    BY <1>1, <1>4
  <2> QED
    BY <2>1, <1>5
<1>7. longer \in All
  <2> HIDE DEF exceeds
  <2>1. flushed \in All
    BY <1>4
  <2> HIDE DEF flushed
  <2> QED
    BY <2>1, <1>1
<1>8. Empty \in OpenChunks
  BY DEF Empty, OpenChunks
<1>9. open \in OpenChunks
  <2>1. before \in OpenChunks
    <3> HIDE DEF exceeds
    <3> QED
      BY <1>1, <1>4
  <2> HIDE DEF before
  <2>2. before.parts \in Seq(Seq(Nat)) /\ before.start \in Nat
    BY <2>1 DEF OpenChunks
  <2>3. Append(before.parts, segment.text) \in Seq(Seq(Nat))
    BY <2>2, <1>2
  <2> QED
    BY <2>2, <2>3, <1>2 DEF OpenChunks
<1>10. MergeSegment(config, state, segment) =
         IF m > config.max THEN [chunks |-> large, open |-> Empty] ELSE [chunks |-> longer, open |-> open]
  BY DEF MergeSegment
<1> HIDE DEF large, longer, open, All, m
<1>11. [chunks |-> large, open |-> Empty] \in [chunks : All, open : OpenChunks]
  BY <1>6, <1>8
<1>12. [chunks |-> longer, open |-> open] \in [chunks : All, open : OpenChunks]
  BY <1>7, <1>9
<1> QED
  BY <1>10, <1>11, <1>12 DEF States, All

LEMMA FlattenAppend ==
    ASSUME NEW S, NEW seqs \in Seq(Seq(S)), NEW s \in Seq(S)
    PROVE  FlattenSeq(Append(seqs, s)) = FlattenSeq(seqs) \o s
<1> DEFINE All == Seq(S)
           one == << s >>
<1>1. seqs \in Seq(All) /\ s \in All
  OBVIOUS
<1> HIDE DEF All
<1>2. one \in Seq(All) /\ Append(seqs, s) = seqs \o one
  BY <1>1
<1> HIDE DEF one
<1>3. FlattenSeq(seqs \o one) = FlattenSeq(seqs) \o FlattenSeq(one)
  BY <1>1, <1>2, FlattenConcat DEF All
<1>4. FlattenSeq(one) = s
  BY FlattenOne DEF one
<1> QED
  BY <1>2, <1>3, <1>4

\* The chunks there will be if no paragraph follows.
ListOf(state) == state.chunks \o Flushed(state.open)

Merged(state, segs, config, n) ==
    /\ Lists(ListOf(state), segs, config, n)
    /\ \A i \in 1..Len(state.open.parts) : \E m \in 1..Len(segs) : state.open.parts[i] = segs[m].text
    /\ state.open.parts # << >> => n >= 1 /\ state.open.end = segs[n].end

\* Where a turn of the loop leaves the chunks, by its cases.
LeavesLarge(next, state, segment, config) ==
    Len(segment.text) > config.max =>
        next.chunks = ListOf(state) \o SplitLarge(segment, config.max) /\ next.open = Empty

Exceeds(state, segment, config) ==
    EstimateTokenCount(state.open.parts) + Len(segment.text) > config.max /\ state.open.parts # << >>

LeavesFull(next, state, segment, config) ==
    LET kept == SelectOverlapParts(state.open.parts, config.overlap) IN
    ~(Len(segment.text) > config.max) /\ Exceeds(state, segment, config) =>
        /\ next.chunks = ListOf(state)
        /\ next.open.parts = Append(kept, segment.text) /\ next.open.end = segment.end
        /\ next.open.start = IF kept = << >> THEN segment.start ELSE state.open.end

LeavesOpen(next, state, segment, config) ==
    ~(Len(segment.text) > config.max) /\ ~Exceeds(state, segment, config) =>
        /\ next.chunks = state.chunks \o << >>
        /\ next.open.parts = Append(state.open.parts, segment.text) /\ next.open.end = segment.end
        /\ next.open.start = IF state.open.parts = << >> THEN segment.start ELSE state.open.start

LEMMA MergeCases ==
    ASSUME NEW state, NEW segment, NEW config
    PROVE  LET next == MergeSegment(config, state, segment) IN
           /\ LeavesLarge(next, state, segment, config)
           /\ LeavesFull(next, state, segment, config)
           /\ LeavesOpen(next, state, segment, config)
<1> DEFINE next == MergeSegment(config, state, segment)
           m == Len(segment.text)
           kept == SelectOverlapParts(state.open.parts, config.overlap)
           exceeds == Exceeds(state, segment, config)
           before == IF exceeds THEN OpenAfterFlush(state.open, config.overlap) ELSE state.open
           open == [parts |-> Append(before.parts, segment.text),
                    start |-> IF before.parts = << >> THEN segment.start ELSE before.start,
                    end |-> segment.end]
<1>1. next = IF m > config.max
             THEN [chunks |-> ListOf(state) \o SplitLarge(segment, config.max), open |-> Empty]
             ELSE [chunks |-> state.chunks \o (IF exceeds THEN Flushed(state.open) ELSE << >>), open |-> open]
  BY DEF MergeSegment, ListOf, Exceeds
<1>5. /\ open.parts = Append(before.parts, segment.text) /\ open.end = segment.end
      /\ open.start = IF before.parts = << >> THEN segment.start ELSE before.start
  OBVIOUS
<1> HIDE DEF next, m, open, exceeds
<1>2. LeavesLarge(next, state, segment, config)
  BY <1>1 DEF LeavesLarge, m
<1>3. LeavesFull(next, state, segment, config)
  <2> SUFFICES ASSUME ~(m > config.max), exceeds
               PROVE  /\ next.chunks = ListOf(state)
                      /\ next.open.parts = Append(kept, segment.text) /\ next.open.end = segment.end
                      /\ next.open.start = IF kept = << >> THEN segment.start ELSE state.open.end
    BY DEF LeavesFull, m, exceeds
  <2>1. before.parts = kept /\ (kept # << >> => before.start = state.open.end)
    BY DEF OpenAfterFlush, Empty
  <2> HIDE DEF before, kept
  <2>3. next.open = open /\ next.chunks = ListOf(state)
    BY <1>1 DEF ListOf
  <2> QED
    BY <1>5, <2>1, <2>3
<1>4. LeavesOpen(next, state, segment, config)
  <2> SUFFICES ASSUME ~(m > config.max), ~exceeds
               PROVE  /\ next.chunks = state.chunks \o << >>
                      /\ next.open.parts = Append(state.open.parts, segment.text) /\ next.open.end = segment.end
                      /\ next.open.start = IF state.open.parts = << >> THEN segment.start ELSE state.open.start
    BY DEF LeavesOpen, m, exceeds
  <2>1. before = state.open
    OBVIOUS
  <2> HIDE DEF before
  <2>3. next.open = open /\ next.chunks = state.chunks \o << >>
    BY <1>1
  <2> QED
    BY <1>5, <2>1, <2>3
<1> QED
  BY <1>2, <1>3, <1>4 DEF next

\* What MergeSegment leaves open has a chunk of the parts and the paragraph.
LEMMA OpenedList ==
    ASSUME NEW state, NEW parts \in Seq(Seq(Nat)), NEW text \in Seq(Nat), state.open.parts = Append(parts, text)
    PROVE  ListOf(state) = state.chunks \o << Chunk(FlattenSeq(parts) \o text, state.open.start, state.open.end) >>
<1> DEFINE p == Append(parts, text)
<1>1. FlattenSeq(p) = FlattenSeq(parts) \o text
  BY FlattenAppend
<1>2. state.open.parts = p
  OBVIOUS
<1>4. p # << >>
  <2>1. Len(p) = Len(parts) + 1 /\ Len(parts) \in Nat
    OBVIOUS
  <2> HIDE DEF p
  <2> QED
    BY <2>1
<1> HIDE DEF p
<1>3. Flushed(state.open) = << Chunk(FlattenSeq(p), state.open.start, state.open.end) >>
  BY <1>2, <1>4 DEF Flushed
<1> QED
  BY <1>1, <1>3 DEF ListOf

LEMMA AppendedParts ==
    ASSUME NEW segs, NEW i \in 1..Len(segs), NEW parts \in Seq(Seq(Nat)), segs[i].text \in Seq(Nat),
           \A k \in 1..Len(parts) : \E m \in 1..Len(segs) : parts[k] = segs[m].text
    PROVE  \A k \in 1..Len(Append(parts, segs[i].text)) : \E m \in 1..Len(segs) :
               Append(parts, segs[i].text)[k] = segs[m].text
<1> DEFINE p == Append(parts, segs[i].text)
<1>1. Len(p) = Len(parts) + 1 /\ p[Len(parts) + 1] = segs[i].text /\ Len(parts) \in Nat
      /\ \A k \in 1..Len(parts) : p[k] = parts[k]
  OBVIOUS
<1> HIDE DEF p
<1>2. ASSUME NEW k \in 1..Len(p)
      PROVE  \E m \in 1..Len(segs) : p[k] = segs[m].text
  <2>1. k \in 1..Len(parts) \/ k = Len(parts) + 1
    BY <1>1
  <2> QED
    BY <2>1, <1>1
<1> QED
  BY <1>2 DEF p

LEMMA MergeKeeps ==
    ASSUME NEW segs \in Seq(Segments), InOrder(segs), NEW config \in Configs, config.max >= 1,
           NEW n \in Nat, n + 1 <= Len(segs), NEW state \in States, Merged(state, segs, config, n)
    PROVE  Merged(MergeSegment(config, state, segs[n + 1]), segs, config, n + 1)
<1> DEFINE segment == segs[n + 1]
           text == segment.text
           m == Len(text)
           open == state.open
           parts == open.parts
           next == MergeSegment(config, state, segment)
           q == ListOf(state)
           kept == SelectOverlapParts(parts, config.overlap)
           sum == EstimateTokenCount(parts) + m
           old == Chunk(FlattenSeq(parts), open.start, open.end)
<1>1. n + 1 \in 1..Len(segs)
  OBVIOUS
<1>2. text \in Seq(Nat) /\ segment.start \in Nat /\ segment.end \in Nat /\ m \in Nat /\ m >= 1
  BY <1>1, SegmentTyped, ParagraphOrdered
<1>3. state.chunks \in Seq(RawChunks) /\ open \in OpenChunks
  BY DEF States
<1>4. parts \in Seq(Seq(Nat)) /\ open.start \in Nat /\ open.end \in Nat
  BY <1>3 DEF OpenChunks
<1>5. config.max \in Nat /\ config.overlap \in Nat
  BY DEF Configs
<1>6. /\ Flushed(open) \in Seq(RawChunks)
      /\ parts # << >> => old \in RawChunks /\ Flushed(open) = << old >>
      /\ parts = << >> => Flushed(open) = << >>
  BY <1>3, FlushedTyped
<1>7. /\ Lists(q, segs, config, n)
      /\ \A i \in 1..Len(parts) : \E j \in 1..Len(segs) : parts[i] = segs[j].text
      /\ parts # << >> => n >= 1 /\ open.end = segs[n].end
  BY DEF Merged
<1>8. q = state.chunks \o Flushed(open)
  BY DEF ListOf
<1>22. /\ LeavesLarge(next, state, segment, config) /\ LeavesFull(next, state, segment, config)
       /\ LeavesOpen(next, state, segment, config)
  BY MergeCases
<1>23. m > config.max => next.chunks = q \o SplitLarge(segment, config.max) /\ next.open = Empty
  BY <1>22 DEF LeavesLarge
<1>24. ~(m > config.max) /\ sum > config.max /\ parts # << >> =>
            /\ next.chunks = q
            /\ next.open.parts = Append(kept, text) /\ next.open.end = segment.end
            /\ next.open.start = IF kept = << >> THEN segment.start ELSE open.end
  <2> HIDE DEF next, q
  <2> QED
    BY <1>22 DEF LeavesFull, Exceeds, q
<1>25. ~(m > config.max) /\ ~(sum > config.max /\ parts # << >>) =>
            /\ next.chunks = state.chunks \o << >>
            /\ next.open.parts = Append(parts, text) /\ next.open.end = segment.end
            /\ next.open.start = IF parts = << >> THEN segment.start ELSE open.start
  <2> HIDE DEF next
  <2> QED
    BY <1>22 DEF LeavesOpen, Exceeds
<1>10. old.text = FlattenSeq(parts) /\ old.start = open.start /\ old.end = open.end /\ FlattenSeq(parts) \in Seq(Nat)
  BY <1>4, FlattenLays DEF Chunk
<1>14. \A list \in Seq(RawChunks) : list \o << >> = list
  OBVIOUS
<1>20. segment \in Segments
  BY <1>1
<1>21. sum = Len(FlattenSeq(parts)) + m
  BY DEF EstimateTokenCount
<1> HIDE DEF next, q, open, old, m, segment, text, parts, kept, sum
<1>15. q \in Seq(RawChunks)
  BY <1>3, <1>6, <1>8
<1>11. CASE m > config.max
  <2> DEFINE b == SplitLarge(segment, config.max)
  <2>1. PICK lo : \E hi : Cuts(b, lo, hi, segment, config.max)
    BY <1>2, <1>5, <1>20, LargeIsCut DEF m, text
  <2>2. PICK hi : Cuts(b, lo, hi, segment, config.max)
    BY <2>1
  <2>3. b \in Seq(RawChunks)
    BY <2>2 DEF Cuts
  <2>4. Lists(q \o b, segs, config, n + 1)
    BY <2>2, <1>7, <1>15, LargeStep DEF segment
  <2> HIDE DEF b
  <2>5. q \o b \in Seq(RawChunks)
    BY <2>3, <1>15
  <2>6. next.chunks = q \o b /\ next.open.parts = << >>
    BY <1>23, <1>11 DEF b, Empty
  <2>7. ListOf(next) = (q \o b) \o << >>
    BY <2>6 DEF ListOf, Flushed
  <2>8. Lists(ListOf(next), segs, config, n + 1)
    BY <2>4, <2>5, <2>7, <1>14
  <2>9. Merged(next, segs, config, n + 1)
    BY <2>6, <2>8 DEF Merged
  <2> QED
    BY <2>9 DEF next, segment
<1>12. CASE ~(m > config.max) /\ sum > config.max /\ parts # << >>
  <2> DEFINE start == IF kept = << >> THEN segment.start ELSE open.end
             carried == FlattenSeq(kept)
  <2>1. /\ next.chunks = q
        /\ next.open.parts = Append(kept, text) /\ next.open.start = start /\ next.open.end = segment.end
    BY <1>24, <1>12
  <2>2. /\ kept \in Seq(Seq(Nat)) /\ \A i \in 1..Len(kept) : \E j \in 1..Len(parts) : kept[i] = parts[j]
        /\ carried \in Suffixes(FlattenSeq(parts))
        /\ Len(carried) <= config.overlap \/ \E j \in 1..Len(parts) : carried = parts[j]
    BY <1>4, <1>5, OverlapIsTail DEF kept
  <2>3. kept = << >> => carried = << >>
    BY DEF FlattenSeq
  <2>4. carried \in Seq(Nat)
    BY <2>2, FlattenLays
  <2>5. start \in Nat
    BY <1>2, <1>4
  <2>6. Len(carried) <= config.overlap \/ \E i \in 1..Len(segs) : carried = segs[i].text
    BY <2>2, <1>7
  <2>7. q # << >> /\ q[Len(q)] = old
    <3>1. q = state.chunks \o << old >> /\ old \in RawChunks
      BY <1>6, <1>8, <1>12
    <3> QED
      BY <3>1, <1>3
  <2>8. \/ carried = << >> /\ start = segment.start
        \/ q # << >> /\ n >= 1 /\ start = q[Len(q)].end /\ start = segs[n].end /\ carried \in Suffixes(q[Len(q)].text)
    <3>1. CASE kept = << >>
      BY <3>1, <2>3
    <3>2. CASE kept # << >>
      <4>1. start = open.end
        BY <3>2
      <4> QED
        BY <4>1, <2>2, <2>7, <1>7, <1>10, <1>12
    <3> QED
      BY <3>1, <3>2
  <2> HIDE DEF start, carried
  <2>9. m <= config.max
    BY <1>2, <1>5, <1>12
  <2>10. Lists(q \o << Chunk(carried \o text, start, segment.end) >>, segs, config, n + 1)
    BY <2>4, <2>5, <2>6, <2>8, <2>9, <1>7, <1>15, NextStep DEF segment, text, m
  <2>11. ListOf(next) = q \o << Chunk(carried \o text, start, segment.end) >>
    <3>1. ListOf(next) = next.chunks \o << Chunk(FlattenSeq(kept) \o text, next.open.start, next.open.end) >>
      BY <2>1, <2>2, <1>2, OpenedList
    <3> QED
      BY <2>1, <3>1 DEF carried
  <2>12. next.open.parts = Append(kept, text) /\ next.open.end = segment.end
    BY <2>1
  <2>13. \A i \in 1..Len(Append(kept, text)) : \E j \in 1..Len(segs) : Append(kept, text)[i] = segs[j].text
    <3>1. \A i \in 1..Len(kept) : \E j \in 1..Len(segs) : kept[i] = segs[j].text
      BY <2>2, <1>7
    <3> QED
      BY <3>1, <2>2, <1>1, <1>2, AppendedParts DEF text, segment
  <2>14. Merged(next, segs, config, n + 1)
    BY <2>10, <2>11, <2>12, <2>13 DEF Merged, segment
  <2> QED
    BY <2>14 DEF next, segment
<1>13. CASE ~(m > config.max) /\ ~(sum > config.max /\ parts # << >>)
  <2> DEFINE start == IF parts = << >> THEN segment.start ELSE open.start
             c == Chunk(FlattenSeq(parts) \o text, start, segment.end)
  <2>9. m <= config.max
    BY <1>2, <1>5, <1>13
  <2>1. /\ next.chunks = state.chunks
        /\ next.open.parts = Append(parts, text) /\ next.open.start = start /\ next.open.end = segment.end
    BY <1>3, <1>25, <1>13, <1>14
  <2>2. start \in Nat
    BY <1>2, <1>4
  <2>3. ListOf(next) = state.chunks \o << c >>
    <3> HIDE DEF start
    <3>1. ListOf(next) = next.chunks \o << Chunk(FlattenSeq(parts) \o text, next.open.start, next.open.end) >>
      BY <2>1, <1>2, <1>4, OpenedList
    <3> QED
      BY <2>1, <3>1
  <2>4. ASSUME parts = << >>
        PROVE  Lists(ListOf(next), segs, config, n + 1)
    <3>1. q = state.chunks
      BY <2>4, <1>3, <1>6, <1>8, <1>14
    <3>2. FlattenSeq(parts) = << >> /\ start = segment.start /\ << >> \in Seq(Nat) /\ Len(<< >>) <= config.overlap
      BY <2>4, <1>5 DEF FlattenSeq
    <3>3. Lists(q \o << Chunk(<< >> \o text, segment.start, segment.end) >>, segs, config, n + 1)
      BY <3>2, <2>9, <1>2, <1>7, <1>15, NextStep DEF segment, text, m
    <3> QED
      BY <3>1, <3>2, <3>3, <2>3
  <2>5. ASSUME parts # << >>
        PROVE  Lists(ListOf(next), segs, config, n + 1)
    <3>1. q = state.chunks \o << old >> /\ old \in RawChunks /\ start = open.start
      BY <2>5, <1>6, <1>8
    <3>2. Len(old.text) + m <= config.max
      <4>1. ~(sum > config.max) /\ sum = Len(old.text) + m
        BY <2>5, <1>10, <1>13, <1>21
      <4>2. Len(old.text) \in Nat
        BY <1>10
      <4> QED
        BY <4>1, <4>2, <1>2, <1>5
    <3>3. n >= 1 /\ old.end = segs[n].end
      BY <2>5, <1>7, <1>10
    <3>4. Lists(state.chunks \o << Chunk(old.text \o text, old.start, segment.end) >>, segs, config, n + 1)
      BY <3>1, <3>2, <3>3, <1>3, <1>7, LongerStep DEF segment, text, m
    <3> QED
      BY <3>1, <3>4, <2>3, <1>10
  <2>6. Lists(ListOf(next), segs, config, n + 1)
    BY <2>4, <2>5
  <2>7. next.open.parts = Append(parts, text) /\ next.open.end = segment.end
    BY <2>1
  <2>8. \A i \in 1..Len(Append(parts, text)) : \E j \in 1..Len(segs) : Append(parts, text)[i] = segs[j].text
    BY <1>1, <1>2, <1>4, <1>7, AppendedParts DEF text, segment
  <2>10. Merged(next, segs, config, n + 1)
    BY <2>6, <2>7, <2>8 DEF Merged, segment
  <2> QED
    BY <2>10 DEF next, segment
<1> QED
  BY <1>11, <1>12, <1>13

NoChunks == [chunks |-> << >>, open |-> Empty]

MergesInto(f, segs, config) ==
    /\ f[0] = NoChunks
    /\ \A i \in 1..Len(segs) : f[i] = MergeSegment(config, f[i - 1], segs[i])
    /\ MergeSegments(segs, config) = ListOf(f[Len(segs)])

LEMMA MergeIterates ==
    ASSUME NEW segs \in Seq(Segments), \A i \in 1..Len(segs) : Len(segs[i].text) >= 1,
           NEW config \in Configs, config.max >= 1
    PROVE  \E f \in [0..Len(segs) -> States] : MergesInto(f, segs, config)
<1> DEFINE n == Len(segs)
<1>1. n \in Nat /\ \A i \in 1..n : segs[i] \in Segments /\ Len(segs[i].text) >= 1
  OBVIOUS
<1>2. NoChunks \in States
  <2>1. << >> \in Seq(RawChunks) /\ << >> \in Seq(Seq(Nat))
    OBVIOUS
  <2> QED
    BY <2>1 DEF NoChunks, States, OpenChunks, Empty
<1> HIDE DEF n
<1>3. PICK f \in [0..n -> States] : f[0] = NoChunks /\ \A i \in 1..n : f[i] = MergeSegment(config, f[i - 1], segs[i])
  <2> DEFINE next == [i \in 1..n |-> [s \in States |-> MergeSegment(config, s, segs[i])]]
  <2>1. next \in [1..n -> [States -> States]]
    BY <1>1, MergeTyped
  <2>3. \A i \in 1..n, s \in States : next[i][s] = MergeSegment(config, s, segs[i])
    OBVIOUS
  <2> HIDE DEF next
  <2>4. PICK f : Iterates(f, NoChunks, next, n, States)
    BY <1>1, <1>2, <2>1, IterationExists
  <2> USE DEF Iterates
  <2>5. ASSUME NEW i \in 1..n
        PROVE  f[i] = MergeSegment(config, f[i - 1], segs[i])
    <3>1. i - 1 \in 0..n
      BY <1>1
    <3>2. f[i - 1] \in States
      BY <2>4, <3>1
    <3> QED
      BY <2>3, <2>4, <3>2
  <2> QED
    BY <2>4, <2>5
<1> DEFINE step(g) == [i \in 0..n |-> IF i = 0 THEN NoChunks ELSE MergeSegment(config, g[i - 1], segs[i])]
           state == CHOOSE g : g = step(g)
<1>4. MergeSegments(segs, config) = state[n].chunks \o Flushed(state[n].open)
  BY DEF MergeSegments, NoChunks, n
<1>5. f = step(f)
  <2>1. ASSUME NEW i \in 0..n
        PROVE  f[i] = step(f)[i]
    <3>1. CASE i = 0
      BY <3>1, <1>3
    <3>2. CASE i # 0
      <4>1. i \in 1..n
        BY <3>2, <1>1
      <4> QED
        BY <3>2, <4>1, <1>3
    <3> QED
      BY <3>1, <3>2
  <2> QED
    BY <2>1, <1>3
<1>6. state = step(state)
  <2> HIDE DEF step
  <2> QED
    BY <1>5
<1> HIDE DEF state
<1> DEFINE T == {k \in Nat : k \in 0..n => state[k] = f[k]}
<1>7. 0 \in T
  <2>1. 0 \in 0..n
    BY <1>1
  <2>2. state[0] = step(state)[0]
    BY <1>6
  <2>3. state[0] = NoChunks
    BY <2>1, <2>2
  <2> QED
    BY <2>3, <1>3
<1>8. ASSUME NEW k \in Nat, k \in T
      PROVE  k + 1 \in T
  <2> SUFFICES ASSUME k + 1 \in 0..n
               PROVE  state[k + 1] = f[k + 1]
    OBVIOUS
  <2>1. k \in 0..n /\ k + 1 # 0 /\ (k + 1) - 1 = k /\ k + 1 \in 1..n
    BY <1>1
  <2>2. state[k] = f[k]
    BY <1>8, <2>1
  <2>3. state[k + 1] = step(state)[k + 1]
    BY <1>6
  <2>4. state[k + 1] = MergeSegment(config, state[k], segs[k + 1])
    BY <2>1, <2>3
  <2>5. f[k + 1] = MergeSegment(config, f[k], segs[k + 1])
    BY <2>1, <1>3
  <2> QED
    BY <2>2, <2>4, <2>5
<1> HIDE DEF T
<1>9. n \in T
  BY <1>1, <1>7, <1>8, Induction
<1>10. state[n] = f[n]
  BY <1>1, <1>9 DEF T
<1>11. MergesInto(f, segs, config)
  BY <1>3, <1>4, <1>10 DEF MergesInto, ListOf, n
<1> QED
  BY <1>3, <1>11 DEF n

\* The chunks of a block, in the offsets of the block.
LEMMA MergedList ==
    ASSUME NEW segs \in Seq(Segments), InOrder(segs), NEW config \in Configs, config.max >= 1
    PROVE  MergeSegments(segs, config) \in Seq(RawChunks) /\ Lists(MergeSegments(segs, config), segs, config, Len(segs))
<1> DEFINE n == Len(segs)
<1>1. n \in Nat /\ \A i \in 1..n : Len(segs[i].text) >= 1
  BY DEF InOrder
<1>2. PICK f \in [0..n -> States] : MergesInto(f, segs, config)
  BY <1>1, MergeIterates
<1> DEFINE T == {k \in Nat : k <= n => Merged(f[k], segs, config, k)}
<1>9. n = Len(segs)
  OBVIOUS
<1> HIDE DEF n
<1>3. 0 \in T
  <2>1. f[0].chunks = << >> /\ f[0].open.parts = << >>
    BY <1>2 DEF MergesInto, NoChunks, Empty
  <2>2. ListOf(f[0]) = << >> \o << >>
    BY <2>1 DEF ListOf, Flushed
  <2>3. ListOf(f[0]) = << >>
    BY <2>2
  <2>4. Lists(ListOf(f[0]), segs, config, 0)
    <3>1. Len(<< >>) = 0 /\ 1..0 = {}
      OBVIOUS
    <3> QED
      BY <2>3, <3>1 DEF Lists, Chained, Reaches, EndsBefore
  <2>5. Merged(f[0], segs, config, 0)
    BY <2>1, <2>4 DEF Merged
  <2> QED
    BY <2>5
<1>4. ASSUME NEW k \in Nat, k \in T
      PROVE  k + 1 \in T
  <2> SUFFICES ASSUME k + 1 <= n
               PROVE  Merged(f[k + 1], segs, config, k + 1)
    OBVIOUS
  <2>1. k <= n /\ k \in 0..n /\ k + 1 \in 1..n /\ (k + 1) - 1 = k /\ k + 1 <= Len(segs)
    BY <1>1, <1>9
  <2>2. f[k] \in States /\ Merged(f[k], segs, config, k)
    BY <1>2, <1>4, <2>1
  <2>3. f[k + 1] = MergeSegment(config, f[k], segs[k + 1])
    BY <1>2, <1>9, <2>1 DEF MergesInto
  <2> QED
    BY <2>1, <2>2, <2>3, MergeKeeps
<1> HIDE DEF T
<1>5. n \in T
  BY <1>1, <1>3, <1>4, Induction
<1>6. Merged(f[n], segs, config, n) /\ f[n] \in States
  BY <1>1, <1>2, <1>5 DEF T
<1>7. MergeSegments(segs, config) = ListOf(f[n])
  BY <1>2, <1>9 DEF MergesInto
<1>8. ListOf(f[n]) \in Seq(RawChunks)
  <2>1. f[n].chunks \in Seq(RawChunks) /\ f[n].open \in OpenChunks
    BY <1>6 DEF States
  <2>2. Flushed(f[n].open) \in Seq(RawChunks)
    BY <2>1, FlushedTyped
  <2> QED
    BY <2>1, <2>2 DEF ListOf
<1> QED
  BY <1>6, <1>7, <1>8 DEF Merged, n

LEMMA WidthIs ==
    ASSUME NEW t \in Nat
    PROVE  Width(t) \in Nat /\ \A k \in 1..t : 2 * (k - 1) \in Nat /\ 2 * (k - 1) < Width(t)
BY DEF Width

\* A piece begins behind those before it.
LEMMA StartsInOrder ==
    ASSUME NEW pieces \in Seq(Nat)
    PROVE  /\ \A i \in 1..Len(pieces) : StartOf(pieces, i) \in Nat
           /\ \A i, j \in 1..Len(pieces) : i < j => StartOf(pieces, i) + Width(pieces[i]) <= StartOf(pieces, j)
<1> DEFINE n == Len(pieces)
           w(i) == Width(pieces[i]) + 2
<1>1. n \in Nat /\ DOMAIN pieces = 1..n /\ \A i \in 1..n : pieces[i] \in Nat /\ w(i) \in Nat
  <2>1. n \in Nat /\ DOMAIN pieces = 1..n /\ \A i \in 1..n : pieces[i] \in Nat
    OBVIOUS
  <2>2. \A i \in 1..n : Width(pieces[i]) \in Nat
    BY <2>1, WidthIs
  <2> QED
    BY <2>1, <2>2
<1> HIDE DEF n
<1>2. PICK f \in [0..n -> Nat] : f[0] = 0 /\ \A i \in 1..n : f[i] = f[i - 1] + w(i)
  <2> DEFINE next == [i \in 1..n |-> [s \in Nat |-> s + w(i)]]
  <2>1. next \in [1..n -> [Nat -> Nat]] /\ \A i \in 1..n, s \in Nat : next[i][s] = s + w(i)
    BY <1>1
  <2> HIDE DEF next, w
  <2>2. PICK f : Iterates(f, 0, next, n, Nat)
    BY <1>1, <2>1, IterationExists
  <2>3. ASSUME NEW i \in 1..n
        PROVE  f[i] = f[i - 1] + w(i)
    <3>1. i - 1 \in 0..n
      BY <1>1
    <3>2. f[i - 1] \in Nat
      BY <2>2, <3>1 DEF Iterates
    <3> QED
      BY <2>1, <2>2, <3>2 DEF Iterates
  <2> QED
    BY <2>2, <2>3 DEF Iterates
<1> DEFINE step(g) == [k \in 1..n |-> IF k = 1 THEN 0 ELSE g[k - 1] + Width(pieces[k - 1]) + 2]
           start == CHOOSE g : g = step(g)
           some == [k \in 1..n |-> f[k - 1]]
<1>3. \A i \in 1..n : StartOf(pieces, i) = start[i]
  BY <1>1 DEF StartOf
<1>4. some = step(some)
  <2>1. ASSUME NEW k \in 1..n
        PROVE  f[k - 1] = IF k = 1 THEN 0 ELSE some[k - 1] + Width(pieces[k - 1]) + 2
    <3>1. CASE k = 1
      <4>1. k - 1 = 0
        BY <3>1
      <4> QED
        BY <3>1, <4>1, <1>2
    <3>2. CASE k # 1
      <4>1. k - 1 \in 1..n /\ (k - 1) - 1 \in 0..n
        BY <3>2, <1>1
      <4>2. f[k - 1] = f[(k - 1) - 1] + w(k - 1)
        BY <4>1, <1>2
      <4>3. some[k - 1] = f[(k - 1) - 1] /\ f[(k - 1) - 1] \in Nat
        BY <4>1, <1>2
      <4>4. Width(pieces[k - 1]) \in Nat
        BY <4>1, <1>1, WidthIs
      <4>5. w(k - 1) = Width(pieces[k - 1]) + 2
        OBVIOUS
      <4> HIDE DEF some, w
      <4>6. f[k - 1] = some[k - 1] + Width(pieces[k - 1]) + 2
        BY <4>2, <4>3, <4>4, <4>5
      <4> QED
        BY <3>2, <4>6
    <3> QED
      BY <3>1, <3>2
  <2> QED
    BY <2>1
<1>5. start = step(start)
  <2> HIDE DEF step, some
  <2> QED
    BY <1>4
<1> HIDE DEF start, w
<1> DEFINE T == {k \in Nat : k + 1 \in 1..n => start[k + 1] = f[k]}
<1>6. 0 \in T
  <2> SUFFICES ASSUME 1 \in 1..n
               PROVE  start[1] = f[0]
    OBVIOUS
  <2>1. start[1] = step(start)[1]
    BY <1>5
  <2> QED
    BY <2>1, <1>2
<1>7. ASSUME NEW k \in Nat, k \in T
      PROVE  k + 1 \in T
  <2> SUFFICES ASSUME (k + 1) + 1 \in 1..n
               PROVE  start[(k + 1) + 1] = f[k + 1]
    OBVIOUS
  <2>1. k + 1 \in 1..n /\ (k + 1) - 1 = k /\ ((k + 1) + 1) - 1 = k + 1 /\ (k + 1) + 1 # 1 /\ k \in 0..n
    BY <1>1
  <2>2. start[k + 1] = f[k]
    BY <1>7, <2>1
  <2>3. start[(k + 1) + 1] = step(start)[(k + 1) + 1]
    BY <1>5
  <2>4. start[(k + 1) + 1] = start[k + 1] + Width(pieces[k + 1]) + 2
    BY <2>1, <2>3
  <2>5. f[k + 1] = f[k] + w(k + 1)
    BY <2>1, <1>2
  <2>6. f[k] \in Nat /\ Width(pieces[k + 1]) \in Nat
    BY <2>1, <1>1, <1>2, WidthIs
  <2> QED
    BY <2>2, <2>4, <2>5, <2>6 DEF w
<1> HIDE DEF T, step
<1>8. \A k \in Nat : k \in T
  BY <1>6, <1>7, Induction
<1>9. \A i \in 1..n : start[i] = f[i - 1] /\ f[i - 1] \in Nat
  <2> TAKE i \in 1..n
  <2>1. i - 1 \in Nat /\ (i - 1) + 1 = i /\ i - 1 \in 0..n
    BY <1>1
  <2>2. i - 1 \in T
    BY <2>1, <1>8
  <2> QED
    BY <2>1, <2>2, <1>2 DEF T
<1> DEFINE U == {j \in Nat : j <= n => \A i \in 0..j : f[i] <= f[j]}
<1>10. 0 \in U
  <2>1. \A i \in 0..0 : i = 0
    OBVIOUS
  <2> QED
    BY <2>1, <1>2
<1>11. ASSUME NEW j \in Nat, j \in U
       PROVE  j + 1 \in U
  <2> SUFFICES ASSUME j + 1 <= n, NEW i \in 0..(j + 1)
               PROVE  f[i] <= f[j + 1]
    OBVIOUS
  <2>1. j \in 0..n /\ j + 1 \in 1..n /\ (j + 1) - 1 = j /\ j <= n
    BY <1>1
  <2>2. f[j + 1] = f[j] + w(j + 1) /\ f[j] \in Nat /\ w(j + 1) \in Nat
    BY <2>1, <1>1, <1>2
  <2>3. CASE i = j + 1
    BY <2>2, <2>3
  <2>4. CASE i \in 0..j
    <3>1. f[i] <= f[j] /\ f[i] \in Nat
      <4>1. i \in 0..n
        BY <2>1, <2>4, <1>1
      <4> QED
        BY <2>1, <2>4, <4>1, <1>2, <1>11
    <3> QED
      BY <2>2, <3>1
  <2> QED
    BY <2>3, <2>4
<1> HIDE DEF U
<1>12. \A j \in Nat : j \in U
  BY <1>10, <1>11, Induction
<1>13. ASSUME NEW i \in 1..n, NEW j \in 1..n, i < j
       PROVE  start[i] + Width(pieces[i]) <= start[j]
  <2>1. i \in 0..(j - 1) /\ j - 1 \in Nat /\ j - 1 <= n /\ j - 1 \in 0..n /\ i \in 0..n
    BY <1>1, <1>13
  <2>2. f[i] <= f[j - 1]
    <3>1. j - 1 \in U
      BY <2>1, <1>12
    <3> QED
      BY <2>1, <3>1 DEF U
  <2>3. f[i] = f[i - 1] + w(i) /\ f[i - 1] \in Nat /\ f[j - 1] \in Nat /\ Width(pieces[i]) \in Nat
    BY <2>1, <1>1, <1>2, <1>9, WidthIs
  <2>4. start[i] = f[i - 1] /\ start[j] = f[j - 1]
    BY <1>9
  <2> QED
    BY <2>2, <2>3, <2>4 DEF w
<1> QED
  BY <1>3, <1>9, <1>13 DEF n

LEMMA SegmentIs ==
    ASSUME NEW pieces \in Seq(Nat), NEW i \in 1..Len(pieces)
    PROVE  LET s == Segment(pieces, i) IN
           /\ s \in Segments /\ Len(s.text) = pieces[i] /\ Increases(s.text)
           /\ s.start = StartOf(pieces, i) /\ s.end = StartOf(pieces, i) + Width(pieces[i])
           /\ \A k \in 1..Len(s.text) : s.start <= s.text[k] /\ s.text[k] < s.end
<1> DEFINE s == Segment(pieces, i)
           n == pieces[i]
           b == StartOf(pieces, i)
           w == Width(n)
           text == [k \in 1..n |-> b + 2 * (k - 1)]
<1>1. n \in Nat /\ b \in Nat
  BY StartsInOrder
<1>2. w \in Nat /\ \A k \in 1..n : 2 * (k - 1) \in Nat /\ 2 * (k - 1) < w
  BY <1>1, WidthIs
<1>3. s.text = text /\ s.start = b /\ s.end = b + w /\ s = [text |-> text, start |-> b, end |-> b + w]
  BY DEF Segment
<1> HIDE DEF n, b, w, s
<1>4. text \in [1..n -> Nat] /\ \A k \in 1..n : text[k] = b + 2 * (k - 1)
  BY <1>1, <1>2
<1> HIDE DEF text
<1>5. text \in Seq(Nat) /\ Len(text) = n
  BY <1>1, <1>4, FunctionIsSequence
<1>6. s \in Segments
  BY <1>1, <1>2, <1>3, <1>5 DEF Segments
<1>7. Increases(text)
  <2> SUFFICES ASSUME NEW j \in 1..n, NEW k \in 1..n, j < k
               PROVE  text[j] < text[k]
    BY <1>5 DEF Increases
  <2>1. text[j] = b + 2 * (j - 1) /\ text[k] = b + 2 * (k - 1)
    BY <1>4
  <2> QED
    BY <2>1, <1>1
<1>8. \A k \in 1..n : b <= text[k] /\ text[k] < b + w
  <2> TAKE k \in 1..n
  <2>1. text[k] = b + 2 * (k - 1) /\ 2 * (k - 1) \in Nat /\ 2 * (k - 1) < w
    BY <1>2, <1>4
  <2> DEFINE d == 2 * (k - 1)
  <2>2. text[k] = b + d /\ d \in Nat /\ d < w
    BY <2>1
  <2> HIDE DEF d
  <2> QED
    BY <2>2, <1>1, <1>2
<1> QED
  BY <1>3, <1>5, <1>6, <1>7, <1>8 DEF s, n, b, w

\* SplitParagraphs keeps the pieces that have tokens.
LEMMA ParagraphsAre ==
    ASSUME NEW pieces \in Seq(Nat)
    PROVE  LET segs == SplitParagraphs(pieces) IN
           /\ segs \in Seq(Segments) /\ InOrder(segs)
           /\ \A i \in 1..Len(segs) : \E j \in DOMAIN pieces : segs[i] = Segment(pieces, j)
           /\ \A x \in Nat : IsToken(segs, x) <=> x \in TokensOf(pieces)
<1> DEFINE n == Len(pieces)
           all == [i \in DOMAIN pieces |-> Segment(pieces, i)]
           K == {i \in DOMAIN pieces : pieces[i] # 0}
           segs == SplitParagraphs(pieces)
<1>1. n \in Nat /\ DOMAIN pieces = 1..n /\ \A i \in 1..n : pieces[i] \in Nat
  OBVIOUS
<1>2. \A i \in 1..n : LET s == Segment(pieces, i) IN
           /\ s \in Segments /\ Len(s.text) = pieces[i] /\ Increases(s.text)
           /\ s.start = StartOf(pieces, i) /\ s.end = StartOf(pieces, i) + Width(pieces[i])
           /\ \A k \in 1..Len(s.text) : s.start <= s.text[k] /\ s.text[k] < s.end
  BY SegmentIs
<1>3. all \in Seq(Segments) /\ Len(all) = n /\ DOMAIN all = 1..n /\ \A i \in 1..n : all[i] = Segment(pieces, i)
  <2>1. all \in [1..n -> Segments]
    BY <1>1, <1>2
  <2>2. \A i \in 1..n : all[i] = Segment(pieces, i)
    BY <1>1
  <2> HIDE DEF all, n
  <2> QED
    BY <2>1, <2>2, <1>1, FunctionIsSequence
<1>4. segs = Picked(all, K)
  <2>1. [i \in DOMAIN pieces |-> IF pieces[i] = 0 THEN << >> ELSE << Segment(pieces, i) >>]
        = [i \in DOMAIN all |-> IF i \in K THEN << all[i] >> ELSE << >>]
    BY <1>1
  <2> HIDE DEF all, K
  <2> QED
    BY <2>1 DEF SplitParagraphs, Picked
<1> HIDE DEF segs, all, n
<1>5. segs \in Seq(Segments)
  BY <1>3, <1>4, PickedInOrder
<1>6. PICK p : Picks(p, segs, all, K)
  BY <1>3, <1>4, PickedInOrder
<1>7. /\ \A i \in 1..Len(segs) : p[i] \in 1..n /\ p[i] \in K /\ segs[i] = Segment(pieces, p[i])
      /\ \A i, j \in 1..Len(segs) : i < j => p[i] < p[j]
      /\ \A k \in K : \E i \in 1..Len(segs) : p[i] = k
  <2>1. \A i \in 1..Len(segs) : p[i] \in DOMAIN all /\ p[i] \in K /\ segs[i] = all[p[i]]
    BY <1>6 DEF Picks
  <2>2. \A k \in K : k \in DOMAIN all
    BY <1>1, <1>3
  <2> HIDE DEF K
  <2> QED
    BY <2>1, <2>2, <1>3, <1>6 DEF Picks
<1>8. InOrder(segs)
  <2>1. ASSUME NEW i \in 1..Len(segs)
        PROVE  /\ Len(segs[i].text) >= 1 /\ Increases(segs[i].text)
               /\ \A k \in 1..Len(segs[i].text) : segs[i].start <= segs[i].text[k] /\ segs[i].text[k] < segs[i].end
    <3>1. p[i] \in 1..n /\ p[i] \in K /\ segs[i] = Segment(pieces, p[i])
      BY <1>7
    <3>2. pieces[p[i]] \in Nat /\ pieces[p[i]] # 0
      BY <1>1, <3>1
    <3> QED
      BY <3>1, <3>2, <1>2
  <2>2. ASSUME NEW i \in 1..Len(segs), NEW j \in 1..Len(segs), i < j
        PROVE  segs[i].end <= segs[j].start
    <3>1. p[i] \in 1..n /\ p[j] \in 1..n /\ p[i] < p[j]
      BY <1>7, <2>2
    <3>2. /\ segs[i].end = StartOf(pieces, p[i]) + Width(pieces[p[i]])
          /\ segs[j].start = StartOf(pieces, p[j])
      BY <1>2, <1>7
    <3> QED
      BY <3>1, <3>2, StartsInOrder DEF n
  <2> QED
    BY <2>1, <2>2 DEF InOrder
<1>9. \A i \in 1..Len(segs) : \E j \in DOMAIN pieces : segs[i] = Segment(pieces, j)
  BY <1>1, <1>7
<1>10. ASSUME NEW x \in Nat, IsToken(segs, x)
       PROVE  x \in TokensOf(pieces)
  <2>1. PICK i \in 1..Len(segs) : \E k \in 1..Len(segs[i].text) : segs[i].text[k] = x
    BY <1>10 DEF IsToken
  <2>2. PICK k \in 1..Len(segs[i].text) : segs[i].text[k] = x
    BY <2>1
  <2>3. p[i] \in 1..n /\ segs[i] = Segment(pieces, p[i]) /\ segs[i] \in Segments
    BY <1>5, <1>7
  <2>4. segs[i].text \in Seq(Nat)
    BY <2>3 DEF Segments
  <2>5. x \in Range(segs[i].text)
    BY <2>2, <2>4 DEF Range
  <2> QED
    BY <2>3, <2>5, <1>1 DEF TokensOf
<1>11. ASSUME NEW x \in Nat, x \in TokensOf(pieces)
       PROVE  IsToken(segs, x)
  <2>1. PICK j \in 1..n : x \in Range(Segment(pieces, j).text)
    BY <1>1, <1>11 DEF TokensOf
  <2>2. Segment(pieces, j) \in Segments /\ Len(Segment(pieces, j).text) = pieces[j]
    BY <1>2
  <2>3. Segment(pieces, j).text \in Seq(Nat)
    BY <2>2 DEF Segments
  <2>4. PICK k \in 1..Len(Segment(pieces, j).text) : Segment(pieces, j).text[k] = x
    BY <2>1, <2>3 DEF Range
  <2>5. pieces[j] # 0
    BY <2>2, <2>4
  <2>6. PICK i \in 1..Len(segs) : p[i] = j
    BY <2>5, <1>1, <1>7
  <2>7. segs[i] = Segment(pieces, j)
    BY <2>6, <1>7
  <2> QED
    BY <2>4, <2>7 DEF IsToken
<1> QED
  BY <1>5, <1>8, <1>9, <1>10, <1>11 DEF segs

\* A chunk of the block, in the offsets of the source.
Shifted(c, raw, base) ==
    c.text = raw.text /\ c.start = base + raw.start /\ c.end = base + raw.end /\ c.count = raw.count

IsSized(c, b, config) ==
    LET repeated == Repeated(c, b.base) IN
    /\ c.count = Len(c.text) /\ Len(c.text) - Len(repeated) <= config.max
    /\ Len(repeated) <= config.overlap \/ \E i \in DOMAIN b.pieces : repeated = Segment(b.pieces, i).text

LEMMA ShiftedTells ==
    ASSUME NEW b, b.base \in Nat, b.pieces \in Seq(Nat), NEW config, NEW raw \in RawChunks, NEW r \in Nat,
           Fine(raw, r, SplitParagraphs(b.pieces), config), NEW c, Shifted(c, raw, b.base)
    PROVE  TellsItsRange(c, b) /\ Repeated(c, b.base) = SubSeq(raw.text, 1, r) /\ IsSized(c, b, config)
<1> DEFINE segs == SplitParagraphs(b.pieces)
           t == raw.text
           n == Len(t)
           base == b.base
           tokens == TokensOf(b.pieces)
           from == {k \in DOMAIN c.text : base + c.text[k] >= c.start}
           own == OwnFrom(c, base)
<1>1. t \in Seq(Nat) /\ raw.start \in Nat /\ raw.end \in Nat
  BY DEF RawChunks
<1>2. n \in Nat /\ DOMAIN t = 1..n /\ \A k \in 1..n : t[k] \in Nat
  BY <1>1
<1>3. c.text = t /\ c.start = base + raw.start /\ c.end = base + raw.end /\ c.count = raw.count
  BY DEF Shifted
<1>4. /\ \A x \in Nat : IsToken(segs, x) <=> x \in tokens
      /\ \A i \in 1..Len(segs) : \E j \in DOMAIN b.pieces : segs[i] = Segment(b.pieces, j)
  BY ParagraphsAre
<1>5. SaysRange(raw, r, segs) /\ IsBounded(raw, r, segs, config)
  BY DEF Fine
<1>16. base \in Nat
  OBVIOUS
<1> HIDE DEF segs
<1>6. /\ r < n
      /\ \A k \in 1..n : t[k] \in tokens /\ t[k] < raw.end /\ (raw.start <= t[k] <=> r < k)
      /\ \A j, k \in 1..n : r < j /\ j < k => t[j] < t[k]
      /\ \A x \in Nat : x \in tokens /\ raw.start <= x /\ x < raw.end => \E k \in 1..n : t[k] = x
  BY <1>2, <1>4, <1>5 DEF SaysRange
<1>7. /\ raw.count = n /\ n - r <= config.max
      /\ r <= config.overlap \/ \E i \in 1..Len(segs) : SubSeq(t, 1, r) = segs[i].text
  BY <1>5 DEF IsBounded
<1>8. \A x \in tokens : x \in Nat
  <2> TAKE x \in tokens
  <2>1. PICK i \in DOMAIN b.pieces : x \in Range(Segment(b.pieces, i).text)
    BY DEF TokensOf
  <2>2. i \in 1..Len(b.pieces)
    OBVIOUS
  <2>3. Segment(b.pieces, i) \in Segments
    BY <2>2, SegmentIs
  <2>4. Segment(b.pieces, i).text \in Seq(Nat)
    BY <2>3 DEF Segments
  <2> QED
    BY <2>1, <2>4 DEF Range
<1> HIDE DEF t, n, base, tokens
<1>9. from = (r + 1)..n
  <2>1. \A k \in 1..n : base + t[k] >= base + raw.start <=> r < k
    <3> TAKE k \in 1..n
    <3>1. t[k] \in Nat /\ (raw.start <= t[k] <=> r < k)
      BY <1>2, <1>6
    <3>2. base + t[k] >= base + raw.start <=> raw.start <= t[k]
      BY <3>1, <1>1, <1>16
    <3> QED
      BY <3>1, <3>2
  <2>2. from = {k \in 1..n : r < k}
    BY <2>1, <1>2, <1>3
  <2>3. {k \in 1..n : r < k} = (r + 1)..n
    BY <1>2
  <2> QED
    BY <2>2, <2>3
<1>10. own = r + 1
  <2>1. own = Min(from)
    BY DEF OwnFrom
  <2>2. from \subseteq Nat /\ from # {} /\ r + 1 \in from
    <3>1. r + 1 \in (r + 1)..n /\ (r + 1)..n \subseteq Nat
      BY <1>2, <1>6
    <3> HIDE DEF from
    <3> QED
      BY <3>1, <1>9
  <2> HIDE DEF from, own
  <2>3. Min(from) \in from /\ Min(from) <= r + 1
    BY <2>2, MinIs
  <2> QED
    BY <2>1, <2>3, <1>9, <1>2
<1>11. Repeated(c, base) = SubSeq(t, 1, r)
  <2>1. own - 1 = r
    BY <1>10
  <2> QED
    BY <2>1, <1>3 DEF Repeated
<1> HIDE DEF from, own
<1>12. Len(SubSeq(t, 1, r)) = r
  BY <1>1, <1>2, <1>6 DEF n
<1>13. IsSized(c, b, config)
  BY <1>3, <1>4, <1>7, <1>11, <1>12 DEF IsSized, base, n
<1>14. {base + t[k] : k \in (r + 1)..n} = {base + x : x \in tokens} \cap (c.start..(c.end - 1))
  <2>1. ASSUME NEW k \in (r + 1)..n
        PROVE  t[k] \in tokens /\ base + t[k] \in c.start..(c.end - 1)
    <3>1. k \in 1..n /\ r < k
      BY <1>2
    <3>2. t[k] \in tokens /\ t[k] < raw.end /\ raw.start <= t[k] /\ t[k] \in Nat
      BY <3>1, <1>2, <1>6
    <3> QED
      BY <3>2, <1>1, <1>3, <1>16
  <2>2. ASSUME NEW x \in tokens, base + x \in c.start..(c.end - 1)
        PROVE  \E k \in (r + 1)..n : t[k] = x
    <3>1. x \in Nat
      BY <1>8
    <3>2. raw.start <= x /\ x < raw.end
      BY <2>2, <3>1, <1>1, <1>3, <1>16
    <3>3. PICK k \in 1..n : t[k] = x
      BY <3>1, <3>2, <1>6
    <3>4. r < k
      BY <3>2, <3>3, <1>6
    <3> QED
      BY <3>3, <3>4, <1>2
  <2> QED
    BY <2>1, <2>2
<1>15. TellsItsRange(c, b)
  <2>1. \E k \in 1..n : base + t[k] >= c.start
    <3>1. r + 1 \in 1..n /\ r < r + 1
      BY <1>2, <1>6
    <3>2. raw.start <= t[r + 1] /\ t[r + 1] \in Nat
      BY <3>1, <1>2, <1>6
    <3>3. base + t[r + 1] >= c.start
      BY <3>2, <1>1, <1>3, <1>16
    <3> QED
      BY <3>1, <3>3
  <2>2. \A j, k \in (r + 1)..n : j < k => base + t[j] < base + t[k]
    <3> TAKE j, k \in (r + 1)..n
    <3> HAVE j < k
    <3>1. j \in 1..n /\ k \in 1..n /\ r < j
      BY <1>2
    <3>2. t[j] < t[k] /\ t[j] \in Nat /\ t[k] \in Nat
      BY <3>1, <1>2, <1>6
    <3> QED
      BY <3>2, <1>16
  <2> QED
    BY <2>1, <2>2, <1>2, <1>3, <1>10, <1>14 DEF TellsItsRange, own, base, n, tokens
<1> QED
  BY <1>11, <1>13, <1>15 DEF base, t

DocChunks == [text : Seq(Nat), start : Nat, end : Nat, count : Nat, block : Nat, local : Nat]

\* What the chunks of one block promise, and each of them to the one before it.
ChunkFits(chunks, k, b, index, config) ==
    /\ chunks[k].block = index /\ chunks[k].local = k
    /\ TellsItsRange(chunks[k], b) /\ IsSized(chunks[k], b, config)
    /\ k = 1 => Repeated(chunks[k], b.base) = << >>
    /\ k > 1 => /\ chunks[k - 1].end <= chunks[k].start
                /\ Repeated(chunks[k], b.base) \in Suffixes(chunks[k - 1].text)

BlockFits(chunks, b, index, config) ==
    /\ \A k \in 1..Len(chunks) : ChunkFits(chunks, k, b, index, config)
    /\ \A t \in TokensOf(b.pieces) : \E k \in 1..Len(chunks) : b.base + t \in chunks[k].start..(chunks[k].end - 1)

LEMMA BlockTells ==
    ASSUME NEW b, b.base \in Nat, b.pieces \in Seq(Nat), NEW index \in Nat,
           NEW config \in Configs, config.overlap < config.max
    PROVE  /\ ChunkTextBlock(b, index, config) \in Seq(DocChunks)
           /\ BlockFits(ChunkTextBlock(b, index, config), b, index, config)
<1> DEFINE segs == SplitParagraphs(b.pieces)
           raw == MergeSegments(segs, config)
           chunks == ChunkTextBlock(b, index, config)
           base == b.base
           n == Len(raw)
<1>1. segs \in Seq(Segments) /\ InOrder(segs)
  BY ParagraphsAre
<1>2. \A x \in Nat : IsToken(segs, x) <=> x \in TokensOf(b.pieces)
  BY ParagraphsAre
<1>3. config.max >= 1
  BY DEF Configs
<1>4. raw \in Seq(RawChunks) /\ Lists(raw, segs, config, Len(segs))
  <2> HIDE DEF segs
  <2> QED
    BY <1>1, <1>3, MergedList
<1>5. chunks = [k \in DOMAIN raw |->
        [text |-> raw[k].text, start |-> base + raw[k].start, end |-> base + raw[k].end,
         count |-> raw[k].count, block |-> index, local |-> k]]
  BY DEF ChunkTextBlock
<1>16. base \in Nat
  OBVIOUS
<1> HIDE DEF segs, raw, chunks, base
<1>6. n \in Nat /\ DOMAIN raw = 1..n /\ \A k \in 1..n : raw[k] \in RawChunks
  BY <1>4
<1>7. \A k \in 1..n : raw[k].text \in Seq(Nat) /\ raw[k].start \in Nat /\ raw[k].end \in Nat /\ raw[k].count \in Nat
  BY <1>6 DEF RawChunks
<1>8. chunks \in Seq(DocChunks) /\ Len(chunks) = n
  <2>1. chunks \in [1..n -> DocChunks]
    BY <1>5, <1>6, <1>7, <1>16 DEF DocChunks
  <2> HIDE DEF n
  <2> QED
    BY <2>1, <1>6, FunctionIsSequence
<1>9. \A k \in 1..n : /\ Shifted(chunks[k], raw[k], base) /\ chunks[k].block = index /\ chunks[k].local = k
                      /\ chunks[k].text = raw[k].text
                      /\ chunks[k].start = base + raw[k].start /\ chunks[k].end = base + raw[k].end
  BY <1>5, <1>6 DEF Shifted
<1> HIDE DEF n
<1>10. ASSUME NEW k \in 1..n
       PROVE  ChunkFits(chunks, k, b, index, config)
  <2>1. PICK r \in Nat : Fine(raw[k], r, segs, config) /\ (k = 1 => r = 0) /\ (k > 1 => Follows(raw[k - 1], raw[k], r))
    BY <1>4 DEF Lists, Chained, n
  <2>2. /\ TellsItsRange(chunks[k], b) /\ Repeated(chunks[k], base) = SubSeq(raw[k].text, 1, r)
        /\ IsSized(chunks[k], b, config)
    <3>1. raw[k] \in RawChunks /\ Shifted(chunks[k], raw[k], base)
      BY <1>6, <1>9
    <3> QED
      BY <2>1, <3>1, ShiftedTells DEF segs, base
  <2>3. ASSUME k = 1
        PROVE  Repeated(chunks[k], base) = << >>
    <3>1. raw[k].text \in Seq(Nat) /\ r = 0
      BY <1>7, <2>1, <2>3
    <3> QED
      BY <2>2, <3>1
  <2>4. ASSUME k > 1
        PROVE  /\ chunks[k - 1].end <= chunks[k].start
               /\ Repeated(chunks[k], base) \in Suffixes(chunks[k - 1].text)
    <3>1. k - 1 \in 1..n
      BY <2>4, <1>6
    <3>2. raw[k - 1].end <= raw[k].start /\ SubSeq(raw[k].text, 1, r) \in Suffixes(raw[k - 1].text)
      BY <2>1, <2>4 DEF Follows
    <3>3. base + raw[k - 1].end <= base + raw[k].start
      <4>1. raw[k - 1].end \in Nat /\ raw[k].start \in Nat
        BY <3>1, <1>7
      <4> QED
        BY <3>2, <4>1, <1>16
    <3>4. /\ chunks[k - 1].end = base + raw[k - 1].end /\ chunks[k].start = base + raw[k].start
          /\ chunks[k - 1].text = raw[k - 1].text
      BY <3>1, <1>9
    <3> QED
      BY <2>2, <3>2, <3>3, <3>4
  <2> QED
    BY <2>2, <2>3, <2>4, <1>9 DEF ChunkFits, base
<1>11. ASSUME NEW t \in TokensOf(b.pieces)
       PROVE  \E k \in 1..n : base + t \in chunks[k].start..(chunks[k].end - 1)
  <2>1. t \in Nat
    <3>1. PICK i \in DOMAIN b.pieces : t \in Range(Segment(b.pieces, i).text)
      BY DEF TokensOf
    <3>2. i \in 1..Len(b.pieces)
      OBVIOUS
    <3>3. Segment(b.pieces, i) \in Segments
      BY <3>2, SegmentIs
    <3>4. Segment(b.pieces, i).text \in Seq(Nat)
      BY <3>3 DEF Segments
    <3> QED
      BY <3>1, <3>4 DEF Range
  <2>2. PICK i \in 1..Len(segs) : \E k \in 1..Len(segs[i].text) : segs[i].text[k] = t
    BY <2>1, <1>2 DEF IsToken
  <2>3. PICK m \in 1..Len(segs[i].text) : segs[i].text[m] = t
    BY <2>2
  <2>4. PICK k \in 1..n : raw[k].start <= t /\ t < raw[k].end
    BY <2>3, <1>4 DEF Lists, Reaches, n
  <2>5. base + raw[k].start <= base + t /\ base + t <= (base + raw[k].end) - 1
    BY <2>1, <2>4, <1>7, <1>16
  <2>6. base + t \in (base + raw[k].start)..((base + raw[k].end) - 1)
    BY <2>1, <2>5, <1>7, <1>16
  <2> QED
    BY <2>6, <1>9
<1>12. BlockFits(chunks, b, index, config)
  BY <1>8, <1>10, <1>11 DEF BlockFits, base
<1> QED
  BY <1>8, <1>12 DEF chunks

\* The chunks of a document are those of its blocks, one block after the other.
LEMMA DocumentIsTold ==
    ASSUME NEW blocks, NEW config, ChunkOK(blocks, config)
    PROVE  /\ RangesTellText(blocks, ChunkDocument(blocks, config))
           /\ SizesBounded(blocks, config, ChunkDocument(blocks, config))
<1> DEFINE n == Len(blocks)
           All == Seq(DocChunks)
           seqs == [index \in DOMAIN blocks |-> ChunkTextBlock(blocks[index], index, config)]
           r == ChunkDocument(blocks, config)
<1>1. blocks \in Seq([base : Nat, pieces : Seq(Nat)]) /\ config \in Configs /\ config.overlap < config.max
  BY DEF ChunkOK, Configs
<1>2. n \in Nat /\ DOMAIN blocks = 1..n /\ \A i \in 1..n : blocks[i] \in [base : Nat, pieces : Seq(Nat)]
  <2> DEFINE Blocks == [base : Nat, pieces : Seq(Nat)]
  <2>1. blocks \in Seq(Blocks)
    BY <1>1
  <2> HIDE DEF Blocks
  <2>2. n \in Nat /\ DOMAIN blocks = 1..n /\ \A i \in 1..n : blocks[i] \in Blocks
    BY <2>1
  <2> QED
    BY <2>2 DEF Blocks
<1>3. \A i \in 1..n : blocks[i].base \in Nat /\ blocks[i].pieces \in Seq(Nat) /\ i \in Nat
  BY <1>2
<1> HIDE DEF n
<1>4. \A i \in 1..n : /\ ChunkTextBlock(blocks[i], i, config) \in All
                      /\ BlockFits(ChunkTextBlock(blocks[i], i, config), blocks[i], i, config)
  BY <1>1, <1>3, BlockTells
<1>5. seqs \in Seq(All) /\ Len(seqs) = n /\ \A i \in 1..n : seqs[i] = ChunkTextBlock(blocks[i], i, config)
  <2> HIDE DEF All
  <2>1. seqs \in [1..n -> All]
    BY <1>2, <1>4
  <2>2. \A i \in 1..n : seqs[i] = ChunkTextBlock(blocks[i], i, config)
    BY <1>2
  <2> HIDE DEF seqs
  <2> QED
    BY <2>1, <2>2, <1>2, FunctionIsSequence
<1>6. r = FlattenSeq(seqs)
  BY DEF ChunkDocument
<1> HIDE DEF seqs, r
<1>7. r \in Seq(DocChunks) /\ \E at : Lays(at, seqs, r)
  BY <1>5, <1>6, FlattenLays
<1>8. PICK at : Lays(at, seqs, r)
  BY <1>7
<1>9. /\ at \in [0..n -> Nat]
      /\ \A i, j \in 0..n : i <= j => at[i] <= at[j]
      /\ \A i \in 1..n : \A k \in 1..Len(seqs[i]) :
            at[i - 1] + k \in 1..Len(r) /\ r[at[i - 1] + k] = seqs[i][k]
      /\ \A p \in 1..Len(r) : \E i \in 1..n : \E k \in 1..Len(seqs[i]) : p = at[i - 1] + k
  BY <1>5, <1>8 DEF Lays
<1>10. Len(r) \in Nat /\ DOMAIN r = 1..Len(r)
  BY <1>7
<1>11. \A i \in 1..n : BlockFits(seqs[i], blocks[i], i, config)
  BY <1>4, <1>5
<1>12. ASSUME NEW p \in 1..Len(r)
       PROVE  /\ TellsItsRange(r[p], blocks[r[p].block]) /\ IsSized(r[p], blocks[r[p].block], config)
              /\ IF p = 1 \/ r[p - 1].block # r[p].block
                 THEN /\ r[p].local = 1 /\ Repeated(r[p], blocks[r[p].block].base) = << >>
                      /\ p > 1 => r[p - 1].block < r[p].block
                 ELSE /\ r[p].local = r[p - 1].local + 1
                      /\ r[p - 1].end <= r[p].start
                      /\ Repeated(r[p], blocks[r[p].block].base) \in Suffixes(r[p - 1].text)
  <2>1. PICK i \in 1..n : \E k \in 1..Len(seqs[i]) : p = at[i - 1] + k
    BY <1>9
  <2>2. PICK k \in 1..Len(seqs[i]) : p = at[i - 1] + k
    BY <2>1
  <2>3. r[p] = seqs[i][k]
    BY <2>2, <1>9
  <2>4. ChunkFits(seqs[i], k, blocks[i], i, config)
    BY <1>11 DEF BlockFits
  <2>5. r[p].block = i /\ r[p].local = k /\ TellsItsRange(r[p], blocks[i]) /\ IsSized(r[p], blocks[i], config)
    BY <2>3, <2>4 DEF ChunkFits
  <2>6. i - 1 \in 0..n /\ at[i - 1] \in Nat /\ k \in Nat /\ i \in Nat
    <3>1. i - 1 \in 0..n /\ i \in Nat
      BY <1>2
    <3>2. at[i - 1] \in Nat
      BY <3>1, <1>9
    <3>3. k \in Nat
      OBVIOUS
    <3> QED
      BY <3>1, <3>2, <3>3
  <2>7. CASE k > 1
    <3>1. k - 1 \in 1..Len(seqs[i]) /\ p - 1 = at[i - 1] + (k - 1) /\ p # 1
      BY <2>2, <2>6, <2>7
    <3>2. r[p - 1] = seqs[i][k - 1]
      BY <3>1, <1>9
    <3>3. ChunkFits(seqs[i], k - 1, blocks[i], i, config)
      BY <3>1, <1>11 DEF BlockFits
    <3>4. r[p - 1].block = i /\ r[p - 1].local = k - 1
      BY <3>2, <3>3 DEF ChunkFits
    <3>5. r[p - 1].end <= r[p].start /\ Repeated(r[p], blocks[i].base) \in Suffixes(r[p - 1].text)
      BY <2>3, <2>4, <2>7, <3>2 DEF ChunkFits
    <3>6. (k - 1) + 1 = k
      BY <2>6
    <3> QED
      BY <2>5, <3>1, <3>4, <3>5, <3>6
  <2>8. CASE k = 1
    <3>1. r[p].local = 1 /\ Repeated(r[p], blocks[i].base) = << >>
      BY <2>3, <2>4, <2>8 DEF ChunkFits
    <3>2. ASSUME p # 1
          PROVE  r[p - 1].block < r[p].block
      <4>1. p - 1 \in 1..Len(r) /\ p - 1 = at[i - 1]
        BY <3>2, <2>2, <2>6, <2>8, <1>10
      <4>2. PICK j \in 1..n : \E m \in 1..Len(seqs[j]) : p - 1 = at[j - 1] + m
        BY <4>1, <1>9
      <4>3. PICK m \in 1..Len(seqs[j]) : p - 1 = at[j - 1] + m
        BY <4>2
      <4>4. r[p - 1] = seqs[j][m]
        BY <4>3, <1>9
      <4>5. ChunkFits(seqs[j], m, blocks[j], j, config)
        BY <1>11 DEF BlockFits
      <4>6. r[p - 1].block = j
        BY <4>4, <4>5 DEF ChunkFits
      <4>7. j - 1 \in 0..n /\ at[j - 1] \in Nat /\ m \in Nat /\ m >= 1 /\ j \in Nat
        <5>1. j - 1 \in 0..n
          BY <1>2
        <5> QED
          BY <5>1, <1>9
      <4>8. ~(i - 1 <= j - 1)
        <5>1. i - 1 <= j - 1 => at[i - 1] <= at[j - 1]
          BY <2>6, <4>7, <1>9
        <5>2. at[j - 1] < at[i - 1]
          BY <4>1, <4>3, <4>7, <2>6
        <5> QED
          BY <5>1, <5>2, <4>7, <2>6
      <4>9. j < i
        BY <4>7, <4>8, <2>6
      <4> QED
        BY <4>6, <4>9, <2>5
    <3>3. r[p].block \in Nat
      BY <2>5, <2>6
    <3>4. p # 1 => ~(r[p].block = r[p - 1].block)
      <4>1. \A x \in Nat : ~(x < x)
        OBVIOUS
      <4> QED
        BY <4>1, <3>2, <3>3
    <3> QED
      BY <2>5, <3>1, <3>2, <3>4
  <2> QED
    BY <2>6, <2>7, <2>8
<1>13. ASSUME NEW index \in DOMAIN blocks, NEW t \in TokensOf(blocks[index].pieces)
       PROVE  \E p \in DOMAIN r : r[p].block = index /\ blocks[index].base + t \in r[p].start..(r[p].end - 1)
  <2>1. index \in 1..n
    BY <1>2
  <2>2. PICK k \in 1..Len(seqs[index]) :
            blocks[index].base + t \in seqs[index][k].start..(seqs[index][k].end - 1)
    BY <2>1, <1>11 DEF BlockFits
  <2>3. at[index - 1] + k \in 1..Len(r) /\ r[at[index - 1] + k] = seqs[index][k]
    BY <2>1, <1>9
  <2>4. seqs[index][k].block = index
    BY <2>1, <1>11 DEF BlockFits, ChunkFits
  <2> QED
    BY <2>2, <2>3, <2>4, <1>10
<1>14. RangesTellText(blocks, r)
  BY <1>10, <1>12, <1>13 DEF RangesTellText
<1>15. SizesBounded(blocks, config, r)
  BY <1>10, <1>12 DEF SizesBounded, IsSized
<1> QED
  BY <1>14, <1>15 DEF r

-----------------------------------------------------------------------------
(* The tasks (module Analysis)                                             *)

AnalysisInv ==
    /\ \/ task \in ChunkTasks
       \/ task \in SearchTasks
       \/ task \in LocalTasks
       \/ task \in MessageTasks
       \/ task \in PayloadTasks
       \/ task \in ExtractTasks
       \/ task \in CompareTasks
       \/ task \in AgentTasks
    /\ result = Pending \/ result = [done |-> TRUE, value |-> Outcome(task)]

\* The task stays the one that was chosen, and a result is its outcome.
LEMMA AlwaysComputed == Spec => []AnalysisInv
<1>1. Init => AnalysisInv
  BY DEF Init, AnalysisInv
<1>2. AnalysisInv /\ [Next]_vars => AnalysisInv'
  <2> SUFFICES ASSUME AnalysisInv, [Next]_vars
               PROVE  AnalysisInv'
    OBVIOUS
  <2>1. CASE Compute
    BY <2>1 DEF Compute, AnalysisInv, Outcome
  <2>2. CASE Plan
    BY <2>2 DEF Plan, AnalysisInv, Outcome
  <2>3. CASE UNCHANGED vars
    BY <2>3 DEF vars, AnalysisInv, Outcome
  <2> QED
    BY <2>1, <2>2, <2>3 DEF Next
<1> QED
  BY <1>1, <1>2, PTL DEF Spec

LEMMA DoneIsOutcome ==
    ASSUME AnalysisInv, NEW kind, Done(kind)
    PROVE  task.kind = kind /\ result.value = Outcome(task)
<1>1. task.kind = kind /\ result.done
  BY DEF Done
<1>2. ~Pending.done
  BY DEF Pending
<1>3. result # Pending
  BY <1>1, <1>2
<1>4. result = [done |-> TRUE, value |-> Outcome(task)]
  BY <1>3 DEF AnalysisInv
<1>5. result.value = Outcome(task)
  BY <1>4
<1> QED
  BY <1>1, <1>5

\* The agent is a part of Analysis: what is proved of the agent holds there.
THEOREM AnalysisRunsAgent == Spec => AgentSpec
<1>1. Init => AgentInit
  BY DEF Init
<1>2. [Next]_vars => [AgentNext]_agentVars
  BY DEF Next, Compute, Plan, vars, agentVars
<1> QED
  BY <1>1, <1>2, PTL DEF Spec, AgentSpec

\* The ranges of a document's chunks tell where its text is, what a chunk
\* repeats is the end of the chunk before it, and the sizes are within the
\* limits, whatever the blocks and the configuration (app/processing/chunker.py,
\* chunk_document).
THEOREM ChunksTellTextAlways == Spec => []ChunksTellText
<1>1. ASSUME AnalysisInv, Done("chunk")
      PROVE  /\ RangesTellText(task.blocks, result.value)
             /\ SizesBounded(task.blocks, task.config, result.value)
  <2>1. task.kind = "chunk" /\ result.value = Outcome(task)
    BY <1>1, DoneIsOutcome
  <2>2. task \in ChunkTasks
    BY <1>1, <2>1, TasksHaveTheirKind DEF AnalysisInv
  <2>3. ChunkOK(task.blocks, task.config)
    BY <2>2, TasksHaveTheirData
  <2>4. result.value = ChunkDocument(task.blocks, task.config)
    BY <2>1 DEF Outcome
  <2> QED
    BY <2>3, <2>4, DocumentIsTold
<1>2. AnalysisInv => ChunksTellText
  BY <1>1 DEF ChunksTellText
<1> QED
  BY <1>2, AlwaysComputed, PTL

\* Retrieval shows the best result of each of the best chunks, once each, from
\* the documents asked for, whatever the store returns (app/retrieval/retriever.py,
\* retrieve; app/retrieval/reranker.py, rerank).
THEOREM SearchFindsBestAlways == Spec => []SearchFindsBest
<1>1. ASSUME AnalysisInv, Done("search")
      PROVE  BestOfEach(task.query, task.documents, task.results, task.topK, result.value)
  <2>1. task.kind = "search" /\ result.value = Outcome(task)
    BY <1>1, DoneIsOutcome
  <2>2. task \in SearchTasks
    BY <1>1, <2>1, TasksHaveTheirKind DEF AnalysisInv
  <2>3. SearchOK(task.query, task.results, task.topK)
    BY <2>2, TasksHaveTheirData
  <2>4. result.value = Retrieve(task.query, task.documents, task.results, task.topK)
    BY <2>1 DEF Outcome
  <2> QED
    BY <2>3, <2>4, RetrievedIsBest
<1>2. AnalysisInv => SearchFindsBest
  BY <1>1 DEF SearchFindsBest
<1> QED
  BY <1>2, AlwaysComputed, PTL

\* An accepted answer is grounded, claim by claim, whoever wrote the message; the
\* local model's is refused only where a heading stands above a line and one of
\* them is of several sentences, or a source's own text names a source that is
\* not there, and cites nothing without a term of the query or a marker in the
\* texts (app/answers/citations.py; app/llm/client.py).
THEOREM AnswersAreGroundedAlways == Spec => []AnswersAreGrounded
<1>1. ASSUME AnalysisInv, Done("message")
      PROVE  Grounded(task.message, task.count, result.value)
  <2>1. task.kind = "message" /\ result.value = Outcome(task)
    BY <1>1, DoneIsOutcome
  <2>2. task \in MessageTasks
    BY <1>1, <2>1, TasksHaveTheirKind DEF AnalysisInv
  <2>3. task.message \in Messages /\ task.count \in Nat
    BY <2>2, TasksHaveTheirData
  <2>4. result.value = Generate(task.message, task.count)
    BY <2>1 DEF Outcome
  <2> QED
    BY <2>3, <2>4, GeneratedIsGrounded DEF Messages, Sentences
<1>2. ASSUME AnalysisInv, Done("local")
      PROVE  LocalGrounded(task.query, task.sources, result.value)
  <2>1. task.kind = "local" /\ result.value = Outcome(task)
    BY <1>2, DoneIsOutcome
  <2>2. task \in LocalTasks
    BY <1>2, <2>1, TasksHaveTheirKind DEF AnalysisInv
  <2>3. task.sources \in Seq(Texts)
    BY <2>2, TasksHaveTheirData
  <2>4. result.value = GenerateAnswer(task.query, task.sources)
    BY <2>1 DEF Outcome
  <2> QED
    BY <2>3, <2>4, LocalIsGrounded DEF Texts, Written
<1>3. ASSUME AnalysisInv, Done("local")
      PROVE  LET got == Generate(result.value, Len(task.sources))
                 texts == [n \in DOMAIN task.sources |-> FlattenSeq(task.sources[n])]
                 marked == UNION {Marked(texts[n]) : n \in DOMAIN texts}
             IN  /\ got.outcome = "refused" =>
                        \/ \E n \in DOMAIN task.sources : Split(task.sources[n])
                        \/ \E m \in marked : m \notin 1..Len(task.sources)
                 /\ got.outcome = "answer" => \A n \in Range(got.citations) \ marked : task.query \cap TermsOf(texts[n]) # {}
  <2> DEFINE got == Generate(result.value, Len(task.sources))
             texts == [n \in DOMAIN task.sources |-> FlattenSeq(task.sources[n])]
             marked == UNION {Marked(FlattenSeq(task.sources[n])) : n \in DOMAIN task.sources}
  <2>1. /\ got.outcome = "refused" =>
               \/ \E n \in DOMAIN task.sources : Split(task.sources[n])
               \/ \E m \in marked : m \notin 1..Len(task.sources)
        /\ got.outcome = "answer" => \A n \in Range(got.citations) \ marked :
               task.query \cap TermsOf(FlattenSeq(task.sources[n])) # {}
    BY <1>2, <1>3 DEF LocalGrounded
  <2>2. DOMAIN texts = DOMAIN task.sources /\ \A n \in DOMAIN task.sources : texts[n] = FlattenSeq(task.sources[n])
    OBVIOUS
  <2>3. UNION {Marked(texts[n]) : n \in DOMAIN texts} = marked
    BY <2>2
  <2>4. got.outcome = "answer" => Range(got.citations) \ marked \subseteq DOMAIN task.sources
    <3> DEFINE refs == ExtractSourceRefs(result.value)
    <3> HIDE DEF refs, marked
    <3>1. got.outcome = "answer" => got.citations = refs /\ Range(refs) \subseteq 1..Len(task.sources)
      BY DEF Generate, BuildCitations, Refused, Unanswered, refs
    <3> HIDE DEF got
    <3>2. task \in LocalTasks
      BY <1>3, DoneIsOutcome, TasksHaveTheirKind DEF AnalysisInv
    <3>3. DOMAIN task.sources = 1..Len(task.sources)
      BY <3>2, TasksHaveTheirData
    <3> QED
      BY <3>1, <3>3
  <2> HIDE DEF got, marked
  <2> QED
    BY <2>1, <2>2, <2>3, <2>4 DEF got
<1>4. AnalysisInv => AnswersAreGrounded
  BY <1>1, <1>3 DEF AnswersAreGrounded, Split, Marked, Marks
<1> QED
  BY <1>4, AlwaysComputed, PTL

\* Extracted fields are accepted only with their evidence and a sound confidence,
\* from any client, and
\* those of the local client are, unless it found a list (app/extraction/validators.py
\* and runner.py).
THEOREM AcceptedFieldsAreEvidencedAlways == Spec => []AcceptedFieldsAreEvidenced
<1>1. ASSUME AnalysisInv, Done("payload")
      PROVE  AcceptedIsEvidenced(task.fields, task.schema, task.sources, result.value)
  <2>1. task.kind = "payload" /\ result.value = Outcome(task)
    BY <1>1, DoneIsOutcome
  <2>2. result.value = Validate(task.fields, task.schema, task.sources)
    BY <2>1 DEF Outcome
  <2> QED
    BY <2>2, AcceptedEvidence
<1>2. ASSUME AnalysisInv, Done("extract")
      PROVE  LocalIsAccepted(task.schema, task.sources, result.value, Validate(result.value, task.schema, task.sources))
  <2>1. task.kind = "extract" /\ result.value = Outcome(task)
    BY <1>2, DoneIsOutcome
  <2>2. task \in ExtractTasks
    BY <1>2, <2>1, TasksHaveTheirKind DEF AnalysisInv
  <2>3. IsFiniteSet(DOMAIN task.schema) /\ task.sources \in Seq(Range(task.sources))
    BY <2>2, TasksHaveTheirData
  <2>4. result.value = ExtractJson(task.schema, task.sources)
    BY <2>1 DEF Outcome
  <2> QED
    BY <2>3, <2>4, LocalAccepted
<1>3. AnalysisInv => AcceptedFieldsAreEvidenced
  BY <1>1, <1>2 DEF AcceptedFieldsAreEvidenced
<1> QED
  BY <1>3, AlwaysComputed, PTL

\* A comparison report that raises no flag hides no difference, and the sections
\* of any report agree with each other and with the documents
\* (app/agent/tools/compare.py, app/reports/generator.py).
THEOREM ReportsAreReliableAlways == Spec => []ReportsAreReliable
<1>1. ASSUME AnalysisInv, Done("compare")
      PROVE  /\ NoFlagsNoDifference(task.left, task.right, task.fields, result.value)
             /\ ReportAddsUp(task.left, task.right, result.value)
  <2>1. task.kind = "compare" /\ result.value = Outcome(task)
    BY <1>1, DoneIsOutcome
  <2>2. task \in CompareTasks
    BY <1>1, <2>1, TasksHaveTheirKind DEF AnalysisInv
  <2>3. SideOK(task.left) /\ SideOK(task.right) /\ task.fields \in Seq(DOMAIN NormalKey)
    BY <2>2, TasksHaveTheirData
  <2>4. result.value = Report(Compare(task.left, task.right, task.fields))
    BY <2>1 DEF Outcome
  <2> QED
    BY <2>3, <2>4, NothingHidden, SectionsAgree
<1>2. AnalysisInv => ReportsAreReliable
  BY <1>1 DEF ReportsAreReliable
<1> QED
  BY <1>2, AlwaysComputed, PTL

=============================================================================
