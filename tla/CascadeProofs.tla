--------------------------- MODULE CascadeProofs ---------------------------
(***************************************************************************)
(* Proofs about Cascade, for every number of parents, days and troubles:   *)
(* type correctness, that a parent never passes a child that has not       *)
(* succeeded, and that reports and summaries are about the files of their  *)
(* run.  The lemmas named ...Types show that an action keeps TypeOK, those *)
(* named ...Pass that it keeps PassedInSuccess, those named ...Calm that   *)
(* it keeps CalmRun.                                                       *)
(***************************************************************************)
EXTENDS Cascade, SequenceTheorems, TLAPS

(* The children the trigger tasks before task t have waited for. *)
Awaited == [t \in Tasks \cup {"success"} |->
    CASE t = "generate_task" -> {}
      [] t = "trigger_customers" -> {}
      [] t = "trigger_orders" -> {"customers"}
      [] t = "trigger_report_ready" -> {"customers", "orders"}
      [] OTHER -> Children]

(* The children of the triggers a parent has passed have succeeded, also   *)
(* for a failed one, which may be cleared to go on where it failed.        *)
PassedInSuccess ==
    \A r \in Runs :
        /\ task[r] \in Tasks \cup {"success"} =>
               \A c \in Awaited[task[r]] : child[r][c] = "success"
        /\ task[r] = "failed" => \A c \in Awaited[failedAt[r]] : child[r][c] = "success"

(* The inductive invariant. *)
IInv == TypeOK /\ PassedInSuccess

----------------------------------------------------------------------------
(* Type correctness *)

LEMMA TroubleTypes ==
    ASSUME NEW kind \in TroubleKinds, TypeOK, Trouble(kind)
    PROVE  troubles' \in [TroubleKinds -> Nat] /\ TroubleCount' <= MaxTroubles
<1>1. troubles' \in [TroubleKinds -> Nat]
  BY DEF TypeOK, Trouble, TroubleKinds
<1>2. /\ troubles \in [TroubleKinds -> Nat] /\ TroubleCount < MaxTroubles
      /\ troubles' = [troubles EXCEPT ![kind] = troubles[kind] + 1]
  BY DEF TypeOK, Trouble
<1>3. TroubleCount' = TroubleCount + 1
  BY <1>2 DEF TroubleCount, TroubleKinds
<1>4. TroubleCount \in Nat
  BY <1>2 DEF TroubleCount, TroubleKinds
<1>. QED  BY <1>1, <1>2, <1>3, <1>4, CascadeBounds

LEMMA CalmTypes ==
    ASSUME TypeOK, UNCHANGED troubles
    PROVE  troubles' \in [TroubleKinds -> Nat] /\ TroubleCount' <= MaxTroubles
BY DEF TypeOK, TroubleCount

LEMMA LongerSeqs ==
    ASSUME NEW S, NEW T, S \subseteq T, NEW s \in Seq(S)
    PROVE  s \in Seq(T)
<1>1. s \in [1 .. Len(s) -> T] /\ Len(s) \in Nat
  OBVIOUS
<1>. QED  BY <1>1, SeqDef

LEMMA GenerateTypes ==
    ASSUME TypeOK, NEW r \in Runs, Generate(r)
    PROVE  TypeOK'
<1>1. troubles' \in [TroubleKinds -> Nat] /\ TroubleCount' <= MaxTroubles
  BY TroubleTypes, CalmTypes DEF Generate, Fault, TroubleKinds
<1>2. runOf' \in Seq(Runs) /\ Len(runOf') = Len(runOf) + 1 /\ Len(runOf) \in Nat
  BY DEF TypeOK, Generate
<1>3. 0 .. Len(runOf) \subseteq 0 .. Len(runOf') /\ 1 .. Len(runOf) \subseteq 1 .. Len(runOf')
  BY <1>2
<1>4. gen' \in [Runs -> 0 .. Len(runOf')]
  BY <1>2, <1>3 DEF TypeOK, Generate
<1>5. place' \in [Datasets -> [Days -> 0 .. Len(runOf')]]
  BY <1>3 DEF TypeOK, Generate
<1>6. summary' \in [Runs -> [Datasets -> 0 .. Len(runOf')]]
  BY <1>3 DEF TypeOK, Generate, parentVars
<1>7. ledger' \in Seq([ds : Datasets, gen : 1 .. Len(runOf'), day : Days])
  <2>1. [ds : Datasets, gen : 1 .. Len(runOf), day : Days]
        \subseteq [ds : Datasets, gen : 1 .. Len(runOf'), day : Days]
    BY <1>3
  <2>2. ledger' = ledger /\ ledger \in Seq([ds : Datasets, gen : 1 .. Len(runOf), day : Days])
    BY DEF TypeOK, Generate
  <2>. QED  BY <2>1, <2>2, LongerSeqs
<1>8. generator' \in [Runs -> Datasets \cup {"idle", "done"}]
  BY DEF TypeOK, Generate, Datasets
<1>. QED  BY <1>1, <1>2, <1>4, <1>5, <1>6, <1>7, <1>8
             DEF TypeOK, Generate, parentVars, childVars

LEMMA StartRunTypes ==
    ASSUME TypeOK, NEW r \in Runs, StartRun(r)
    PROVE  TypeOK'
BY CascadeBounds
   DEF TypeOK, StartRun, TroubleCount, TroubleKinds, GoTo, Runs, Days, Datasets,
       Children, Tasks, ChildTasks, Statuses, parentVars, generatorVars, childVars

LEMMA PublishTypes ==
    ASSUME TypeOK, NEW r \in Runs, Publish(r)
    PROVE  TypeOK'
BY CascadeBounds
   DEF TypeOK, Publish, TroubleCount, TroubleKinds, Writing, Runs, Days, Datasets,
       Children, Tasks, ChildTasks, Statuses, parentVars, generatorVars, childVars

LEMMA GenerateDoneTypes ==
    ASSUME TypeOK, NEW r \in Runs, GenerateDone(r)
    PROVE  TypeOK'
BY CascadeBounds
   DEF TypeOK, GenerateDone, TroubleCount, TroubleKinds, GoTo, After, Runs, Days,
       Datasets, Children, Tasks, ChildTasks, Statuses, parentVars, generatorVars,
       childVars

LEMMA GenerateFailsTypes ==
    ASSUME TypeOK, NEW r \in Runs, GenerateFails(r)
    PROVE  TypeOK'
<1>1. troubles' \in [TroubleKinds -> Nat] /\ TroubleCount' <= MaxTroubles
  BY TroubleTypes, CalmTypes DEF GenerateFails, Fault, TroubleKinds
<1>. QED  BY <1>1, CascadeBounds
             DEF TypeOK, GenerateFails, Writing, FailParent, GoTo, Runs, Days,
                 Datasets, Children, Tasks, ChildTasks, Statuses, parentVars,
                 generatorVars, childVars

LEMMA TriggerChildTypes ==
    ASSUME TypeOK, NEW r \in Runs, NEW c \in Children, TriggerChild(r, c)
    PROVE  TypeOK'
BY CascadeBounds
   DEF TypeOK, TriggerChild, TroubleCount, TroubleKinds, CreateChild, FirstTask,
       Runs, Days, Datasets, Children, Tasks, ChildTasks, Statuses, parentVars,
       generatorVars, childVars

LEMMA ChildEndedTypes ==
    ASSUME TypeOK, NEW r \in Runs, NEW c \in Children, ChildEnded(r, c)
    PROVE  TypeOK'
<1>1. task[r] \in Tasks
  BY DEF ChildEnded, Trigger, Children, Tasks
<1>2. /\ task' \in [Runs -> Tasks \cup {"none", "success", "failed"}]
      /\ failedAt' \in [Runs -> Tasks]
      /\ deferred' \in [Runs -> BOOLEAN]
  <2>1. After[task[r]] \in Tasks \cup {"success"}
    BY <1>1 DEF After, Tasks
  <2>2. CASE GoTo(r, After[task[r]]) /\ UNCHANGED failedAt
    BY <1>1, <2>1, <2>2 DEF TypeOK, GoTo
  <2>3. CASE FailParent(r)
    BY <1>1, <2>3 DEF TypeOK, FailParent, GoTo
  <2>. QED  BY <2>2, <2>3 DEF ChildEnded
<1>. QED  BY <1>2 DEF TypeOK, ChildEnded, TroubleCount, generatorVars, childVars

LEMMA SummaryTaskTypes ==
    ASSUME TypeOK, NEW r \in Runs, SummaryTask(r)
    PROVE  TypeOK'
<1>1. troubles' \in [TroubleKinds -> Nat] /\ TroubleCount' <= MaxTroubles
  BY TroubleTypes, CalmTypes DEF SummaryTask, Fault, TroubleKinds
<1>2. summary' \in [Runs -> [Datasets -> 0 .. Len(runOf)]]
  BY DEF TypeOK, SummaryTask
<1>. QED  BY <1>1, <1>2
             DEF TypeOK, SummaryTask, FailParent, GoTo, After, Tasks,
                 generatorVars, childVars

LEMMA RetentionTaskTypes ==
    ASSUME TypeOK, NEW r \in Runs, RetentionTask(r)
    PROVE  TypeOK'
<1>1. troubles' \in [TroubleKinds -> Nat] /\ TroubleCount' <= MaxTroubles
  <2>1. CASE Fault
    BY <2>1, TroubleTypes DEF Fault, TroubleKinds
  <2>2. CASE UNCHANGED troubles
    BY <2>2, CalmTypes
  <2>. QED  BY <2>1, <2>2 DEF RetentionTask, Datasets
<1>2. place' \in [Datasets -> [Days -> 0 .. Len(runOf)]]
  BY DEF TypeOK, RetentionTask
<1>. QED  BY <1>1, <1>2
             DEF TypeOK, RetentionTask, GoTo, After, Tasks, generatorVars,
                 childVars

LEMMA DagrunTimeoutTypes ==
    ASSUME TypeOK, NEW r \in Runs, DagrunTimeout(r)
    PROVE  TypeOK'
<1>1. troubles' \in [TroubleKinds -> Nat] /\ TroubleCount' <= MaxTroubles
  BY TroubleTypes, CalmTypes DEF DagrunTimeout, Fault, TroubleKinds
<1>. QED  BY <1>1, CascadeBounds
             DEF TypeOK, DagrunTimeout, Active, FailParent, GoTo, ChildRuns, Runs,
                 Days, Datasets, Children, Tasks, ChildTasks, Statuses, parentVars,
                 generatorVars, childVars

LEMMA ClearTypes ==
    ASSUME TypeOK, NEW r \in Runs, Clear(r)
    PROVE  TypeOK'
<1>1. troubles' \in [TroubleKinds -> Nat] /\ TroubleCount' <= MaxTroubles
  BY TroubleTypes, CalmTypes DEF Clear, Fault, TroubleKinds
<1>. QED  BY <1>1, CascadeBounds
             DEF TypeOK, Clear, Active, GoTo, Writing, Runs, Days, Datasets,
                 Children, Tasks, ChildTasks, Statuses, parentVars, generatorVars,
                 childVars

LEMMA LoadConfigTypes ==
    ASSUME TypeOK, NEW r \in Runs, NEW d \in Datasets, LoadConfig(r, d)
    PROVE  TypeOK'
<1>1. troubles' \in [TroubleKinds -> Nat] /\ TroubleCount' <= MaxTroubles
  BY TroubleTypes, CalmTypes DEF LoadConfig, Fault, TroubleKinds
<1>2. child' \in [Runs -> [Children -> ChildTasks \cup {"none", "success", "failed"}]]
  <2>1. \E to \in ChildTasks : child' = [child EXCEPT ![r][d] = to]
    BY DEF LoadConfig, Move, ChildTasks
  <2>. QED  BY <2>1 DEF TypeOK, Children, Datasets
<1>3. result' \in [Runs -> [Datasets -> Statuses]]
  <2>1. \/ UNCHANGED result
        \/ \E st \in Statuses : result' = [result EXCEPT ![r][d] = st]
    BY DEF LoadConfig, SetResult, Statuses
  <2>2. CASE UNCHANGED result
    BY <2>2 DEF TypeOK
  <2>3. ASSUME NEW st \in Statuses, result' = [result EXCEPT ![r][d] = st]
        PROVE  result' \in [Runs -> [Datasets -> Statuses]]
    BY <2>3 DEF TypeOK
  <2>. QED  BY <2>1, <2>2, <2>3
<1>. QED  BY <1>1, <1>2, <1>3
             DEF TypeOK, LoadConfig, childUnchanged, parentVars, generatorVars

LEMMA WaitForFileTypes ==
    ASSUME TypeOK, NEW r \in Runs, NEW d \in Datasets, WaitForFile(r, d)
    PROVE  TypeOK'
BY CascadeBounds
   DEF TypeOK, WaitForFile, TroubleCount, TroubleKinds, Move, childUnchanged, Runs,
       Days, Datasets, Children, Tasks, ChildTasks, Statuses, parentVars,
       generatorVars, childVars

LEMMA SensorTimeoutTypes ==
    ASSUME TypeOK, NEW r \in Runs, NEW d \in Datasets, SensorTimeout(r, d)
    PROVE  TypeOK'
BY CascadeBounds
   DEF TypeOK, SensorTimeout, TroubleCount, TroubleKinds, Move, childUnchanged,
       Runs, Days, Datasets, Children, Tasks, ChildTasks, Statuses, parentVars,
       generatorVars, childVars

LEMMA MatchFileTypes ==
    ASSUME TypeOK, NEW r \in Runs, NEW d \in Datasets, MatchFile(r, d)
    PROVE  TypeOK'
<1>1. troubles' \in [TroubleKinds -> Nat] /\ TroubleCount' <= MaxTroubles
  BY TroubleTypes, CalmTypes DEF MatchFile, Fault, TroubleKinds
<1>2. child' \in [Runs -> [Children -> ChildTasks \cup {"none", "success", "failed"}]]
  BY DEF TypeOK, MatchFile, Move, Children, Datasets, ChildTasks
<1>3. matched' \in [Runs -> [Datasets -> Days \cup {0}]]
  BY DEF TypeOK, MatchFile
<1>. QED  BY <1>1, <1>2, <1>3
             DEF TypeOK, MatchFile, childUnchanged, parentVars, generatorVars

LEMMA ProcessTypes ==
    ASSUME TypeOK, NEW r \in Runs, NEW d \in Datasets, Process(r, d)
    PROVE  TypeOK'
<1>1. troubles' \in [TroubleKinds -> Nat] /\ TroubleCount' <= MaxTroubles
  BY TroubleTypes, CalmTypes DEF Process, Fault, TroubleKinds
<1>2. child' \in [Runs -> [Children -> ChildTasks \cup {"none", "success", "failed"}]]
  BY DEF TypeOK, Process, Move, Children, Datasets, ChildTasks
<1>3. matched' \in [Runs -> [Datasets -> Days \cup {0}]]
  BY DEF TypeOK, Process
<1>4. result' \in [Runs -> [Datasets -> Statuses]]
  <2>1. \E st \in Statuses : result' = [result EXCEPT ![r][d] = st]
    BY DEF Process, SetResult, Statuses
  <2>. QED  BY <2>1 DEF TypeOK
<1>5. ledger' \in Seq([ds : Datasets, gen : 1 .. Len(runOf), day : Days])
  <2>1. CASE UNCHANGED ledger
    BY <2>1 DEF TypeOK
  <2>2. ASSUME NEW g, g = (IF matched[r][d] = 0 THEN 0 ELSE place[d][matched[r][d]]), g # 0,
               ledger' = Append(ledger, [ds |-> d, gen |-> g, day |-> today])
        PROVE  ledger' \in Seq([ds : Datasets, gen : 1 .. Len(runOf), day : Days])
    <3>1. g \in 1 .. Len(runOf)
      BY <2>2 DEF TypeOK
    <3>2. [ds |-> d, gen |-> g, day |-> today] \in [ds : Datasets, gen : 1 .. Len(runOf), day : Days]
      BY <3>1 DEF TypeOK
    <3>. QED  BY <2>2, <3>2 DEF TypeOK
  <2>. QED  BY <2>1, <2>2 DEF Process
<1>. QED  BY <1>1, <1>2, <1>3, <1>4, <1>5
             DEF TypeOK, Process, childUnchanged, parentVars, generatorVars

LEMMA ReportResultTypes ==
    ASSUME TypeOK, NEW r \in Runs, NEW d \in Datasets, ReportResult(r, d)
    PROVE  TypeOK'
BY CascadeBounds
   DEF TypeOK, ReportResult, TroubleCount, TroubleKinds, Move, childUnchanged,
       Runs, Days, Datasets, Children, Tasks, ChildTasks, Statuses, parentVars,
       generatorVars, childVars

LEMMA ChildTaskDiesTypes ==
    ASSUME TypeOK, NEW r \in Runs, NEW c \in Children, ChildTaskDies(r, c)
    PROVE  TypeOK'
<1>1. troubles' \in [TroubleKinds -> Nat] /\ TroubleCount' <= MaxTroubles
  BY TroubleTypes, CalmTypes DEF ChildTaskDies, Fault, TroubleKinds
<1>. QED  BY <1>1, CascadeBounds
             DEF TypeOK, ChildTaskDies, ChildRuns, childUnchanged, Runs, Days, Datasets,
                 Children, Tasks, ChildTasks, Statuses, parentVars, generatorVars,
                 childVars

LEMMA WaitForBothTypes ==
    ASSUME TypeOK, NEW r \in Runs, WaitForBoth(r)
    PROVE  TypeOK'
<1>1. troubles' \in [TroubleKinds -> Nat] /\ TroubleCount' <= MaxTroubles
  BY TroubleTypes, CalmTypes DEF WaitForBoth, Fault, TroubleKinds
<1>2. /\ UNCHANGED <<today, task, failedAt, deferred, gen, runOf, generator, place, matched,
                   result, ledger, summary, orphans>>
      /\ \E to \in {"build_report_task", "failed"} :
             child' = [child EXCEPT ![r]["report_ready"] = to]
  BY DEF WaitForBoth, Move, childUnchanged, parentVars, generatorVars
<1>. QED  BY <1>1, <1>2 DEF TypeOK, Children, ChildTasks

LEMMA BuildReportTypes ==
    ASSUME TypeOK, NEW r \in Runs, BuildReport(r)
    PROVE  TypeOK'
BY CascadeBounds
   DEF TypeOK, BuildReport, TroubleCount, TroubleKinds, Move, childUnchanged, Runs,
       Days, Datasets, Children, Tasks, ChildTasks, Statuses, parentVars,
       generatorVars, childVars

LEMMA MidnightTypes ==
    ASSUME TypeOK, Midnight
    PROVE  TypeOK'
<1>1. troubles' \in [TroubleKinds -> Nat] /\ TroubleCount' <= MaxTroubles
  BY TroubleTypes, CalmTypes DEF Midnight, Fault, TroubleKinds
<1>2. today' \in Days
  BY CascadeBounds DEF TypeOK, Midnight, Days
<1>. QED  BY <1>1, <1>2 DEF TypeOK, Midnight, parentVars, generatorVars, childVars

LEMMA ClearStaleFixturesTypes ==
    ASSUME TypeOK, NEW d \in Datasets, ClearStaleFixtures(d)
    PROVE  TypeOK'
<1>1. troubles' \in [TroubleKinds -> Nat] /\ TroubleCount' <= MaxTroubles
  BY TroubleTypes, CalmTypes DEF ClearStaleFixtures, Fault, TroubleKinds
<1>2. place' \in [Datasets -> [Days -> 0 .. Len(runOf)]]
  BY DEF TypeOK, ClearStaleFixtures
<1>. QED  BY <1>1, <1>2
             DEF TypeOK, ClearStaleFixtures, parentVars, generatorVars, childVars

LEMMA InitTypes ==
    ASSUME Init
    PROVE  TypeOK
<1>1. runOf = <<>> /\ ledger = <<>> /\ Len(runOf) = 0
  BY DEF Init
<1>2. runOf \in Seq(Runs) /\ ledger \in Seq([ds : Datasets, gen : 1 .. Len(runOf), day : Days])
  BY <1>1
<1>3. troubles \in [TroubleKinds -> Nat] /\ TroubleCount <= MaxTroubles
  BY CascadeBounds DEF Init, TroubleKinds, TroubleCount
<1>4. 0 \in 0 .. Len(runOf)
  BY <1>1
<1>5. /\ gen \in [Runs -> 0 .. Len(runOf)]
      /\ place \in [Datasets -> [Days -> 0 .. Len(runOf)]]
      /\ summary \in [Runs -> [Datasets -> 0 .. Len(runOf)]]
  BY <1>4 DEF Init
<1>6. today \in Days
  BY CascadeBounds DEF Init, Days
<1>7. /\ task \in [Runs -> Tasks \cup {"none", "success", "failed"}]
      /\ failedAt \in [Runs -> Tasks] /\ deferred \in [Runs -> BOOLEAN]
      /\ generator \in [Runs -> Datasets \cup {"idle", "done"}] /\ orphans \in BOOLEAN
  BY DEF Init, Tasks
<1>8. /\ child \in [Runs -> [Children -> ChildTasks \cup {"none", "success", "failed"}]]
      /\ matched \in [Runs -> [Datasets -> Days \cup {0}]]
      /\ result \in [Runs -> [Datasets -> Statuses]]
  BY DEF Init, Statuses
<1>. QED  BY <1>2, <1>3, <1>5, <1>6, <1>7, <1>8 DEF TypeOK

LEMMA NextTypes ==
    ASSUME TypeOK, [Next]_vars
    PROVE  TypeOK'
<1>1. CASE Next
  BY <1>1, StartRunTypes, GenerateTypes, PublishTypes, GenerateDoneTypes,
     GenerateFailsTypes,
     TriggerChildTypes, ChildEndedTypes, SummaryTaskTypes, RetentionTaskTypes,
     DagrunTimeoutTypes, ClearTypes, LoadConfigTypes, WaitForFileTypes, SensorTimeoutTypes,
     MatchFileTypes, ProcessTypes, ReportResultTypes, ChildTaskDiesTypes, WaitForBothTypes,
     BuildReportTypes, MidnightTypes, ClearStaleFixturesTypes
     DEF Next, Progress, ChildProgress
<1>2. CASE UNCHANGED vars
  BY <1>2 DEF vars, parentVars, generatorVars, childVars, TypeOK, TroubleCount
<1>. QED  BY <1>1, <1>2

----------------------------------------------------------------------------
(* A parent never passes a child that has not succeeded *)

LEMMA ChildMovesPass ==
    ASSUME PassedInSuccess, UNCHANGED task, UNCHANGED failedAt,
           \A r \in Runs, c \in Children :
               child[r][c] = "success" => child'[r][c] = "success",
           TypeOK
    PROVE  PassedInSuccess'
<1>1. \A t \in Tasks \cup {"success"} : Awaited[t] \subseteq Children
  BY DEF Awaited, Children
<1>2. \A r \in Runs : failedAt[r] \in Tasks
  BY DEF TypeOK
<1>. QED  BY <1>1, <1>2 DEF PassedInSuccess

LEMMA ParentMovesPass ==
    ASSUME TypeOK, PassedInSuccess, UNCHANGED child, UNCHANGED failedAt,
           NEW r \in Runs, NEW t \in Tasks \cup {"success"}, GoTo(r, t),
           \A c \in Awaited[t] : child[r][c] = "success"
    PROVE  PassedInSuccess'
<1>1. task'[r] = t /\ \A q \in Runs \ {r} : task'[q] = task[q]
  BY DEF TypeOK, GoTo
<1>2. t # "failed"
  BY DEF Tasks
<1>. QED  BY <1>1, <1>2 DEF PassedInSuccess

LEMMA ParentFailsPass ==
    ASSUME TypeOK, PassedInSuccess, UNCHANGED child,
           NEW r \in Runs, task[r] \in Tasks, FailParent(r)
    PROVE  PassedInSuccess'
<1>1. /\ task'[r] = "failed" /\ failedAt'[r] = task[r]
      /\ \A q \in Runs \ {r} : task'[q] = task[q] /\ failedAt'[q] = failedAt[q]
  BY DEF TypeOK, FailParent, GoTo
<1>2. "failed" \notin Tasks \cup {"success"}
  BY DEF Tasks
<1>. QED  BY <1>1, <1>2 DEF PassedInSuccess

(* A trigger task starts only a child that no passed task has waited for.  *)
LEMMA TriggerChildPass ==
    ASSUME TypeOK, PassedInSuccess, NEW r \in Runs, NEW c \in Children, TriggerChild(r, c)
    PROVE  PassedInSuccess'
<1>1. /\ task' = task /\ failedAt' = failedAt /\ task[r] = Trigger[c]
      /\ child' = [child EXCEPT ![r][c] = FirstTask(c)]
  BY DEF TriggerChild, CreateChild
<1>2. Trigger[c] \in Tasks /\ c \notin Awaited[Trigger[c]]
  BY DEF Trigger, Awaited, Tasks, Children
<1>3. \A q \in Runs, k \in Children : (q # r \/ k # c) => child'[q][k] = child[q][k]
  BY <1>1 DEF TypeOK
<1>4. \A t \in Tasks \cup {"success"} : Awaited[t] \subseteq Children
  BY DEF Awaited, Children
<1>5. "failed" \notin Tasks \cup {"success"} /\ \A q \in Runs : failedAt[q] \in Tasks
  BY DEF TypeOK, Tasks
<1>. QED  BY <1>1, <1>2, <1>3, <1>4, <1>5 DEF PassedInSuccess

LEMMA ChildEndedPass ==
    ASSUME TypeOK, PassedInSuccess, NEW r \in Runs, NEW c \in Children, ChildEnded(r, c)
    PROVE  PassedInSuccess'
<1>1. Trigger[c] \in Tasks /\ task[r] = Trigger[c] /\ UNCHANGED child
  BY DEF ChildEnded, Trigger, Tasks, Children, childVars
<1>2. CASE child[r][c] = "failed" /\ FailParent(r)
  BY <1>1, <1>2, ParentFailsPass
<1>3. CASE child[r][c] = "success" /\ GoTo(r, After[task[r]]) /\ UNCHANGED failedAt
  <2>1. After[Trigger[c]] \in Tasks /\ Awaited[After[Trigger[c]]] = Awaited[Trigger[c]] \cup {c}
    BY DEF After, Trigger, Awaited, Tasks, Children
  <2>2. \A k \in Awaited[After[Trigger[c]]] : child[r][k] = "success"
    BY <1>1, <1>3, <2>1 DEF PassedInSuccess
  <2>. QED  BY <1>1, <1>3, <2>1, <2>2, ParentMovesPass
<1>. QED  BY <1>2, <1>3 DEF ChildEnded

LEMMA SummaryTaskPass ==
    ASSUME TypeOK, PassedInSuccess, NEW r \in Runs, SummaryTask(r)
    PROVE  PassedInSuccess'
<1>1. task[r] = "summary_task" /\ task[r] \in Tasks /\ UNCHANGED child
  BY DEF SummaryTask, Tasks, childVars
<1>2. CASE FailParent(r)
  BY <1>1, <1>2, ParentFailsPass
<1>3. CASE GoTo(r, After[task[r]]) /\ UNCHANGED failedAt
  <2>1. After[task[r]] = "retention_task" /\ "retention_task" \in Tasks
    BY <1>1 DEF After, Tasks
  <2>2. Awaited["retention_task"] = Awaited["summary_task"]
    BY DEF Awaited, Tasks
  <2>3. \A c \in Awaited["retention_task"] : child[r][c] = "success"
    BY <1>1, <2>2 DEF PassedInSuccess
  <2>. QED  BY <1>1, <1>3, <2>1, <2>3, ParentMovesPass
<1>. QED  BY <1>2, <1>3 DEF SummaryTask

LEMMA RetentionTaskPass ==
    ASSUME TypeOK, PassedInSuccess, NEW r \in Runs, RetentionTask(r)
    PROVE  PassedInSuccess'
<1>1. /\ task[r] = "retention_task" /\ task[r] \in Tasks /\ UNCHANGED child
      /\ GoTo(r, "success") /\ UNCHANGED failedAt
  BY DEF RetentionTask, Tasks, childVars, After
<1>2. Awaited["success"] = Awaited["retention_task"]
  BY DEF Awaited, Tasks
<1>3. \A c \in Awaited["success"] : child[r][c] = "success"
  BY <1>1, <1>2 DEF PassedInSuccess
<1>. QED  BY <1>1, <1>3, ParentMovesPass

LEMMA ClearPass ==
    ASSUME TypeOK, PassedInSuccess, NEW r \in Runs, Clear(r)
    PROVE  PassedInSuccess'
<1>1. UNCHANGED child /\ UNCHANGED failedAt
  BY DEF Clear, childVars
<1>2. CASE task[r] = "failed" /\ GoTo(r, failedAt[r])
  <2>1. failedAt[r] \in Tasks /\ \A c \in Awaited[failedAt[r]] : child[r][c] = "success"
    BY <1>2 DEF TypeOK, PassedInSuccess
  <2>. QED  BY <1>1, <1>2, <2>1, ParentMovesPass
<1>3. CASE GoTo(r, "generate_task")
  <2>1. "generate_task" \in Tasks /\ Awaited["generate_task"] = {}
    BY DEF Awaited, Tasks
  <2>. QED  BY <1>1, <1>3, <2>1, ParentMovesPass
<1>. QED  BY <1>2, <1>3 DEF Clear

(* The steps up to the first trigger task. *)
LEMMA GenerateTaskPass ==
    ASSUME TypeOK, PassedInSuccess, NEW r \in Runs, StartRun(r) \/ GenerateDone(r)
    PROVE  PassedInSuccess'
<1>1. /\ UNCHANGED child /\ UNCHANGED failedAt
      /\ \E t \in {"generate_task", "trigger_customers"} : GoTo(r, t)
  BY DEF StartRun, GenerateDone, childVars, After, Tasks
<1>2. \A t \in {"generate_task", "trigger_customers"} : t \in Tasks /\ Awaited[t] = {}
  BY DEF Awaited, Tasks
<1>. QED  BY <1>1, <1>2, ParentMovesPass

LEMMA FailurePass ==
    ASSUME TypeOK, PassedInSuccess, NEW r \in Runs, GenerateFails(r) \/ DagrunTimeout(r)
    PROVE  PassedInSuccess'
<1>1. task[r] \in Tasks /\ FailParent(r) /\ UNCHANGED child
  BY DEF GenerateFails, DagrunTimeout, Active, childVars, Tasks
<1>. QED  BY <1>1, ParentFailsPass

(* A child run moves on from a task of its own, never from "success". *)
LEMMA ChildStepPass ==
    ASSUME TypeOK, PassedInSuccess, NEW r \in Runs,
           ChildProgress(r) \/ \E c \in Children : ChildTaskDies(r, c)
    PROVE  PassedInSuccess'
<1>1. UNCHANGED task /\ UNCHANGED failedAt
  BY DEF ChildProgress, ChildTaskDies, LoadConfig, WaitForFile, SensorTimeout,
         MatchFile,
         Process, ReportResult, WaitForBoth, BuildReport, childUnchanged, parentVars
<1>2. \E c \in Children : \E to \in ChildTasks \cup {"success", "failed"} :
          child[r][c] # "success" /\ child' = [child EXCEPT ![r][c] = to]
  BY DEF ChildProgress, ChildTaskDies, LoadConfig, WaitForFile, SensorTimeout,
         MatchFile,
         Process, ReportResult, WaitForBoth, BuildReport, ChildRuns, Move, Datasets, Children,
         ChildTasks
<1>3. \A q \in Runs, c \in Children :
          child[q][c] = "success" => child'[q][c] = "success"
  BY <1>2 DEF TypeOK
<1>. QED  BY <1>1, <1>3, ChildMovesPass

LEMMA NextPass ==
    ASSUME TypeOK, PassedInSuccess, [Next]_vars
    PROVE  PassedInSuccess'
<1>1. CASE UNCHANGED <<task, failedAt, child>>
  BY <1>1, ChildMovesPass
<1>2. ASSUME NEW r \in Runs, Generate(r) \/ Publish(r)
      PROVE  UNCHANGED <<task, failedAt, child>>
  BY <1>2 DEF Generate, Publish, parentVars, childVars
<1>3. ASSUME Midnight \/ \E d \in Datasets : ClearStaleFixtures(d)
      PROVE  UNCHANGED <<task, failedAt, child>>
  BY <1>3 DEF Midnight, ClearStaleFixtures, parentVars, childVars
<1>4. CASE UNCHANGED vars
  BY <1>1, <1>4 DEF vars, parentVars, childVars
<1>. QED  BY <1>1, <1>2, <1>3, <1>4, TriggerChildPass, ChildEndedPass,
             SummaryTaskPass,
             RetentionTaskPass, ClearPass, GenerateTaskPass, FailurePass, ChildStepPass
          DEF Next, Progress

LEMMA InitPass ==
    ASSUME Init
    PROVE  PassedInSuccess
BY DEF Init, PassedInSuccess, Tasks

----------------------------------------------------------------------------
(* The theorems *)

(* In every state of the cascade, a parent's passed trigger tasks have     *)
(* children that succeeded (ingestion_cascade_orchestrator.py's chain with *)
(* wait_for_completion and reset_dag_run), for any number of runs, days,   *)
(* faults and clears.                                                      *)
THEOREM CascadeInvariant == Spec => []IInv
<1>1. Init => IInv
  BY InitTypes, InitPass DEF IInv
<1>2. IInv /\ [Next]_vars => IInv'
  BY NextTypes, NextPass DEF IInv
<1>. QED  BY <1>1, <1>2, PTL DEF Spec

(* The variables keep their types; no file in place, record or summary     *)
(* names a pair that was never generated.                                  *)
THEOREM CascadeTypes == Spec => []TypeOK
<1>1. IInv => TypeOK
  BY DEF IInv
<1>. QED  BY <1>1, CascadeInvariant, PTL

(* A parent is a success only when all its children are: a retry never     *)
(* masks a failed child run.                                               *)
THEOREM NoMaskedFailure == Spec => []SuccessMeansChildrenSucceeded
<1>1. IInv => SuccessMeansChildrenSucceeded
  <2>1. Awaited["success"] = Children
    BY DEF Awaited, Tasks
  <2>. QED  BY <2>1 DEF IInv, PassedInSuccess, SuccessMeansChildrenSucceeded
<1>. QED  BY <1>1, CascadeInvariant, PTL

----------------------------------------------------------------------------
(* What a calm cascade keeps to                                            *)
(*                                                                         *)
(* ReportsSeeTheirRun and SummaryIsOfThisRun rest on what happens before:  *)
(* one parent is active at a time, its files are the newest in place, and  *)
(* its children match and load them.  ParentsInv holds in any cascade,     *)
(* CalmInv in one in which nothing fails, and SummaryInv in one without    *)
(* clears and orphans besides.                                             *)

RunStep(r) ==
    \/ StartRun(r) \/ Progress(r) \/ ChildProgress(r)
    \/ GenerateFails(r) \/ DagrunTimeout(r) \/ Clear(r)
    \/ \E c \in Children : ChildTaskDies(r, c)

OneActive == \A q, r \in Runs : Active(q) /\ Active(r) => q = r

PairsNamed == \A r \in Runs : gen[r] # 0 => runOf[gen[r]] = r

DaysCome == \A d \in Datasets, t \in Days : place[d][t] # 0 => t <= today

NotStarted == \A r \in Runs : task[r] = "none" => gen[r] = 0 /\ generator[r] = "idle"

GeneratorAtWork ==
    troubles["fault"] = 0 =>
        \A r \in Runs : generator[r] # "idle" => task[r] = "generate_task"

(* A child runs under its waiting trigger task, unless it is an orphan. *)
OwnChildren ==
    troubles["fault"] = 0 /\ ~orphans =>
        \A r \in Runs, c \in Children :
            ChildRuns(r, c) => task[r] = Trigger[c] /\ deferred[r]

(* Without clears, the active parent's files are the latest ones. *)
LatestPair ==
    troubles["clear"] = 0 =>
        \A r \in Runs : Active(r) /\ gen[r] # 0 => gen[r] = Len(runOf)

ParentsInv ==
    /\ OneActive
    /\ PairsNamed
    /\ DaysCome
    /\ NotStarted
    /\ GeneratorAtWork
    /\ OwnChildren
    /\ LatestPair

LEMMA Steps ==
    ASSUME [Next]_vars
    PROVE  \/ \E r \in Runs : RunStep(r)
           \/ UNCHANGED vars \/ Midnight \/ \E d \in Datasets : ClearStaleFixtures(d)
BY DEF Next, RunStep

(* What the step of one run leaves of the other runs. *)
LEMMA OthersSame ==
    ASSUME TypeOK, NEW r \in Runs, RunStep(r), NEW q \in Runs, q # r
    PROVE  /\ task'[q] = task[q] /\ failedAt'[q] = failedAt[q] /\ deferred'[q] = deferred[q]
           /\ gen'[q] = gen[q] /\ generator'[q] = generator[q] /\ summary'[q] = summary[q]
           /\ child'[q] = child[q] /\ matched'[q] = matched[q]
<1>. USE DEF TypeOK, parentVars, generatorVars, childVars
<1>1. CASE StartRun(r) \/ GenerateFails(r) \/ DagrunTimeout(r) \/ Clear(r)
  BY <1>1 DEF StartRun, GenerateFails, DagrunTimeout, Clear, GoTo, FailParent
<1>2. CASE Generate(r) \/ Publish(r) \/ GenerateDone(r)
  BY <1>2 DEF Generate, Publish, GenerateDone, GoTo
<1>3. CASE \E c \in Children : TriggerChild(r, c) \/ ChildEnded(r, c)
  BY <1>3 DEF TriggerChild, CreateChild, ChildEnded, GoTo, FailParent
<1>4. CASE SummaryTask(r) \/ RetentionTask(r)
  BY <1>4 DEF SummaryTask, RetentionTask, GoTo, FailParent
<1>5. CASE ChildProgress(r) \/ \E c \in Children : ChildTaskDies(r, c)
  BY <1>5 DEF ChildProgress, ChildTaskDies, LoadConfig, WaitForFile, SensorTimeout, MatchFile,
              Process, ReportResult, WaitForBoth, BuildReport, Move, childUnchanged
<1>. QED  BY <1>1, <1>2, <1>3, <1>4, <1>5 DEF RunStep, Progress

(* Troubles are only ever counted up, and a fault leaves its trace. *)
LEMMA TroubleRises ==
    ASSUME TypeOK, NEW kind \in TroubleKinds, Trouble(kind)
    PROVE  /\ troubles'[kind] = troubles[kind] + 1 /\ troubles'[kind] # 0
           /\ \A k \in TroubleKinds : troubles[k] <= troubles'[k]
BY DEF TypeOK, Trouble

LEMMA TroublesStay ==
    ASSUME TypeOK, [Next]_vars, NEW kind \in TroubleKinds, troubles'[kind] = 0
    PROVE  troubles[kind] = 0
<1>1. UNCHANGED troubles \/ \E k \in TroubleKinds : Trouble(k)
  <2>. USE DEF Fault, TroubleKinds
  <2>1. ASSUME NEW r \in Runs, StartRun(r) \/ Progress(r)
        PROVE  UNCHANGED troubles \/ \E k \in TroubleKinds : Trouble(k)
    BY <2>1 DEF StartRun, Progress, Generate, Publish, GenerateDone, TriggerChild,
                ChildEnded, SummaryTask, RetentionTask, Datasets
  <2>2. ASSUME NEW r \in Runs, ChildProgress(r)
        PROVE  UNCHANGED troubles \/ \E k \in TroubleKinds : Trouble(k)
    BY <2>2 DEF ChildProgress, LoadConfig, WaitForFile, SensorTimeout, MatchFile,
                Process, ReportResult, WaitForBoth, BuildReport
  <2>3. ASSUME NEW r \in Runs, GenerateFails(r) \/ DagrunTimeout(r) \/ Clear(r)
                              \/ \E c \in Children : ChildTaskDies(r, c)
        PROVE  UNCHANGED troubles \/ \E k \in TroubleKinds : Trouble(k)
    BY <2>3 DEF GenerateFails, DagrunTimeout, Clear, ChildTaskDies
  <2>4. CASE UNCHANGED vars \/ Midnight \/ \E d \in Datasets : ClearStaleFixtures(d)
    BY <2>4 DEF vars, Midnight, ClearStaleFixtures
  <2>5. ASSUME NEW r \in Runs, RunStep(r)
        PROVE  UNCHANGED troubles \/ \E k \in TroubleKinds : Trouble(k)
    BY <2>1, <2>2, <2>3, <2>5 DEF RunStep
  <2>. QED  BY <2>4, <2>5, Steps
<1>2. CASE UNCHANGED troubles
  BY <1>2
<1>3. CASE \E k \in TroubleKinds : Trouble(k)
  <2>1. PICK k \in TroubleKinds : Trouble(k)
    BY <1>3
  <2>2. troubles[kind] <= troubles'[kind] /\ troubles[kind] \in Nat
    BY <2>1, TroubleRises DEF TypeOK
  <2>. QED  BY <2>2
<1>. QED  BY <1>1, <1>2, <1>3

(* Pairs are only added, by Generate, and records are kept. *)
LEMMA PairsStay ==
    ASSUME TypeOK, [Next]_vars
    PROVE  \/ UNCHANGED <<runOf, gen>>
           \/ \E r \in Runs : Generate(r)
<1>1. ASSUME NEW r \in Runs, RunStep(r), ~Generate(r) PROVE UNCHANGED <<runOf, gen>>
  BY <1>1 DEF RunStep, StartRun, Progress, Publish, GenerateDone, TriggerChild,
              ChildEnded, SummaryTask, RetentionTask, ChildProgress, LoadConfig, WaitForFile,
              SensorTimeout, MatchFile, Process, ReportResult, WaitForBoth, BuildReport,
              GenerateFails, DagrunTimeout, Clear, ChildTaskDies, childUnchanged, generatorVars
<1>2. CASE UNCHANGED vars \/ Midnight \/ \E d \in Datasets : ClearStaleFixtures(d)
  BY <1>2 DEF vars, Midnight, ClearStaleFixtures, generatorVars
<1>. QED  BY <1>1, <1>2 DEF Next, RunStep

LEMMA LedgerStays ==
    ASSUME TypeOK, [Next]_vars
    PROVE  \/ UNCHANGED ledger
           \/ \E r \in Runs, d \in Datasets :
                /\ Process(r, d) /\ matched[r][d] # 0 /\ place[d][matched[r][d]] # 0
                /\ ledger' = Append(ledger, [ds |-> d, gen |-> place[d][matched[r][d]],
                                             day |-> today])
<1>1. ASSUME NEW r \in Runs, NEW d \in Datasets, Process(r, d)
      PROVE  \/ UNCHANGED ledger
             \/ /\ matched[r][d] # 0 /\ place[d][matched[r][d]] # 0
                /\ ledger' = Append(ledger, [ds |-> d, gen |-> place[d][matched[r][d]],
                                             day |-> today])
  BY <1>1 DEF Process
<1>2. ASSUME NEW r \in Runs, RunStep(r), \A d \in Datasets : ~Process(r, d)
      PROVE  UNCHANGED ledger
  BY <1>2 DEF RunStep, StartRun, Progress, Generate, Publish, GenerateDone, TriggerChild,
              ChildEnded, SummaryTask, RetentionTask, ChildProgress, LoadConfig, WaitForFile,
              SensorTimeout, MatchFile, ReportResult, WaitForBoth, BuildReport,
              GenerateFails, DagrunTimeout, Clear, ChildTaskDies
<1>3. CASE UNCHANGED vars \/ Midnight \/ \E d \in Datasets : ClearStaleFixtures(d)
  BY <1>3 DEF vars, Midnight, ClearStaleFixtures
<1>. QED  BY <1>1, <1>2, <1>3 DEF Next, RunStep

LEMMA LongerLedger ==
    ASSUME NEW S, NEW s \in Seq(S), NEW x \in S
    PROVE  /\ DOMAIN s = 1 .. Len(s) /\ Len(s) \in Nat
           /\ DOMAIN Append(s, x) = 1 .. Len(s) + 1
           /\ Append(s, x)[Len(s) + 1] = x
           /\ \A i \in DOMAIN s : i \in DOMAIN Append(s, x) /\ Append(s, x)[i] = s[i]
OBVIOUS

LEMMA ElementOf ==
    ASSUME NEW S, NEW s \in Seq(S), NEW i \in DOMAIN s
    PROVE  s[i] \in S
OBVIOUS

LEMMA LedgerOf ==
    ASSUME TypeOK, NEW i \in DOMAIN ledger
    PROVE  ledger[i].gen \in 1 .. Len(runOf)
<1>. DEFINE S == [ds : Datasets, gen : 1 .. Len(runOf), day : Days]
<1>1. ledger \in Seq(S)
  BY DEF TypeOK
<1>2. ledger[i] \in S
  <2>. HIDE DEF S
  <2>. QED  BY <1>1, ElementOf
<1>. QED  BY <1>2

LEMMA LoadedStays ==
    ASSUME TypeOK, [Next]_vars, NEW d, NEW g, Loaded(d, g)
    PROVE  Loaded(d, g)'
<1>1. ASSUME NEW x \in [ds : Datasets, gen : 1 .. Len(runOf), day : Days],
             ledger' = Append(ledger, x)
      PROVE  Loaded(d, g)'
  <2>1. PICK i \in DOMAIN ledger : ledger[i].ds = d /\ ledger[i].gen = g
    BY DEF Loaded
  <2>. DEFINE S == [ds : Datasets, gen : 1 .. Len(runOf), day : Days]
  <2>2. ledger \in Seq(S) /\ x \in S /\ ledger' = Append(ledger, x)
    BY <1>1 DEF TypeOK
  <2>. HIDE DEF S
  <2>3. i \in DOMAIN ledger' /\ ledger'[i] = ledger[i]
    BY <2>1, <2>2, LongerLedger
  <2>. QED  BY <2>1, <2>3 DEF Loaded
<1>2. ASSUME NEW r \in Runs, NEW e \in Datasets, matched[r][e] # 0,
             place[e][matched[r][e]] # 0
      PROVE  [ds |-> e, gen |-> place[e][matched[r][e]], day |-> today]
                 \in [ds : Datasets, gen : 1 .. Len(runOf), day : Days]
  <2>1. matched[r][e] \in Days
    BY <1>2 DEF TypeOK
  <2>2. place[e][matched[r][e]] \in 1 .. Len(runOf)
    BY <1>2, <2>1 DEF TypeOK
  <2>. QED  BY <2>2 DEF TypeOK
<1>3. CASE UNCHANGED ledger
  BY <1>3 DEF Loaded
<1>. QED  BY <1>1, <1>2, <1>3, LedgerStays

(* Only a parent that was not active becomes so, and only when none is. *)
LEMMA ActiveBegins ==
    ASSUME TypeOK, NEW r \in Runs, RunStep(r), Active(r)', ~Active(r)
    PROVE  (StartRun(r) \/ Clear(r)) /\ \A q \in Runs : ~Active(q)
<1>1. CASE StartRun(r) \/ Clear(r)
  BY <1>1 DEF StartRun, Clear
<1>2. CASE Progress(r)
  BY <1>2 DEF Progress, Active, Generate, Publish, GenerateDone, TriggerChild, ChildEnded,
              SummaryTask, RetentionTask, CreateChild, Tasks, Trigger, Children, parentVars
<1>3. CASE ChildProgress(r) \/ \E c \in Children : ChildTaskDies(r, c)
  BY <1>3 DEF ChildProgress, ChildTaskDies, LoadConfig, WaitForFile, SensorTimeout, MatchFile,
              Process, ReportResult, WaitForBoth, BuildReport, childUnchanged, parentVars,
              Active
<1>4. CASE GenerateFails(r) \/ DagrunTimeout(r)
  BY <1>4 DEF GenerateFails, DagrunTimeout, Active, Tasks
<1>. QED  BY <1>1, <1>2, <1>3, <1>4 DEF RunStep

LEMMA OneActiveStep ==
    ASSUME TypeOK, OneActive, NEW r \in Runs, RunStep(r)
    PROVE  OneActive'
<1> SUFFICES ASSUME NEW p \in Runs, NEW q \in Runs, Active(p)', Active(q)', p # q
             PROVE  FALSE
  BY DEF OneActive
<1>1. \A x \in Runs : x # r => (Active(x)' <=> Active(x))
  BY OthersSame DEF Active
<1>2. CASE p # r /\ q # r
  BY <1>1, <1>2 DEF OneActive
<1>3. ASSUME NEW x \in Runs, x # r, Active(x)', Active(r)' PROVE FALSE
  BY <1>1, <1>3, ActiveBegins DEF OneActive
<1>. QED  BY <1>2, <1>3

LEMMA PairsNamedStep ==
    ASSUME TypeOK, PairsNamed, [Next]_vars
    PROVE  PairsNamed'
<1>1. CASE UNCHANGED <<runOf, gen>>
  BY <1>1 DEF PairsNamed
<1>2. ASSUME NEW r \in Runs, Generate(r) PROVE PairsNamed'
  <2>1. /\ runOf \in Seq(Runs) /\ runOf' = Append(runOf, r)
        /\ gen' = [gen EXCEPT ![r] = Len(runOf) + 1] /\ gen \in [Runs -> 0 .. Len(runOf)]
    BY <1>2 DEF Generate, TypeOK
  <2>2. ASSUME NEW q \in Runs, gen'[q] # 0 PROVE runOf'[gen'[q]] = q
    <3>1. CASE q = r
      BY <2>1, <3>1, LongerLedger
    <3>2. CASE q # r
      <4>1. gen'[q] = gen[q] /\ gen[q] \in DOMAIN runOf
        BY <2>1, <2>2, <3>2
      <4>2. runOf'[gen[q]] = runOf[gen[q]]
        BY <2>1, <4>1, LongerLedger
      <4>. QED  BY <2>2, <4>1, <4>2 DEF PairsNamed
    <3>. QED  BY <3>1, <3>2
  <2>. QED  BY <2>2 DEF PairsNamed
<1>. QED  BY <1>1, <1>2, PairsStay

LEMMA DaysComeStep ==
    ASSUME TypeOK, DaysCome, [Next]_vars
    PROVE  DaysCome'
<1>1. ASSUME NEW r \in Runs, Publish(r) PROVE DaysCome'
  BY <1>1 DEF Publish, DaysCome, TypeOK, Days, Writing
<1>2. ASSUME NEW r \in Runs, RetentionTask(r) PROVE DaysCome'
  BY <1>2 DEF RetentionTask, DaysCome, TypeOK
<1>3. ASSUME NEW d \in Datasets, ClearStaleFixtures(d) PROVE DaysCome'
  BY <1>3 DEF ClearStaleFixtures, DaysCome, TypeOK
<1>4. CASE Midnight
  BY <1>4 DEF Midnight, DaysCome, TypeOK, Days
<1>5. CASE UNCHANGED <<place, today>>
  BY <1>5 DEF DaysCome
<1>6. ASSUME NEW r \in Runs, RunStep(r), ~Publish(r), ~RetentionTask(r)
      PROVE  UNCHANGED <<place, today>>
  BY <1>6 DEF RunStep, StartRun, Progress, Generate, GenerateDone, TriggerChild,
              ChildEnded, SummaryTask, ChildProgress, LoadConfig, WaitForFile,
              SensorTimeout, MatchFile, Process, ReportResult, WaitForBoth, BuildReport,
              GenerateFails, DagrunTimeout, Clear, ChildTaskDies, childUnchanged
<1>7. UNCHANGED vars => UNCHANGED <<place, today>>
  BY DEF vars
<1>. QED  BY <1>1, <1>2, <1>3, <1>4, <1>5, <1>6, <1>7, Steps

LEMMA NotStartedStep ==
    ASSUME TypeOK, NotStarted, GeneratorAtWork, NEW r \in Runs, RunStep(r)
    PROVE  NotStarted'
<1>1. \A q \in Runs : q # r => (task'[q] = "none" => gen'[q] = 0 /\ generator'[q] = "idle")
  BY OthersSame DEF NotStarted
<1>2. ASSUME task'[r] = "none" PROVE gen'[r] = 0 /\ generator'[r] = "idle"
  <2>. USE DEF TypeOK, parentVars, generatorVars
  <2>1. ~StartRun(r) /\ ~GenerateFails(r) /\ ~DagrunTimeout(r) /\ ~Clear(r)
    BY <1>2 DEF StartRun, GenerateFails, DagrunTimeout, Clear, GoTo, FailParent, Tasks
  <2>2. CASE Progress(r)
    <3>1. ~Generate(r) /\ ~GenerateDone(r) /\ ~SummaryTask(r) /\ ~RetentionTask(r)
          /\ \A c \in Children : ~TriggerChild(r, c) /\ ~ChildEnded(r, c)
      BY <1>2 DEF Generate, GenerateDone, SummaryTask, RetentionTask, TriggerChild, ChildEnded,
                  CreateChild, GoTo, FailParent, After, Tasks, Trigger, Children
    <3>2. Publish(r)
      BY <2>2, <3>1 DEF Progress
    <3>. QED  BY <1>2, <3>2 DEF Publish, Writing, NotStarted, Datasets
  <2>3. CASE ChildProgress(r) \/ \E c \in Children : ChildTaskDies(r, c)
    BY <1>2, <2>3
       DEF ChildProgress, ChildTaskDies, LoadConfig, WaitForFile, SensorTimeout, MatchFile,
           Process, ReportResult, WaitForBoth, BuildReport, childUnchanged, NotStarted
  <2>. QED  BY <2>1, <2>2, <2>3 DEF RunStep
<1>. QED  BY <1>1, <1>2 DEF NotStarted

LEMMA GeneratorAtWorkStep ==
    ASSUME TypeOK, TypeOK', GeneratorAtWork, [Next]_vars, NEW r \in Runs, RunStep(r)
    PROVE  GeneratorAtWork'
<1>. SUFFICES ASSUME troubles'["fault"] = 0, NEW q \in Runs, generator'[q] # "idle"
              PROVE  task'[q] = "generate_task"
  BY DEF GeneratorAtWork
<1>1. "fault" \in TroubleKinds /\ troubles["fault"] = 0 /\ ~Fault
  BY TroublesStay, TroubleRises DEF TroubleKinds, Fault
<1>2. \A x \in Runs : generator[x] # "idle" => task[x] = "generate_task"
  BY <1>1 DEF GeneratorAtWork
<1>3. CASE q # r
  BY <1>2, <1>3, OthersSame
<1>4. CASE q = r
  <2>. USE DEF TypeOK, parentVars, generatorVars
  <2>1. ~StartRun(r)
    BY <1>2, <1>4 DEF StartRun
  <2>2. ~GenerateFails(r) /\ ~DagrunTimeout(r) /\ ~Clear(r) /\ ~GenerateDone(r)
    BY <1>1, <1>4 DEF GenerateFails, DagrunTimeout, Clear, GenerateDone
  <2>3. CASE Generate(r) \/ Publish(r)
    BY <1>2, <1>4, <2>3 DEF Generate, Publish, Writing, Datasets
  <2>4. CASE \E c \in Children : TriggerChild(r, c) \/ ChildEnded(r, c)
    BY <1>2, <1>4, <2>4 DEF TriggerChild, ChildEnded, CreateChild, Trigger, Children
  <2>5. CASE SummaryTask(r) \/ RetentionTask(r)
    BY <1>2, <1>4, <2>5 DEF SummaryTask, RetentionTask
  <2>6. CASE ChildProgress(r) \/ \E c \in Children : ChildTaskDies(r, c)
    BY <1>2, <1>4, <2>6
       DEF ChildProgress, ChildTaskDies, LoadConfig, WaitForFile, SensorTimeout, MatchFile,
           Process, ReportResult, WaitForBoth, BuildReport, childUnchanged
  <2>. QED  BY <2>1, <2>2, <2>3, <2>4, <2>5, <2>6 DEF RunStep, Progress
<1>. QED  BY <1>3, <1>4

(* A child run that is going on was going on before, or has been created. *)
LEMMA ChildWasRunning ==
    ASSUME TypeOK, NEW r \in Runs, RunStep(r), NEW c \in Children, ChildRuns(r, c)'
    PROVE  ChildRuns(r, c) \/ TriggerChild(r, c)
<1>1. ASSUME NEW k \in Children, TriggerChild(r, k), k # c PROVE ChildRuns(r, c)
  BY <1>1 DEF TriggerChild, CreateChild, ChildRuns, TypeOK
<1>2. CASE ChildProgress(r) \/ \E k \in Children : ChildTaskDies(r, k)
  <2>. DEFINE Moved(k) == ChildRuns(r, k) /\ \E to \in ChildTasks \cup {"success", "failed"} :
                                                 child' = [child EXCEPT ![r][k] = to]
  <2>1. ASSUME NEW k \in Children, ChildTaskDies(r, k) PROVE Moved(k)
    BY <2>1 DEF ChildTaskDies
  <2>2. ASSUME WaitForBoth(r) \/ BuildReport(r) PROVE Moved("report_ready")
    BY <2>2 DEF WaitForBoth, BuildReport, Move, ChildRuns, ChildTasks
  <2>3. ASSUME NEW d \in Datasets, \/ LoadConfig(r, d) \/ WaitForFile(r, d) \/ SensorTimeout(r, d)
                                   \/ MatchFile(r, d) \/ Process(r, d) \/ ReportResult(r, d)
        PROVE  Moved(d)
    BY <2>3 DEF LoadConfig, WaitForFile, SensorTimeout, MatchFile, Process, ReportResult, Move,
                ChildRuns, ChildTasks
  <2>4. \E k \in Children : Moved(k)
    <3>1. "report_ready" \in Children /\ Datasets \subseteq Children
      BY DEF Children, Datasets
    <3>. HIDE DEF Moved
    <3>. QED  BY <1>2, <2>1, <2>2, <2>3, <3>1 DEF ChildProgress
  <2>. QED  BY <2>4 DEF ChildRuns, TypeOK
<1>3. CASE UNCHANGED child
  BY <1>3 DEF ChildRuns
<1>4. ASSUME ~ChildProgress(r), \A k \in Children : ~ChildTaskDies(r, k) /\ ~TriggerChild(r, k)
      PROVE  UNCHANGED child
  BY <1>4 DEF RunStep, StartRun, Progress, Generate, Publish, GenerateDone, ChildEnded,
              SummaryTask, RetentionTask, GenerateFails, DagrunTimeout, Clear, childVars
<1>. QED  BY <1>1, <1>2, <1>3, <1>4

LEMMA OwnChildrenStep ==
    ASSUME TypeOK, OwnChildren, [Next]_vars, NEW r \in Runs, RunStep(r)
    PROVE  OwnChildren'
<1>. SUFFICES ASSUME troubles'["fault"] = 0, ~orphans', NEW q \in Runs, NEW c \in Children,
                     ChildRuns(q, c)'
              PROVE  task'[q] = Trigger[c] /\ deferred'[q]
  BY DEF OwnChildren
<1>1. "fault" \in TroubleKinds /\ troubles["fault"] = 0 /\ ~Fault
  BY TroublesStay, TroubleRises DEF TroubleKinds, Fault
<1>2. ~orphans
  BY DEF RunStep, StartRun, Progress, Generate, Publish, GenerateDone, TriggerChild,
         ChildEnded, SummaryTask, RetentionTask, ChildProgress, LoadConfig, WaitForFile,
         SensorTimeout, MatchFile, Process, ReportResult, WaitForBoth, BuildReport,
         GenerateFails, DagrunTimeout, Clear, ChildTaskDies, childUnchanged, parentVars
<1>3. \A x \in Runs, k \in Children : ChildRuns(x, k) => task[x] = Trigger[k] /\ deferred[x]
  BY <1>1, <1>2 DEF OwnChildren
<1>4. CASE q # r
  BY <1>3, <1>4, OthersSame DEF ChildRuns
<1>5. CASE q = r /\ TriggerChild(r, c)
  BY <1>5 DEF TriggerChild, CreateChild, TypeOK
<1>6. CASE q = r /\ ChildRuns(r, c)
  <2>. USE DEF TypeOK, parentVars
  <2>1. task[r] = Trigger[c] /\ deferred[r]
        /\ Trigger[c] \in {"trigger_customers", "trigger_orders", "trigger_report_ready"}
    BY <1>3, <1>6 DEF Trigger, Children
  <2>2. ~StartRun(r) /\ ~GenerateFails(r) /\ ~Clear(r) /\ ~GenerateDone(r) /\ ~Generate(r)
        /\ ~SummaryTask(r) /\ ~RetentionTask(r)
    BY <2>1 DEF StartRun, GenerateFails, Clear, GenerateDone, Generate, SummaryTask,
                RetentionTask, Active, Tasks
  <2>3. ~DagrunTimeout(r)
    BY <1>6 DEF DagrunTimeout
  <2>4. ASSUME NEW k \in Children PROVE ~TriggerChild(r, k) /\ ~ChildEnded(r, k)
    <3>1. task[r] = Trigger[k] => k = c
      BY <2>1 DEF Trigger, Children
    <3>. QED  BY <1>6, <2>1, <3>1 DEF TriggerChild, ChildEnded, ChildRuns, ChildTasks
  <2>5. UNCHANGED <<task, deferred>>
    BY <2>2, <2>3, <2>4
       DEF RunStep, Progress, Publish, ChildProgress, ChildTaskDies, LoadConfig, WaitForFile,
           SensorTimeout, MatchFile, Process, ReportResult, WaitForBoth, BuildReport,
           childUnchanged
  <2>. QED  BY <1>6, <2>1, <2>5
<1>. QED  BY <1>4, <1>5, <1>6, ChildWasRunning

LEMMA LatestPairStep ==
    ASSUME TypeOK, OneActive, NotStarted, LatestPair, [Next]_vars, NEW r \in Runs, RunStep(r)
    PROVE  LatestPair'
<1>. SUFFICES ASSUME troubles'["clear"] = 0, NEW q \in Runs, Active(q)', gen'[q] # 0
              PROVE  gen'[q] = Len(runOf')
  BY DEF LatestPair
<1>1. "clear" \in TroubleKinds /\ troubles["clear"] = 0 /\ ~Clear(r)
  BY TroublesStay, TroubleRises DEF TroubleKinds, Clear
<1>2. \A x \in Runs : Active(x) /\ gen[x] # 0 => gen[x] = Len(runOf)
  BY <1>1 DEF LatestPair
<1>3. CASE Generate(r)
  <2>1. task[r] = "generate_task" /\ Active(r) /\ task' = task
    BY <1>3 DEF Generate, Active, Tasks, parentVars
  <2>2. q = r
    BY <2>1 DEF OneActive, Active
  <2>. QED  BY <1>3, <2>2 DEF Generate, TypeOK
<1>4. CASE ~Generate(r)
  <2>1. UNCHANGED <<runOf, gen>>
    <3>1. ASSUME NEW x \in Runs, Generate(x) PROVE UNCHANGED <<runOf, gen>>
      <4>1. CASE x = r
        BY <1>4, <3>1, <4>1
      <4>2. CASE x # r
        <5>1. gen'[x] = gen[x]
          BY <4>2, OthersSame
        <5>. QED  BY <3>1, <5>1 DEF Generate, TypeOK
      <4>. QED  BY <4>1, <4>2
    <3>. QED  BY <3>1, PairsStay
  <2>2. Active(q)
    <3>1. CASE q # r
      BY <3>1, OthersSame DEF Active
    <3>2. CASE q = r
      BY <1>1, <2>1, <3>2, ActiveBegins DEF StartRun, NotStarted
    <3>. QED  BY <3>1, <3>2
  <2>. QED  BY <1>2, <2>1, <2>2
<1>. QED  BY <1>3, <1>4

LEMMA WorldStep ==
    ASSUME UNCHANGED vars \/ Midnight \/ \E d \in Datasets : ClearStaleFixtures(d)
    PROVE  UNCHANGED <<parentVars, generatorVars, childVars, ledger>>
BY DEF vars, Midnight, ClearStaleFixtures, parentVars, generatorVars, childVars

LEMMA ParentsStep ==
    ASSUME TypeOK, TypeOK', ParentsInv, [Next]_vars
    PROVE  ParentsInv'
<1>1. PairsNamed' /\ DaysCome'
  BY PairsNamedStep, DaysComeStep DEF ParentsInv
<1>2. ASSUME NEW r \in Runs, RunStep(r) PROVE ParentsInv'
  BY <1>1, <1>2, OneActiveStep, NotStartedStep, GeneratorAtWorkStep, OwnChildrenStep,
     LatestPairStep DEF ParentsInv
<1>3. CASE UNCHANGED vars \/ Midnight \/ \E d \in Datasets : ClearStaleFixtures(d)
  <2>1. UNCHANGED <<task, failedAt, deferred, gen, runOf, generator, child, orphans>>
    BY <1>3, WorldStep DEF parentVars, generatorVars, childVars
  <2>2. OneActive' /\ NotStarted'
    BY <2>1 DEF ParentsInv, OneActive, NotStarted, Active
  <2>3. troubles'["fault"] = 0 => troubles["fault"] = 0
    BY TroublesStay DEF TroubleKinds
  <2>4. troubles'["clear"] = 0 => troubles["clear"] = 0
    BY TroublesStay DEF TroubleKinds
  <2>5. GeneratorAtWork' /\ OwnChildren'
    BY <2>1, <2>3 DEF ParentsInv, GeneratorAtWork, OwnChildren, ChildRuns
  <2>6. LatestPair'
    BY <2>1, <2>4 DEF ParentsInv, LatestPair, Active
  <2>. QED  BY <1>1, <2>2, <2>5, <2>6 DEF ParentsInv
<1>. QED  BY <1>2, <1>3, Steps

----------------------------------------------------------------------------
(* The calm run *)

(* Nothing fails, no two pairs have keys in common, and no run is cleared  *)
(* where another one may have timed out.                                   *)
Calm ==
    /\ troubles["fault"] = 0
    /\ SeedsDiffer
    /\ troubles["clear"] = 0 \/ troubles["timeout"] = 0

Loading(r) == task[r] \in {"trigger_customers", "trigger_orders"}
Unsettled(r) == generator[r] # "idle" \/ Loading(r)
Published(r, d) == Loading(r) \/ generator[r] = "done" \/ (generator[r] = "orders" /\ d = "customers")

(* The newest file of d in place is the one of r's pair. *)
IsNewest(r, d, t) == place[d][t] = gen[r] /\ \A u \in Days : u > t => place[d][u] = 0
FilesInPlace(r, d) == \E t \in Days : IsNewest(r, d, t)

(* Parent r is past the point where its own file of d is loaded. *)
PastLoading(r, d) ==
    \/ task[r] \in {"trigger_report_ready", "summary_task", "retention_task", "success"}
    \/ task[r] = "trigger_orders" /\ d = "customers"
    \/ task[r] = Trigger[d] /\ deferred[r] /\ child[r][d] \in {"report_result_task", "success"}
    \/ child[r]["report_ready"] # "none"
    \/ task[r] = "failed" /\ troubles["timeout"] = 0

NewestFiles(r) ==
    /\ Unsettled(r) => gen[r] # 0 /\ gen[r] = Len(runOf)
    /\ \A d \in Datasets : Published(r, d) => FilesInPlace(r, d)

(* The child parent r waits for finds r's own file. *)
ChildMeetsFile(r) ==
    \A d \in Datasets : task[r] = Trigger[d] /\ deferred[r] =>
        /\ child[r][d] # "failed"
        /\ child[r][d] = "process" => matched[r][d] # 0 /\ place[d][matched[r][d]] = gen[r]

LoadedOncePast(r) == \A d \in Datasets : PastLoading(r, d) => Loaded(d, gen[r])

FailsAtReport(r) ==
    task[r] = "failed" /\ troubles["timeout"] = 0 => failedAt[r] = "trigger_report_ready"

CalmRun(r) == NewestFiles(r) /\ ChildMeetsFile(r) /\ LoadedOncePast(r) /\ FailsAtReport(r)

CalmInv == Calm => \A r \in Runs : CalmRun(r)

LEMMA TriggerOf ==
    /\ Trigger["customers"] = "trigger_customers" /\ Trigger["orders"] = "trigger_orders"
    /\ Trigger["report_ready"] = "trigger_report_ready"
    /\ Datasets = {"customers", "orders"} /\ Children = Datasets \cup {"report_ready"}
BY DEF Trigger, Datasets, Children

(* Pairs keep their numbers and their seeds. *)
LEMMA CalmBefore ==
    ASSUME TypeOK, [Next]_vars, Calm'
    PROVE  Calm /\ ~Fault
<1>1. /\ troubles["fault"] = 0
      /\ troubles["clear"] = 0 \/ troubles["timeout"] = 0
  BY TroublesStay DEF Calm, TroubleKinds
<1>2. ~Fault
  BY TroubleRises DEF Calm, Fault, TroubleKinds
<1>3. CASE UNCHANGED runOf
  BY <1>1, <1>2, <1>3 DEF Calm, SeedsDiffer, SeedOf
<1>4. ASSUME NEW r \in Runs, Generate(r) PROVE SeedsDiffer
  <2>1. runOf \in Seq(Runs) /\ runOf' = Append(runOf, r)
    BY <1>4 DEF Generate, TypeOK
  <2>2. \A g \in 1 .. Len(runOf) : runOf'[g] = runOf[g] /\ g \in 1 .. Len(runOf')
    BY <2>1, LongerLedger
  <2>. QED  BY <2>2 DEF Calm, SeedsDiffer, SeedOf
<1>. QED  BY <1>1, <1>2, <1>3, <1>4, PairsStay DEF Calm

(* While a run is unsettled, no other touches the files. *)
LEMMA FilesStay ==
    ASSUME TypeOK, ParentsInv, Calm, ~Fault, NEW r \in Runs, RunStep(r),
           NEW q \in Runs, q # r, Unsettled(q)
    PROVE  UNCHANGED <<place, runOf>>
<1>1. Active(q)
  BY DEF ParentsInv, GeneratorAtWork, Calm, Unsettled, Loading, Active, Tasks
<1>2. ~Active(r)
  BY <1>1 DEF ParentsInv, OneActive
<1>3. ~Publish(r) /\ ~Generate(r) /\ ~RetentionTask(r)
  BY <1>2 DEF ParentsInv, GeneratorAtWork, Calm, Publish, Writing, Generate, RetentionTask,
              Active, Tasks, Datasets
<1>. QED
  BY <1>3 DEF RunStep, StartRun, Progress, GenerateDone, TriggerChild,
              ChildEnded, SummaryTask, ChildProgress, LoadConfig, WaitForFile,
              SensorTimeout, MatchFile, Process, ReportResult, WaitForBoth, BuildReport,
              GenerateFails, DagrunTimeout, Clear, ChildTaskDies, childUnchanged, generatorVars

LEMMA OthersCalm ==
    ASSUME TypeOK, ParentsInv, Calm, ~Fault, [Next]_vars, NEW r \in Runs, RunStep(r),
           NEW q \in Runs, q # r, CalmRun(q)
    PROVE  CalmRun(q)'
<1>1. /\ task'[q] = task[q] /\ failedAt'[q] = failedAt[q] /\ deferred'[q] = deferred[q]
      /\ gen'[q] = gen[q] /\ generator'[q] = generator[q]
      /\ child'[q] = child[q] /\ matched'[q] = matched[q]
  BY OthersSame
<1>2. troubles'["timeout"] = 0 => troubles["timeout"] = 0
  BY TroublesStay DEF TroubleKinds
<1>3. Unsettled(q) => UNCHANGED <<place, runOf>>
  BY FilesStay
<1>4. NewestFiles(q)'
  BY <1>1, <1>3 DEF CalmRun, NewestFiles, Unsettled, Published, Loading, FilesInPlace, IsNewest
<1>5. ChildMeetsFile(q)'
  BY <1>1, <1>3, TriggerOf DEF CalmRun, ChildMeetsFile, Unsettled, Loading
<1>6. LoadedOncePast(q)'
  <2>1. \A d \in Datasets : PastLoading(q, d)' => PastLoading(q, d)
    BY <1>1, <1>2 DEF PastLoading
  <2>. QED  BY <1>1, <2>1, LoadedStays DEF CalmRun, LoadedOncePast
<1>7. FailsAtReport(q)'
  BY <1>1, <1>2 DEF CalmRun, FailsAtReport
<1>. QED  BY <1>4, <1>5, <1>6, <1>7 DEF CalmRun

LEMMA PastStays ==
    ASSUME TypeOK, [Next]_vars, NEW r \in Runs, CalmRun(r), gen'[r] = gen[r],
           \A d \in Datasets : PastLoading(r, d)' => PastLoading(r, d)
    PROVE  LoadedOncePast(r)'
BY LoadedStays DEF CalmRun, LoadedOncePast

(* A parent that has nothing to load now only owes what it has loaded. *)
LEMMA SettledCalm ==
    ASSUME TypeOK, [Next]_vars, NEW r \in Runs, CalmRun(r), gen'[r] = gen[r],
           generator'[r] = "idle", ~Loading(r)',
           \A d \in Datasets : PastLoading(r, d)' => PastLoading(r, d),
           task'[r] = "failed" /\ troubles'["timeout"] = 0 => failedAt'[r] = "trigger_report_ready"
    PROVE  CalmRun(r)'
<1>1. NewestFiles(r)'
  BY DEF NewestFiles, Unsettled, Published
<1>2. ChildMeetsFile(r)'
  BY TriggerOf DEF ChildMeetsFile, Loading
<1>. QED  BY <1>1, <1>2, PastStays DEF CalmRun, FailsAtReport

LEMMA StartRunCalm ==
    ASSUME TypeOK, ParentsInv, [Next]_vars, NEW r \in Runs, CalmRun(r), StartRun(r)
    PROVE  CalmRun(r)'
<1>1. /\ task'[r] = "generate_task" /\ generator'[r] = "idle" /\ gen' = gen /\ child' = child
  BY DEF StartRun, GoTo, TypeOK, ParentsInv, NotStarted, generatorVars, childVars
<1>. QED  BY <1>1, SettledCalm, TriggerOf DEF Loading, PastLoading

LEMMA GenerateCalm ==
    ASSUME TypeOK, ParentsInv, Calm', [Next]_vars, NEW r \in Runs, CalmRun(r), Generate(r)
    PROVE  CalmRun(r)'
<1>1. /\ task[r] = "generate_task" /\ task' = task /\ child' = child /\ deferred' = deferred
      /\ generator'[r] = "customers" /\ gen'[r] = Len(runOf) + 1
      /\ runOf \in Seq(Runs) /\ runOf' = Append(runOf, r) /\ Len(runOf') = Len(runOf) + 1
      /\ Len(runOf) \in Nat /\ ledger' = ledger
  BY DEF Generate, TypeOK, parentVars, childVars
<1>2. gen[r] = 0
  <2>. SUFFICES ASSUME gen[r] # 0 PROVE FALSE
    OBVIOUS
  <2>1. gen[r] \in 1 .. Len(runOf) /\ runOf[gen[r]] = r
    BY DEF TypeOK, ParentsInv, PairsNamed
  <2>2. runOf'[gen[r]] = r /\ runOf'[Len(runOf) + 1] = r
    BY <1>1, <2>1, LongerLedger
  <2>. QED  BY <1>1, <2>1, <2>2 DEF Calm, SeedsDiffer, SeedOf
<1>3. \A d : ~Loaded(d, gen[r])
  <2>. SUFFICES ASSUME NEW i \in DOMAIN ledger PROVE ledger[i].gen # 0
    BY <1>2 DEF Loaded
  <2>. QED  BY LedgerOf
<1>4. \A d \in Datasets : ~PastLoading(r, d)'
  <2>1. \A d \in Datasets : ~PastLoading(r, d)
    BY <1>3 DEF CalmRun, LoadedOncePast
  <2>. QED  BY <1>1, <2>1, TriggerOf DEF PastLoading
<1>. QED  BY <1>1, <1>4, TriggerOf
          DEF CalmRun, NewestFiles, Published, Loading, ChildMeetsFile, LoadedOncePast,
              FailsAtReport

LEMMA PublishCalm ==
    ASSUME TypeOK, ParentsInv, Calm, [Next]_vars, NEW r \in Runs, CalmRun(r), Publish(r)
    PROVE  CalmRun(r)'
<1>1. /\ generator[r] \in Datasets /\ task[r] = "generate_task"
      /\ UNCHANGED <<today, task, failedAt, deferred, gen, runOf, child, troubles>>
      /\ generator'[r] = IF generator[r] = "customers" THEN "orders" ELSE "done"
      /\ place' = [place EXCEPT ![generator[r]][today] = gen[r]]
  BY DEF Publish, Writing, TypeOK, ParentsInv, GeneratorAtWork, Calm, Datasets, parentVars,
         childVars
<1>2. ASSUME NEW d \in Datasets, d = generator[r] PROVE FilesInPlace(r, d)'
  <2>1. today \in Days /\ place'[d][today] = gen'[r]
    BY <1>1, <1>2 DEF TypeOK
  <2>2. \A u \in Days : u > today => place'[d][u] = 0
    BY <1>1, <1>2 DEF TypeOK, ParentsInv, DaysCome, Days
  <2>. QED  BY <2>1, <2>2 DEF FilesInPlace, IsNewest
<1>3. ASSUME NEW d \in Datasets, d # generator[r], FilesInPlace(r, d) PROVE FilesInPlace(r, d)'
  <2>1. place'[d] = place[d]
    BY <1>1, <1>3 DEF TypeOK
  <2>. QED  BY <1>1, <1>3, <2>1 DEF FilesInPlace, IsNewest
<1>4. NewestFiles(r)'
  <2>1. gen'[r] # 0 /\ gen'[r] = Len(runOf')
    BY <1>1, TriggerOf DEF CalmRun, NewestFiles, Unsettled
  <2>2. ASSUME NEW d \in Datasets, Published(r, d)' PROVE FilesInPlace(r, d)'
    <3>1. d = generator[r] \/ Published(r, d)
      BY <1>1, <2>2, TriggerOf DEF Published, Loading
    <3>. QED  BY <1>2, <1>3, <3>1 DEF CalmRun, NewestFiles
  <2>. QED  BY <2>1, <2>2 DEF NewestFiles
<1>5. ChildMeetsFile(r)' /\ FailsAtReport(r)'
  BY <1>1, TriggerOf DEF ChildMeetsFile, FailsAtReport
<1>6. LoadedOncePast(r)'
  BY <1>1, PastStays DEF PastLoading
<1>. QED  BY <1>4, <1>5, <1>6 DEF CalmRun

LEMMA GenerateDoneCalm ==
    ASSUME TypeOK, [Next]_vars, NEW r \in Runs, CalmRun(r), GenerateDone(r)
    PROVE  CalmRun(r)'
<1>1. /\ generator[r] = "done" /\ generator'[r] = "idle" /\ task'[r] = "trigger_customers"
      /\ deferred'[r] = FALSE /\ UNCHANGED <<gen, runOf, place, child>>
  BY DEF GenerateDone, GoTo, TypeOK, After, Tasks, childVars
<1>2. NewestFiles(r)'
  BY <1>1 DEF CalmRun, NewestFiles, Unsettled, Published, FilesInPlace, IsNewest
<1>3. ChildMeetsFile(r)' /\ FailsAtReport(r)'
  BY <1>1 DEF ChildMeetsFile, FailsAtReport
<1>4. LoadedOncePast(r)'
  BY <1>1, PastStays DEF PastLoading
<1>. QED  BY <1>2, <1>3, <1>4 DEF CalmRun

LEMMA TriggerChildCalm ==
    ASSUME TypeOK, [Next]_vars, NEW r \in Runs, NEW c \in Children, CalmRun(r),
           TriggerChild(r, c)
    PROVE  CalmRun(r)'
<1>1. /\ task[r] = Trigger[c] /\ child'[r][c] = FirstTask(c)
      /\ \A k \in Children : k # c => child'[r][k] = child[r][k]
      /\ UNCHANGED <<task, failedAt, generator, gen, runOf, place, troubles>>
  BY DEF TriggerChild, CreateChild, TypeOK, generatorVars
<1>2. NewestFiles(r)' /\ FailsAtReport(r)'
  BY <1>1 DEF CalmRun, NewestFiles, Unsettled, Published, Loading, FilesInPlace, IsNewest,
              FailsAtReport
<1>3. \A d \in Datasets : task[r] = Trigger[d] => d = c /\ child'[r][d] = "load_config_task"
  BY <1>1, TriggerOf DEF FirstTask
<1>4. ChildMeetsFile(r)'
  BY <1>1, <1>3 DEF ChildMeetsFile
<1>5. LoadedOncePast(r)'
  <2>1. \A d \in Datasets : PastLoading(r, d)' => PastLoading(r, d)
    BY <1>1, <1>3, TriggerOf DEF PastLoading
  <2>. QED  BY <1>1, <2>1, PastStays
<1>. QED  BY <1>2, <1>4, <1>5 DEF CalmRun

LEMMA ChildEndedCalm ==
    ASSUME TypeOK, ParentsInv, Calm, [Next]_vars, NEW r \in Runs, NEW c \in Children,
           CalmRun(r), ChildEnded(r, c)
    PROVE  CalmRun(r)'
<1>1. /\ task[r] = Trigger[c] /\ deferred[r] /\ generator[r] = "idle"
      /\ UNCHANGED <<generator, gen, runOf, place, child, troubles>>
  BY TriggerOf DEF ChildEnded, ParentsInv, GeneratorAtWork, Calm, generatorVars, childVars
<1>2. CASE child[r][c] = "failed" /\ FailParent(r)
  <2>1. c = "report_ready"
    BY <1>1, <1>2, TriggerOf DEF CalmRun, ChildMeetsFile
  <2>2. task'[r] = "failed" /\ failedAt'[r] = "trigger_report_ready"
    BY <1>1, <1>2, <2>1, TriggerOf DEF FailParent, GoTo, TypeOK
  <2>3. \A d \in Datasets : PastLoading(r, d)
    BY <1>1, <2>1, TriggerOf DEF PastLoading
  <2>. QED  BY <1>1, <2>2, <2>3, SettledCalm DEF Loading
<1>3. CASE child[r][c] = "success" /\ GoTo(r, After[task[r]])
  <2>1. /\ task'[r] = After[Trigger[c]] /\ deferred'[r] = FALSE
        /\ After["trigger_customers"] = "trigger_orders"
        /\ After["trigger_orders"] = "trigger_report_ready"
        /\ After["trigger_report_ready"] = "summary_task"
    BY <1>1, <1>3, TriggerOf DEF GoTo, TypeOK, After, Tasks
  <2>2. \A d \in Datasets : PastLoading(r, d)' => PastLoading(r, d)
    BY <1>1, <1>3, <2>1, TriggerOf DEF PastLoading
  <2>3. CASE c = "customers"
    <3>1. NewestFiles(r)'
      BY <1>1, <2>1, <2>3, TriggerOf
         DEF CalmRun, NewestFiles, Unsettled, Published, Loading, FilesInPlace, IsNewest
    <3>2. ChildMeetsFile(r)' /\ FailsAtReport(r)'
      BY <2>1, <2>3, TriggerOf DEF ChildMeetsFile, FailsAtReport
    <3>. QED  BY <1>1, <2>2, <3>1, <3>2, PastStays DEF CalmRun
  <2>4. CASE c # "customers"
    <3>1. ~Loading(r)' /\ task'[r] # "failed"
      BY <2>1, <2>4, TriggerOf DEF Loading
    <3>. QED  BY <1>1, <2>2, <3>1, SettledCalm
  <2>. QED  BY <2>3, <2>4
<1>. QED  BY <1>2, <1>3 DEF ChildEnded

LEMMA EndCalm ==
    ASSUME TypeOK, ParentsInv, Calm, ~Fault, [Next]_vars, NEW r \in Runs, CalmRun(r),
           SummaryTask(r) \/ RetentionTask(r)
    PROVE  CalmRun(r)'
<1>1. /\ task[r] \in {"summary_task", "retention_task"} /\ generator[r] = "idle"
      /\ task'[r] \in {"retention_task", "success"} /\ UNCHANGED <<generator, gen, child>>
  BY DEF SummaryTask, RetentionTask, ParentsInv, GeneratorAtWork, Calm, GoTo, TypeOK, After,
         Tasks, generatorVars, childVars
<1>. QED  BY <1>1, SettledCalm DEF Loading, PastLoading

LEMMA TimeoutCalm ==
    ASSUME TypeOK, ~Fault, [Next]_vars, NEW r \in Runs, CalmRun(r), DagrunTimeout(r)
    PROVE  CalmRun(r)'
<1>1. /\ task'[r] = "failed" /\ generator'[r] = "idle" /\ UNCHANGED <<gen, child>>
      /\ troubles'["timeout"] # 0
  BY TroubleRises
     DEF DagrunTimeout, FailParent, GoTo, TypeOK, TroubleKinds, childVars
<1>. QED  BY <1>1, SettledCalm, TriggerOf DEF Loading, PastLoading

(* A run may be cleared where it failed at its report, or as a whole. *)
LEMMA ClearCalm ==
    ASSUME TypeOK, Calm', [Next]_vars, NEW r \in Runs, CalmRun(r), Clear(r)
    PROVE  CalmRun(r)'
<1>1. troubles'["clear"] # 0 /\ troubles["timeout"] = 0
  BY TroubleRises, TroublesStay DEF Clear, TroubleKinds, Calm
<1>2. /\ generator'[r] = "idle" /\ UNCHANGED <<gen, child>> /\ task[r] \in {"success", "failed"}
      /\ task'[r] \in {"trigger_report_ready", "generate_task"}
  BY <1>1 DEF Clear, GoTo, TypeOK, childVars, CalmRun, FailsAtReport
<1>. QED  BY <1>1, <1>2, SettledCalm, TriggerOf DEF Loading, PastLoading

----------------------------------------------------------------------------
(* The children of a calm run *)

(* What a child's step leaves to show of its own run. *)
LEMMA ChildCalm ==
    ASSUME TypeOK, [Next]_vars, NEW r \in Runs, NEW c \in Children, CalmRun(r),
           childUnchanged, UNCHANGED <<place, troubles>>, ChildRuns(r, c),
           NEW to, child' = [child EXCEPT ![r][c] = to],
           \A d \in Datasets : d # c => matched'[r][d] = matched[r][d],
           c \in Datasets /\ task[r] = Trigger[c] /\ deferred[r] =>
               /\ to # "failed"
               /\ to = "process" => matched'[r][c] # 0 /\ place[c][matched'[r][c]] = gen[r]
               /\ to \in {"report_result_task", "success"} => Loaded(c, gen[r])'
    PROVE  CalmRun(r)'
<1>1. /\ UNCHANGED <<task, failedAt, deferred, gen, runOf, generator, place, troubles>>
      /\ child'[r][c] = to /\ \A k \in Children : k # c => child'[r][k] = child[r][k]
      /\ child[r][c] # "none"
  BY DEF childUnchanged, parentVars, generatorVars, TypeOK, ChildRuns, ChildTasks
<1>2. NewestFiles(r)' /\ FailsAtReport(r)'
  BY <1>1 DEF CalmRun, NewestFiles, Unsettled, Published, Loading, FilesInPlace, IsNewest,
              FailsAtReport
<1>3. ChildMeetsFile(r)'
  <2>. SUFFICES ASSUME NEW d \in Datasets, task[r] = Trigger[d], deferred[r]
                PROVE  /\ child'[r][d] # "failed"
                       /\ child'[r][d] = "process" =>
                              matched'[r][d] # 0 /\ place[d][matched'[r][d]] = gen[r]
    BY <1>1 DEF ChildMeetsFile
  <2>1. CASE d = c
    BY <1>1, <2>1
  <2>2. CASE d # c
    BY <1>1, <2>2, TriggerOf DEF CalmRun, ChildMeetsFile
  <2>. QED  BY <2>1, <2>2
<1>4. LoadedOncePast(r)'
  <2>. SUFFICES ASSUME NEW d \in Datasets, PastLoading(r, d)' PROVE Loaded(d, gen[r])'
    BY DEF LoadedOncePast
  <2>1. CASE PastLoading(r, d)
    <3>1. Loaded(d, gen[r]) /\ gen' = gen
      BY <1>1, <2>1 DEF CalmRun, LoadedOncePast
    <3>. QED  BY <3>1, LoadedStays
  <2>2. CASE ~PastLoading(r, d)
    <3>1. d = c /\ task[r] = Trigger[c] /\ deferred[r] /\ to \in {"report_result_task", "success"}
      BY <1>1, <2>2, TriggerOf DEF PastLoading
    <3>. QED  BY <3>1
  <2>. QED  BY <1>1, <2>1, <2>2
<1>. QED  BY <1>2, <1>3, <1>4 DEF CalmRun

LEMMA LoadConfigCalm ==
    ASSUME TypeOK, ~Fault, [Next]_vars, NEW r \in Runs, NEW d \in Datasets, CalmRun(r),
           LoadConfig(r, d) \/ WaitForFile(r, d)
    PROVE  CalmRun(r)'
<1>1. PICK to \in {"wait_for_file", "process_csv_task"} : child' = [child EXCEPT ![r][d] = to]
  BY DEF LoadConfig, WaitForFile, Move
<1>2. /\ childUnchanged /\ UNCHANGED <<place, troubles, matched>> /\ ChildRuns(r, d)
      /\ d \in Children
  BY TriggerOf DEF LoadConfig, WaitForFile, Move, ChildRuns, ChildTasks
<1>. QED  BY <1>1, <1>2, ChildCalm

(* The own child of a run never waits in vain. *)
LEMMA SensorTimeoutCalm ==
    ASSUME TypeOK, [Next]_vars, NEW r \in Runs, NEW d \in Datasets, CalmRun(r),
           SensorTimeout(r, d)
    PROVE  CalmRun(r)'
<1>1. /\ childUnchanged /\ UNCHANGED <<place, troubles, matched>> /\ ChildRuns(r, d)
      /\ d \in Children /\ child' = [child EXCEPT ![r][d] = "failed"]
  BY TriggerOf DEF SensorTimeout, Move, ChildRuns, ChildTasks
<1>2. task[r] # Trigger[d]
  <2>. SUFFICES ASSUME task[r] = Trigger[d] PROVE FALSE
    OBVIOUS
  <2>1. gen[r] # 0 /\ FilesInPlace(r, d)
    BY TriggerOf DEF CalmRun, NewestFiles, Unsettled, Published, Loading
  <2>. QED  BY <2>1 DEF FilesInPlace, IsNewest, SensorTimeout, InPlace
<1>. QED  BY <1>1, <1>2, ChildCalm

LEMMA MatchFileCalm ==
    ASSUME TypeOK, [Next]_vars, NEW r \in Runs, NEW d \in Datasets, CalmRun(r), MatchFile(r, d)
    PROVE  CalmRun(r)'
<1>1. /\ childUnchanged /\ UNCHANGED <<place, troubles>> /\ ChildRuns(r, d)
      /\ d \in Children /\ child' = [child EXCEPT ![r][d] = "process"]
  BY TriggerOf DEF MatchFile, Move, ChildRuns, ChildTasks
<1>2. PICK t \in Days \cup {0} :
          resolve_matched_file(d, t) /\ matched' = [matched EXCEPT ![r][d] = t]
  BY DEF MatchFile
<1>3. matched'[r][d] = t /\ \A e \in Datasets : e # d => matched'[r][e] = matched[r][e]
  BY <1>2 DEF TypeOK
<1>4. ASSUME task[r] = Trigger[d] PROVE t # 0 /\ place[d][t] = gen[r]
  <2>1. gen[r] # 0 /\ FilesInPlace(r, d)
    BY <1>4, TriggerOf DEF CalmRun, NewestFiles, Unsettled, Published, Loading
  <2>2. PICK u \in Days : IsNewest(r, d, u)
    BY <2>1 DEF FilesInPlace
  <2>3. u \in InPlace(d)
    BY <2>1, <2>2 DEF IsNewest, InPlace
  <2>4. t \in InPlace(d) /\ u <= t
    BY <1>2, <2>3 DEF resolve_matched_file
  <2>5. t = u
    BY <2>2, <2>4 DEF IsNewest, InPlace, Days
  <2>. QED  BY <2>2, <2>5 DEF IsNewest, Days
<1>. QED  BY <1>1, <1>3, <1>4, ChildCalm

(* process() of the own file: what is not loaded yet can be loaded. *)
LEMMA ProcessCalm ==
    ASSUME TypeOK, Calm, ~Fault, [Next]_vars, NEW r \in Runs, NEW d \in Datasets, CalmRun(r),
           Process(r, d)
    PROVE  CalmRun(r)'
<1>1. /\ childUnchanged /\ UNCHANGED <<place, troubles>> /\ ChildRuns(r, d)
      /\ d \in Children /\ child' = [child EXCEPT ![r][d] = "report_result_task"]
      /\ matched' = [matched EXCEPT ![r][d] = 0]
  BY TriggerOf DEF Process, Move, ChildRuns, ChildTasks
<1>2. \A e \in Datasets : e # d => matched'[r][e] = matched[r][e]
  BY <1>1 DEF TypeOK
<1>3. ASSUME task[r] = Trigger[d], deferred[r] PROVE Loaded(d, gen[r])'
  <2>1. /\ matched[r][d] # 0 /\ place[d][matched[r][d]] = gen[r]
        /\ gen[r] # 0 /\ gen[r] \in 1 .. Len(runOf)
    BY <1>3, TriggerOf
       DEF Process, Move, CalmRun, ChildMeetsFile, NewestFiles, Unsettled, Loading, TypeOK
  <2>2. \A e : KeysTaken(e, gen[r]) <=> Loaded(e, gen[r])
    BY <2>1 DEF KeysTaken, Calm, SeedsDiffer
  <2>3. d = "orders" => Loaded("customers", gen[r])
    BY <1>3, TriggerOf DEF CalmRun, LoadedOncePast, PastLoading
  <2>4. CASE Loaded(d, gen[r])
    <3>1. gen' = gen
      BY <1>1 DEF childUnchanged, generatorVars
    <3>. QED  BY <2>4, <3>1, LoadedStays
  <2>5. CASE ~Loaded(d, gen[r])
    <3>1. ledger' = Append(ledger, [ds |-> d, gen |-> gen[r], day |-> today])
      BY <2>1, <2>2, <2>3, <2>5 DEF Process
    <3>2. [ds |-> d, gen |-> gen[r], day |-> today]
              \in [ds : Datasets, gen : 1 .. Len(runOf), day : Days]
      BY <2>1 DEF TypeOK
    <3>3. Len(ledger) + 1 \in DOMAIN ledger'
          /\ ledger'[Len(ledger) + 1] = [ds |-> d, gen |-> gen[r], day |-> today]
      <4>. DEFINE S == [ds : Datasets, gen : 1 .. Len(runOf), day : Days]
      <4>1. ledger \in Seq(S)
        BY DEF TypeOK
      <4>. HIDE DEF S
      <4>2. [ds |-> d, gen |-> gen[r], day |-> today] \in S
        BY <3>2 DEF S
      <4>. QED  BY <3>1, <4>1, <4>2, LongerLedger
    <3>4. gen' = gen
      BY <1>1 DEF childUnchanged, generatorVars
    <3>. QED  BY <3>3, <3>4 DEF Loaded
  <2>. QED  BY <2>4, <2>5
<1>. QED  BY <1>1, <1>2, <1>3, ChildCalm

LEMMA ReportCalm ==
    ASSUME TypeOK, [Next]_vars, NEW r \in Runs, CalmRun(r),
           WaitForBoth(r) \/ BuildReport(r) \/ \E d \in Datasets : ReportResult(r, d)
    PROVE  CalmRun(r)'
<1>1. ASSUME WaitForBoth(r) \/ BuildReport(r) PROVE CalmRun(r)'
  <2>1. \E to : child' = [child EXCEPT ![r]["report_ready"] = to]
    BY <1>1 DEF WaitForBoth, BuildReport, Move
  <2>2. /\ childUnchanged /\ UNCHANGED <<place, troubles, matched>> /\ ChildRuns(r, "report_ready")
        /\ "report_ready" \in Children /\ "report_ready" \notin Datasets
    BY <1>1, TriggerOf DEF WaitForBoth, BuildReport, Move, ChildRuns, ChildTasks
  <2>. QED  BY <2>1, <2>2, ChildCalm
<1>2. ASSUME NEW d \in Datasets, ReportResult(r, d) PROVE CalmRun(r)'
  <2>1. /\ childUnchanged /\ UNCHANGED <<place, troubles, matched>> /\ ChildRuns(r, d)
        /\ d \in Children /\ child' = [child EXCEPT ![r][d] = "success"]
        /\ child[r][d] = "report_result_task"
    BY <1>2, TriggerOf DEF ReportResult, Move, ChildRuns, ChildTasks
  <2>2. task[r] = Trigger[d] /\ deferred[r] => Loaded(d, gen[r])'
    <3>1. task[r] = Trigger[d] /\ deferred[r] => Loaded(d, gen[r])
      BY <2>1 DEF CalmRun, LoadedOncePast, PastLoading
    <3>. QED  BY <2>1, <3>1, LoadedStays DEF childUnchanged, generatorVars
  <2>. QED  BY <2>1, <2>2, ChildCalm
<1>. QED  BY <1>1, <1>2

LEMMA CalmStep ==
    ASSUME TypeOK, ParentsInv, CalmInv, [Next]_vars
    PROVE  CalmInv'
<1>. SUFFICES ASSUME Calm', NEW q \in Runs PROVE CalmRun(q)'
  BY DEF CalmInv
<1>1. Calm /\ ~Fault /\ \A r \in Runs : CalmRun(r)
  BY CalmBefore DEF CalmInv
<1>2. ASSUME NEW r \in Runs, RunStep(r) PROVE CalmRun(q)'
  <2>1. CASE q # r
    BY <1>1, <1>2, <2>1, OthersCalm
  <2>2. CASE q = r
    <3>1. ~GenerateFails(r) /\ \A c \in Children : ~ChildTaskDies(r, c)
      BY <1>1 DEF GenerateFails, ChildTaskDies
    <3>2. CASE StartRun(r) \/ Progress(r) \/ DagrunTimeout(r) \/ Clear(r)
      BY <1>1, <2>2, <3>2, StartRunCalm, GenerateCalm, PublishCalm, GenerateDoneCalm,
         TriggerChildCalm, ChildEndedCalm, EndCalm, TimeoutCalm, ClearCalm DEF Progress
    <3>3. CASE ChildProgress(r)
      BY <1>1, <2>2, <3>3, LoadConfigCalm, SensorTimeoutCalm, MatchFileCalm, ProcessCalm,
         ReportCalm DEF ChildProgress
    <3>. QED  BY <1>2, <3>1, <3>2, <3>3 DEF RunStep
  <2>. QED  BY <2>1, <2>2
<1>3. CASE Midnight \/ UNCHANGED vars
  <2>1. /\ UNCHANGED <<task, failedAt, deferred, gen, runOf, generator, child, matched, ledger>>
        /\ UNCHANGED <<place, troubles>>
    BY <1>3 DEF Midnight, vars, parentVars, generatorVars, childVars
  <2>2. CalmRun(q)
    BY <1>1
  <2>. QED  BY <2>1, <2>2
            DEF CalmRun, NewestFiles, Unsettled, Published, Loading, FilesInPlace, IsNewest,
                ChildMeetsFile, LoadedOncePast, PastLoading, Loaded, FailsAtReport
<1>4. \A d \in Datasets : ~ClearStaleFixtures(d)
  BY <1>1 DEF ClearStaleFixtures
<1>. QED  BY <1>2, <1>3, <1>4, Steps

LEMMA InitCalm ==
    ASSUME Init
    PROVE  ParentsInv /\ CalmInv
<1>1. ParentsInv
  BY DEF Init, ParentsInv, OneActive, PairsNamed, DaysCome, NotStarted, GeneratorAtWork,
         OwnChildren, LatestPair, Active, ChildRuns, Tasks, ChildTasks
<1>2. ASSUME NEW r \in Runs PROVE CalmRun(r)
  <2>1. /\ task[r] = "none" /\ generator[r] = "idle" /\ child[r]["report_ready"] = "none"
    BY TriggerOf DEF Init
  <2>. QED  BY <2>1, TriggerOf
            DEF CalmRun, NewestFiles, Unsettled, Published, Loading, ChildMeetsFile,
                LoadedOncePast, PastLoading, FailsAtReport
<1>. QED  BY <1>1, <1>2 DEF CalmInv

----------------------------------------------------------------------------
(* The summary *)

(* A calm cascade without clears, in which no child has outlived its       *)
(* parent.                                                                 *)
OneByOne ==
    troubles["fault"] = 0 /\ troubles["clear"] = 0 /\ SeedsDiffer /\ ~orphans

RecordsInOrder == \A i, j \in DOMAIN ledger : i < j => ledger[i].gen <= ledger[j].gen

SummaryInv ==
    OneByOne =>
        /\ RecordsInOrder
        /\ \A r \in Runs : task[r] \in {"retention_task", "success"} =>
               \A d \in Datasets : summary[r][d] = gen[r]

LEMMA OneByOneBefore ==
    ASSUME TypeOK, [Next]_vars, OneByOne'
    PROVE  OneByOne /\ Calm /\ ~Fault /\ \A r \in Runs : ~Clear(r)
<1>1. Calm /\ ~Fault
  BY CalmBefore DEF Calm, OneByOne
<1>2. troubles["clear"] = 0 /\ \A r \in Runs : ~Clear(r)
  BY TroublesStay, TroubleRises DEF OneByOne, TroubleKinds, Clear
<1>3. ASSUME NEW r \in Runs, RunStep(r) PROVE ~orphans
  BY <1>3
     DEF OneByOne, RunStep, StartRun, Progress, Generate, Publish, GenerateDone, TriggerChild,
         ChildEnded, SummaryTask, RetentionTask, ChildProgress, LoadConfig, WaitForFile,
         SensorTimeout, MatchFile, Process, ReportResult, WaitForBoth, BuildReport,
         GenerateFails, DagrunTimeout, Clear, ChildTaskDies, childUnchanged, parentVars
<1>4. ASSUME UNCHANGED vars \/ Midnight \/ \E d \in Datasets : ClearStaleFixtures(d)
      PROVE  ~orphans
  <2>1. orphans' = orphans
    BY <1>4, WorldStep DEF parentVars
  <2>. QED  BY <2>1 DEF OneByOne
<1>. QED  BY <1>1, <1>2, <1>3, <1>4, Steps DEF OneByOne, Calm

(* The only child that loads is the active parent's, and it loads the      *)
(* latest pair.                                                            *)
LEMMA RecordsStep ==
    ASSUME TypeOK, ParentsInv, CalmInv, OneByOne, Calm, RecordsInOrder, [Next]_vars
    PROVE  RecordsInOrder'
<1>1. CASE UNCHANGED ledger
  BY <1>1 DEF RecordsInOrder
<1>2. ASSUME NEW r \in Runs, NEW d \in Datasets, Process(r, d), matched[r][d] # 0,
             ledger' = Append(ledger, [ds |-> d, gen |-> place[d][matched[r][d]], day |-> today])
      PROVE  RecordsInOrder'
  <2>1. d \in Children /\ child[r][d] = "process" /\ ChildRuns(r, d)
    BY <1>2, TriggerOf DEF Process, Move, ChildRuns, ChildTasks
  <2>2. task[r] = Trigger[d] /\ deferred[r]
    BY <2>1 DEF ParentsInv, OwnChildren, OneByOne
  <2>3. /\ place[d][matched[r][d]] = Len(runOf) /\ Len(runOf) # 0 /\ Len(runOf) \in Nat
    <3>1. CalmRun(r) /\ Loading(r)
      BY <2>2, TriggerOf DEF CalmInv, Loading
    <3>2. gen[r] # 0 /\ gen[r] = Len(runOf) /\ place[d][matched[r][d]] = gen[r]
      BY <2>1, <2>2, <3>1 DEF CalmRun, ChildMeetsFile, NewestFiles, Unsettled
    <3>. QED  BY <3>2 DEF TypeOK
  <2>. DEFINE S == [ds : Datasets, gen : 1 .. Len(runOf), day : Days]
              x == [ds |-> d, gen |-> Len(runOf), day |-> today]
  <2>4. ledger \in Seq(S) /\ x \in S /\ ledger' = Append(ledger, x) /\ x.gen = Len(runOf)
    BY <1>2, <2>3 DEF TypeOK
  <2>5. \A i \in DOMAIN ledger : ledger[i].gen \in 1 .. Len(runOf)
    BY LedgerOf
  <2>. HIDE DEF S, x
  <2>6. /\ DOMAIN ledger = 1 .. Len(ledger) /\ Len(ledger) \in Nat
        /\ DOMAIN ledger' = 1 .. Len(ledger) + 1 /\ ledger'[Len(ledger) + 1] = x
        /\ \A i \in DOMAIN ledger : ledger'[i] = ledger[i]
    BY <2>4, LongerLedger
  <2>7. ASSUME NEW i \in DOMAIN ledger', NEW j \in DOMAIN ledger', i < j
        PROVE  ledger'[i].gen <= ledger'[j].gen
    <3>1. CASE j \in DOMAIN ledger
      BY <2>6, <2>7, <3>1 DEF RecordsInOrder
    <3>2. CASE j = Len(ledger) + 1
      BY <2>3, <2>4, <2>5, <2>6, <2>7, <3>2
    <3>. QED  BY <2>6, <3>1, <3>2
  <2>. QED  BY <2>7 DEF RecordsInOrder
<1>. QED  BY <1>1, <1>2, LedgerStays

(* So the last record of a dataset is the active parent's. *)
LEMMA SummaryTaskLogs ==
    ASSUME TypeOK, ParentsInv, CalmInv, OneByOne, Calm, ~Fault, RecordsInOrder,
           NEW r \in Runs, SummaryTask(r), NEW d \in Datasets
    PROVE  summary'[r][d] = gen[r]
<1>1. PICK latest \in [Datasets -> 0 .. Len(runOf)] :
          Latest(d, latest[d]) /\ summary' = [summary EXCEPT ![r] = latest]
  BY DEF SummaryTask
<1>2. task[r] = "summary_task" /\ Active(r)
  BY DEF SummaryTask, Active, Tasks
<1>3. PICK k \in DOMAIN ledger : ledger[k].ds = d /\ ledger[k].gen = gen[r]
  BY <1>2 DEF CalmInv, CalmRun, LoadedOncePast, PastLoading, Loaded
<1>4. gen[r] = Len(runOf)
  <2>1. gen[r] # 0
    BY <1>3, LedgerOf
  <2>. QED  BY <1>2, <2>1 DEF ParentsInv, LatestPair, OneByOne
<1>5. PICK i \in Records(d) : (\A j \in Records(d) : j <= i) /\ latest[d] = ledger[i].gen
  BY <1>1, <1>3 DEF Latest, Records
<1>6. i \in DOMAIN ledger /\ k <= i /\ ledger[i].gen \in 1 .. Len(runOf)
  BY <1>3, <1>5, LedgerOf DEF Records
<1>7. ledger[k].gen <= ledger[i].gen
  <2>. DEFINE S == [ds : Datasets, gen : 1 .. Len(runOf), day : Days]
  <2>1. ledger \in Seq(S)
    BY DEF TypeOK
  <2>. HIDE DEF S
  <2>2. k \in Nat /\ i \in Nat
    BY <1>6, <2>1
  <2>. QED  BY <1>6, <2>2 DEF RecordsInOrder
<1>8. Len(runOf) \in Nat
  BY DEF TypeOK
<1>9. latest[d] = gen[r]
  BY <1>3, <1>4, <1>5, <1>6, <1>7, <1>8
<1>. QED  BY <1>1, <1>9 DEF TypeOK

(* No other step leads to the tasks behind summary_task. *)
LEMMA BehindSummary ==
    ASSUME TypeOK, NEW r \in Runs, RunStep(r), ~Clear(r), ~SummaryTask(r),
           task'[r] \in {"retention_task", "success"}
    PROVE  /\ task[r] \in {"retention_task", "success"}
           /\ gen'[r] = gen[r] /\ summary'[r] = summary[r]
<1>. USE DEF TypeOK, parentVars, generatorVars
<1>1. ~StartRun(r) /\ ~GenerateFails(r) /\ ~DagrunTimeout(r) /\ ~GenerateDone(r)
  BY DEF StartRun, GenerateFails, DagrunTimeout, GenerateDone, GoTo, FailParent, After, Tasks
<1>2. ~Generate(r)
  BY DEF Generate
<1>3. ASSUME NEW c \in Children PROVE ~TriggerChild(r, c) /\ ~ChildEnded(r, c)
  BY TriggerOf DEF TriggerChild, ChildEnded, CreateChild, GoTo, FailParent, After, Tasks
<1>4. CASE Publish(r) \/ RetentionTask(r)
  BY <1>4 DEF Publish, RetentionTask
<1>5. CASE ChildProgress(r) \/ \E c \in Children : ChildTaskDies(r, c)
  BY <1>5
     DEF ChildProgress, ChildTaskDies, LoadConfig, WaitForFile, SensorTimeout, MatchFile,
         Process, ReportResult, WaitForBoth, BuildReport, childUnchanged
<1>. QED  BY <1>1, <1>2, <1>3, <1>4, <1>5 DEF RunStep, Progress

LEMMA SummaryStep ==
    ASSUME TypeOK, ParentsInv, CalmInv, SummaryInv, [Next]_vars
    PROVE  SummaryInv'
<1>. SUFFICES ASSUME OneByOne' PROVE SummaryInv'
  BY DEF SummaryInv
<1>1. OneByOne /\ Calm /\ ~Fault /\ \A r \in Runs : ~Clear(r)
  BY OneByOneBefore
<1>2. RecordsInOrder'
  BY <1>1, RecordsStep DEF SummaryInv
<1>3. ASSUME NEW q \in Runs, task'[q] \in {"retention_task", "success"}, NEW d \in Datasets
      PROVE  summary'[q][d] = gen'[q]
  <2>1. task[q] \in {"retention_task", "success"} => summary[q][d] = gen[q]
    BY <1>1 DEF SummaryInv
  <2>2. ASSUME NEW r \in Runs, RunStep(r) PROVE summary'[q][d] = gen'[q]
    <3>1. CASE q # r
      BY <1>3, <2>1, <2>2, <3>1, OthersSame
    <3>2. CASE q = r /\ SummaryTask(r)
      <4>1. gen' = gen
        BY <3>2 DEF SummaryTask, generatorVars
      <4>. QED  BY <1>1, <3>2, <4>1, SummaryTaskLogs DEF SummaryInv
    <3>3. CASE q = r /\ ~SummaryTask(r)
      BY <1>1, <1>3, <2>1, <2>2, <3>3, BehindSummary
    <3>. QED  BY <3>1, <3>2, <3>3
  <2>3. CASE UNCHANGED vars \/ Midnight \/ \E e \in Datasets : ClearStaleFixtures(e)
    BY <1>3, <2>1, <2>3, WorldStep DEF parentVars, generatorVars
  <2>. QED  BY <2>2, <2>3, Steps
<1>. QED  BY <1>2, <1>3 DEF SummaryInv

LEMMA InitSummary ==
    ASSUME Init
    PROVE  SummaryInv
BY DEF Init, SummaryInv, RecordsInOrder

----------------------------------------------------------------------------
(* The theorems about calm cascades *)

(* One parent is active at a time and its files are the newest in place;   *)
(* in a calm cascade its children match and load them, and nothing but     *)
(* them: what the two theorems below rest on.                              *)
THEOREM CascadeRunsInOrder == Spec => [](ParentsInv /\ CalmInv /\ SummaryInv)
<1>. DEFINE Inv == IInv /\ ParentsInv /\ CalmInv /\ SummaryInv
<1>1. Init => Inv
  BY InitTypes, InitPass, InitCalm, InitSummary DEF IInv
<1>2. Inv /\ [Next]_vars => Inv'
  BY NextTypes, NextPass, ParentsStep, CalmStep, SummaryStep DEF IInv
<1>. QED  BY <1>1, <1>2, PTL DEF Spec

(* The report of a run reads tables with the run's own pair of files, or   *)
(* with a newer one: the report's child is only created once both are      *)
(* loaded, and what is loaded stays.                                       *)
THEOREM ReportsReadTheirRun == Spec => []ReportsSeeTheirRun
<1>1. TypeOK /\ CalmInv => ReportsSeeTheirRun
  <2>. SUFFICES ASSUME TypeOK, CalmInv, NEW r \in Runs, Calm, child[r]["report_ready"] # "none"
                PROVE  \E g \in gen[r] .. Len(runOf) : \A d \in Datasets : Loaded(d, g)
    BY DEF ReportsSeeTheirRun, Calm
  <2>1. \A d \in Datasets : Loaded(d, gen[r])
    BY DEF CalmInv, CalmRun, LoadedOncePast, PastLoading
  <2>2. gen[r] \in gen[r] .. Len(runOf)
    BY DEF TypeOK
  <2>. QED  BY <2>1, <2>2
<1>. QED  BY <1>1, CascadeTypes, CascadeRunsInOrder, PTL

(* The summary counts exactly the two files of its run.                    *)
THEOREM SummariesCountTheirRun == Spec => []SummaryIsOfThisRun
<1>1. SummaryInv => SummaryIsOfThisRun
  BY DEF SummaryInv, OneByOne, SummaryIsOfThisRun
<1>. QED  BY <1>1, CascadeRunsInOrder, PTL

=============================================================================
