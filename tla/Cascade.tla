------------------------------ MODULE Cascade ------------------------------
(***************************************************************************)
(* The three DAGs together.  ingestion_cascade_orchestrator generates a    *)
(* pair of files and triggers, one after the other and waiting for each,   *)
(* an ingest run of customers, one of orders, and a report run; then it    *)
(* logs a summary and sweeps old files.                                    *)
(*                                                                         *)
(* The orchestrator's runs are the parents, numbered as they are queued;   *)
(* each has up to three child runs, named after it.  A parent that hits    *)
(* dagrun_timeout ends, its children go on.  An operator may clear a       *)
(* failed task or run a whole DagRun again.  The generator, the load and   *)
(* the partition trigger appear as what GeneratorStaging, EngineProcess    *)
(* and PartitionTrigger show of them: files are put in place whole, a load *)
(* happens at once or not at all, a wait ends with an event or an error.   *)
(***************************************************************************)
EXTENDS Integers, Sequences, FiniteSets

CONSTANTS
    MaxRuns,         \* bound: orchestrator DagRuns
    MaxDay,          \* bound: days of the clock
    MaxTroubles,     \* bound: faults, clears and timeouts together
    RetentionDays,   \* _RETENTION_DAYS
    seed             \* derive_seed() of each parent: the minute it is for

ASSUME CascadeBounds ==
    /\ MaxRuns \in Nat \ {0} /\ MaxDay \in Nat \ {0}
    /\ MaxTroubles \in Nat /\ RetentionDays \in Nat
    /\ seed \in [1 .. MaxRuns -> Nat]

VARIABLES
    today,       \* the day of the containers' clock
    task,        \* per parent, the task it is at, "none", "success" or "failed"
    failedAt,    \* the task a failed parent failed at
    deferred,    \* the parent's trigger task waits for its child
    gen,         \* the number of the parent's latest pair of files
    runOf,       \* the parent each pair of files was made for
    generator,   \* the parent's generate_csv.py: the file it writes next
    place,       \* per dataset and day, the pair the file in place belongs to
    child,       \* per parent and child, the task it is at
    matched,     \* the day in the name of the file process_csv_task chose
    result,      \* the status of the child's last result
    ledger,      \* ingestion_metadata, in order of processed_at
    summary,     \* what summary_task logged
    orphans,     \* a parent has ended before its child
    troubles     \* faults, clears and timeouts so far

parentVars == <<task, failedAt, deferred, summary, orphans>>
generatorVars == <<gen, runOf, generator>>
childVars == <<child, matched, result>>
vars == <<today, parentVars, generatorVars, place, childVars, ledger, troubles>>

Runs == 1 .. MaxRuns
Days == 1 .. MaxDay
Datasets == {"customers", "orders"}
Children == {"customers", "orders", "report_ready"}

Trigger == [c \in Children |-> CASE c = "customers" -> "trigger_customers"
                                 [] c = "orders" -> "trigger_orders"
                                 [] c = "report_ready" -> "trigger_report_ready"]
Tasks == {"generate_task", "trigger_customers", "trigger_orders",
          "trigger_report_ready", "summary_task", "retention_task"}

(* generate_task >> trigger_customers >> ... >> retention_task *)
After == [t \in Tasks |->
    CASE t = "generate_task" -> "trigger_customers"
      [] t = "trigger_customers" -> "trigger_orders"
      [] t = "trigger_orders" -> "trigger_report_ready"
      [] t = "trigger_report_ready" -> "summary_task"
      [] t = "summary_task" -> "retention_task"
      [] t = "retention_task" -> "success"]

ChildTasks == {"load_config_task", "wait_for_file", "process_csv_task", "process",
               "report_result_task", "wait_for_both_datasets", "build_report_task"}
Statuses == {"none", "SUCCESS", "DUPLICATE", "DATABASE_ERROR", "FILE_NOT_FOUND",
             "CONFIGURATION_ERROR"}

Active(r) == task[r] \in Tasks
ChildRuns(r, c) == child[r][c] \in ChildTasks
Writing(r) == generator[r] \in Datasets

TroubleKinds == {"fault", "clear", "timeout"}
TroubleCount == troubles["fault"] + troubles["clear"] + troubles["timeout"]

Trouble(kind) ==
    /\ TroubleCount < MaxTroubles
    /\ troubles' = [troubles EXCEPT ![kind] = @ + 1]
Fault == Trouble("fault")

----------------------------------------------------------------------------
(* The parent's tasks *)

Init ==
    /\ today = 1
    /\ task = [r \in Runs |-> "none"]
    /\ failedAt = [r \in Runs |-> "generate_task"]
    /\ deferred = [r \in Runs |-> FALSE]
    /\ gen = [r \in Runs |-> 0]
    /\ runOf = <<>>
    /\ generator = [r \in Runs |-> "idle"]
    /\ place = [d \in Datasets |-> [t \in Days |-> 0]]
    /\ child = [r \in Runs |-> [c \in Children |-> "none"]]
    /\ matched = [r \in Runs |-> [d \in Datasets |-> 0]]
    /\ result = [r \in Runs |-> [d \in Datasets |-> "none"]]
    /\ ledger = <<>>
    /\ summary = [r \in Runs |-> [d \in Datasets |-> 0]]
    /\ orphans = FALSE
    /\ troubles = [k \in TroubleKinds |-> 0]

GoTo(r, t) == task' = [task EXCEPT ![r] = t] /\ deferred' = [deferred EXCEPT ![r] = FALSE]

\* Faulty variant: the failed task is noted after it was left.
FailLeftParent(r) == GoTo(r, "failed") /\ failedAt' = [failedAt EXCEPT ![r] = task'[r]]

(* retries=0: a task that fails ends the parent. *)
FailParent(r) == GoTo(r, "failed") /\ failedAt' = [failedAt EXCEPT ![r] = task[r]]

(* The next DagRun starts, by schedule or by hand, when no other is active *)
(* (max_active_runs=1).                                                    *)
StartRun(r) ==
    /\ task[r] = "none"
    /\ \A q \in Runs : ~Active(q) /\ (q < r => task[q] # "none")
    /\ GoTo(r, "generate_task")
    /\ UNCHANGED <<today, failedAt, summary, orphans, generatorVars, place, childVars,
                   ledger, troubles>>

(* subprocess.run() of generate_csv.py --correlated *)
Generate(r) ==
    /\ task[r] = "generate_task" /\ generator[r] = "idle"
    /\ runOf' = Append(runOf, r)
    /\ gen' = [gen EXCEPT ![r] = Len(runOf')]
    /\ generator' = [generator EXCEPT ![r] = "customers"]
    /\ UNCHANGED <<today, parentVars, place, childVars, ledger, troubles>>

(* The generator puts its next file in place, under the day's name. *)
Publish(r) ==
    /\ Writing(r)
    /\ place' = [place EXCEPT ![generator[r]][today] = gen[r]]
    /\ generator' = [generator EXCEPT ![r] = IF @ = "customers" THEN "orders" ELSE "done"]
    /\ UNCHANGED <<today, parentVars, gen, runOf, childVars, ledger, troubles>>

GenerateDone(r) ==
    /\ task[r] = "generate_task" /\ generator[r] = "done"
    /\ GoTo(r, After[task[r]])
    /\ generator' = [generator EXCEPT ![r] = "idle"]
    /\ UNCHANGED <<today, failedAt, summary, orphans, gen, runOf, place, childVars,
                   ledger, troubles>>

(* The generator exits with an error or is killed after 60 seconds. *)
GenerateFails(r) ==
    /\ task[r] = "generate_task" /\ Writing(r)
    /\ Fault
    /\ FailParent(r)
    /\ generator' = [generator EXCEPT ![r] = "idle"]
    /\ UNCHANGED <<today, summary, orphans, gen, runOf, place, childVars, ledger>>

FirstTask(c) == IF c = "report_ready" THEN "wait_for_both_datasets" ELSE "load_config_task"

CreateChild(r, c) ==
    /\ child' = [child EXCEPT ![r][c] = FirstTask(c)]
    /\ result' = IF c \in Datasets THEN [result EXCEPT ![r][c] = "none"] ELSE result
    /\ deferred' = [deferred EXCEPT ![r] = TRUE]
    /\ UNCHANGED <<task, matched>>

\* Faulty variant: skip_when_already_exists without reset_dag_run skips the
\* task, and with it all tasks behind it: the DagRun counts as a success.
TriggerOrSkip(r, c) ==
    /\ task[r] = Trigger[c] /\ ~deferred[r]
    /\ IF child[r][c] = "none" THEN CreateChild(r, c)
       ELSE GoTo(r, "success") /\ UNCHANGED childVars
    /\ UNCHANGED <<today, failedAt, summary, orphans, generatorVars, place, ledger,
                   troubles>>

(* TriggerDagRunOperator: the child is created, or cleared if it exists    *)
(* (reset_dag_run), and the task defers until it ends.                     *)
TriggerChild(r, c) ==
    /\ task[r] = Trigger[c] /\ ~deferred[r]
    /\ CreateChild(r, c)
    /\ UNCHANGED <<today, failedAt, summary, orphans, generatorVars, place, ledger,
                   troubles>>

ChildEnded(r, c) ==
    /\ task[r] = Trigger[c] /\ deferred[r]
    /\ \/ child[r][c] = "success" /\ GoTo(r, After[task[r]]) /\ UNCHANGED failedAt
       \/ child[r][c] = "failed" /\ FailParent(r)
    /\ UNCHANGED <<today, summary, orphans, generatorVars, place, childVars, ledger,
                   troubles>>

Records(d) == {i \in DOMAIN ledger : ledger[i].ds = d}

\* Faulty variant: ORDER BY processed_at without DESC.
Earliest(d, g) ==
    \/ Records(d) = {} /\ g = 0
    \/ \E i \in Records(d) : (\A j \in Records(d) : i <= j) /\ g = ledger[i].gen

(* _LATEST_INGESTION_SQL: the last record of d is of pair g; 0: NO_DATA. *)
Latest(d, g) ==
    \/ Records(d) = {} /\ g = 0
    \/ \E i \in Records(d) : (\A j \in Records(d) : j <= i) /\ g = ledger[i].gen

SummaryTask(r) ==
    /\ task[r] = "summary_task"
    /\ \/ /\ \E latest \in [Datasets -> 0 .. Len(runOf)] :
                /\ \A d \in Datasets : Latest(d, latest[d])
                /\ summary' = [summary EXCEPT ![r] = latest]
          /\ GoTo(r, After[task[r]])
          /\ UNCHANGED <<failedAt, troubles>>
       \/ Fault /\ FailParent(r) /\ UNCHANGED summary
    /\ UNCHANGED <<today, orphans, generatorVars, place, childVars, ledger>>

(* A file's date is the midnight its day begins with; the cutoff is        *)
(* RetentionDays before now, at some time of the day.                      *)
Expired(d) == {t \in Days : place[d][t] # 0 /\ t <= today - RetentionDays}
Overdue(d) == {t \in Expired(d) : t < today - RetentionDays}

(* Files that cannot be deleted are skipped: the sweep never fails. *)
RetentionTask(r) ==
    /\ task[r] = "retention_task"
    /\ \E gone \in [Datasets -> SUBSET Days] :
          /\ \A d \in Datasets : gone[d] \subseteq Expired(d)
          /\ \/ \A d \in Datasets : Overdue(d) \subseteq gone[d] /\ UNCHANGED troubles
             \/ Fault
          /\ place' = [d \in Datasets |-> [t \in Days |->
                           IF t \in gone[d] THEN 0 ELSE place[d][t]]]
    /\ GoTo(r, After[task[r]])
    /\ UNCHANGED <<today, failedAt, summary, orphans, generatorVars, childVars, ledger>>

(* dagrun_timeout: the parent's task is stopped, its child is not.  A      *)
(* generator that is still writing may outlive its task.                   *)
DagrunTimeout(r) ==
    /\ Active(r)
    /\ FailParent(r)
    /\ orphans' = (orphans \/ \E c \in Children : ChildRuns(r, c))
    /\ \/ /\ Trouble("timeout")
          /\ generator' = [generator EXCEPT ![r] = "idle"]
       \/ /\ Writing(r) /\ Fault
          /\ UNCHANGED generator
    /\ UNCHANGED <<today, summary, gen, runOf, place, childVars, ledger>>

(* An operator clears the failed task, or all tasks of a run. *)
Clear(r) ==
    /\ Trouble("clear")
    /\ \A q \in Runs : ~Active(q)
    /\ ~Writing(r)
    /\ \/ task[r] = "failed" /\ GoTo(r, failedAt[r])
       \/ task[r] \in {"success", "failed"} /\ GoTo(r, "generate_task")
    /\ generator' = [generator EXCEPT ![r] = "idle"]
    /\ UNCHANGED <<today, failedAt, summary, orphans, gen, runOf, place, childVars,
                   ledger>>

----------------------------------------------------------------------------
(* The child runs *)

childUnchanged == UNCHANGED <<today, parentVars, generatorVars>>

Move(r, c, from, to) == child[r][c] = from /\ child' = [child EXCEPT ![r][c] = to]
SetResult(r, d, s) == result' = [result EXCEPT ![r][d] = s]

(* load_config_task and route_after_config; a config that does not load    *)
(* ends the run early, in success.                                         *)
LoadConfig(r, d) ==
    /\ \/ Move(r, d, "load_config_task", "wait_for_file") /\ UNCHANGED <<result, troubles>>
       \/ /\ Move(r, d, "load_config_task", "report_result_task")
          /\ SetResult(r, d, "CONFIGURATION_ERROR")
          /\ Fault
    /\ UNCHANGED <<place, matched, ledger>> /\ childUnchanged

InPlace(d) == {t \in Days : place[d][t] # 0}

(* FileSensor: any file will do. *)
WaitForFile(r, d) ==
    /\ InPlace(d) # {}
    /\ Move(r, d, "wait_for_file", "process_csv_task")
    /\ UNCHANGED <<place, matched, result, ledger, troubles>> /\ childUnchanged

\* Faulty variant: the sensor has no timeout.
SensorWaits(r, d) == FALSE

(* timeout=3600 *)
SensorTimeout(r, d) ==
    /\ InPlace(d) = {}
    /\ Move(r, d, "wait_for_file", "failed")
    /\ UNCHANGED <<place, matched, result, ledger, troubles>> /\ childUnchanged

\* Faulty variant: sorted(...)[0], which the code once had.
OldestMatch(d, t) ==
    IF InPlace(d) = {} THEN t = 0 ELSE t \in InPlace(d) /\ \A u \in InPlace(d) : t <= u

(* The last name in order is the newest day's; 0: no match. *)
resolve_matched_file(d, t) ==
    IF InPlace(d) = {} THEN t = 0 ELSE t \in InPlace(d) /\ \A u \in InPlace(d) : u <= t

MatchFile(r, d) ==
    /\ Move(r, d, "process_csv_task", "process")
    /\ \E t \in Days \cup {0} : /\ resolve_matched_file(d, t)
                              /\ matched' = [matched EXCEPT ![r][d] = t]
    /\ UNCHANGED <<place, result, ledger, troubles>> /\ childUnchanged

Loaded(d, g) == \E i \in DOMAIN ledger : ledger[i].ds = d /\ ledger[i].gen = g
SeedOf(g) == seed[runOf[g]]

(* Keys are made from the seed: the rows of pair g find theirs taken.  The *)
(* checksum covers the time of writing in the gzip header, so another pair *)
(* of the same seed is another file.                                       *)
KeysTaken(d, g) == \E h \in 1 .. Len(runOf) : SeedOf(h) = SeedOf(g) /\ Loaded(d, h)

(* process() on the matched file.  A lost session ends it in an error, also *)
(* when it is lost with the answer to a commit that has landed.            *)
Process(r, d) ==
    LET t == matched[r][d]
        g == IF t = 0 THEN 0 ELSE place[d][t]
    IN  /\ Move(r, d, "process", "report_result_task")
        /\ \/ /\ g = 0
              /\ SetResult(r, d, "FILE_NOT_FOUND") /\ UNCHANGED <<ledger, troubles>>
           \/ /\ g # 0 /\ Loaded(d, g)
              /\ SetResult(r, d, "DUPLICATE") /\ UNCHANGED <<ledger, troubles>>
           \/ /\ g # 0 /\ ~Loaded(d, g)
              /\ KeysTaken(d, g) \/ (d = "orders" /\ ~KeysTaken("customers", g))
              /\ SetResult(r, d, "DATABASE_ERROR") /\ UNCHANGED <<ledger, troubles>>
           \/ /\ g # 0 /\ ~KeysTaken(d, g)
              /\ d = "orders" => KeysTaken("customers", g)
              /\ ledger' = Append(ledger, [ds |-> d, gen |-> g, day |-> today])
              /\ \/ SetResult(r, d, "SUCCESS") /\ UNCHANGED troubles
                 \/ SetResult(r, d, "DATABASE_ERROR") /\ Fault
           \/ /\ Fault
              /\ SetResult(r, d, "DATABASE_ERROR") /\ UNCHANGED ledger
        /\ matched' = [matched EXCEPT ![r][d] = 0]
        /\ UNCHANGED place /\ childUnchanged

(* load_results_task and report_result_task: no status fails the run. *)
ReportResult(r, d) ==
    /\ Move(r, d, "report_result_task", "success")
    /\ UNCHANGED <<place, matched, result, ledger, troubles>> /\ childUnchanged

(* A worker or a session dies under a task; the tasks have no retries. *)
ChildTaskDies(r, c) ==
    /\ ChildRuns(r, c)
    /\ child' = [child EXCEPT ![r][c] = "failed"]
    /\ Fault
    /\ UNCHANGED <<place, matched, result, ledger>> /\ childUnchanged

BothToday == \A d \in Datasets : \E i \in DOMAIN ledger :
                 ledger[i].ds = d /\ ledger[i].day = today

WaitForBoth(r) ==
    /\ \/ BothToday /\ Move(r, "report_ready", "wait_for_both_datasets", "build_report_task")
       \/ ~BothToday /\ Move(r, "report_ready", "wait_for_both_datasets", "failed")
    /\ UNCHANGED <<place, matched, result, ledger, troubles>> /\ childUnchanged

BuildReport(r) ==
    /\ Move(r, "report_ready", "build_report_task", "success")
    /\ UNCHANGED <<place, matched, result, ledger, troubles>> /\ childUnchanged

----------------------------------------------------------------------------
(* The world around them *)

Midnight ==
    /\ today < MaxDay /\ today' = today + 1
    /\ UNCHANGED <<parentVars, generatorVars, place, childVars, ledger, troubles>>

(* regenerate_readme_summary.py deletes all files of a dataset. *)
ClearStaleFixtures(d) ==
    /\ Fault
    /\ place' = [place EXCEPT ![d] = [t \in Days |-> 0]]
    /\ UNCHANGED <<today, parentVars, generatorVars, childVars, ledger>>

Progress(r) ==
    \/ Generate(r) \/ Publish(r) \/ GenerateDone(r)
    \/ \E c \in Children : TriggerChild(r, c) \/ ChildEnded(r, c)
    \/ SummaryTask(r) \/ RetentionTask(r)

ChildProgress(r) ==
    \/ \E d \in Datasets : \/ LoadConfig(r, d) \/ WaitForFile(r, d) \/ SensorTimeout(r, d)
                           \/ MatchFile(r, d) \/ Process(r, d) \/ ReportResult(r, d)
    \/ WaitForBoth(r) \/ BuildReport(r)

Next ==
    \/ \E r \in Runs : \/ StartRun(r) \/ Progress(r) \/ ChildProgress(r)
                       \/ GenerateFails(r) \/ DagrunTimeout(r) \/ Clear(r)
                       \/ \E c \in Children : ChildTaskDies(r, c)
    \/ Midnight
    \/ \E d \in Datasets : ClearStaleFixtures(d)

(* Scheduler, workers and triggerer keep going; nothing is assumed of the  *)
(* operator, of new DagRuns or of dagrun_timeout.                          *)
Fairness == \A r \in Runs : WF_vars(Progress(r)) /\ WF_vars(ChildProgress(r))

Spec == Init /\ [][Next]_vars /\ Fairness

----------------------------------------------------------------------------
(* Properties *)

TypeOK ==
    /\ today \in Days
    /\ task \in [Runs -> Tasks \cup {"none", "success", "failed"}]
    /\ failedAt \in [Runs -> Tasks]
    /\ deferred \in [Runs -> BOOLEAN]
    /\ gen \in [Runs -> 0 .. Len(runOf)]
    /\ runOf \in Seq(Runs)
    /\ generator \in [Runs -> Datasets \cup {"idle", "done"}]
    /\ place \in [Datasets -> [Days -> 0 .. Len(runOf)]]
    /\ child \in [Runs -> [Children -> ChildTasks \cup {"none", "success", "failed"}]]
    /\ matched \in [Runs -> [Datasets -> Days \cup {0}]]
    /\ result \in [Runs -> [Datasets -> Statuses]]
    /\ ledger \in Seq([ds : Datasets, gen : 1 .. Len(runOf), day : Days])
    /\ summary \in [Runs -> [Datasets -> 0 .. Len(runOf)]]
    /\ orphans \in BOOLEAN
    /\ troubles \in [TroubleKinds -> Nat]
    /\ TroubleCount <= MaxTroubles

(* A parent is only a success when all its children are, also after an     *)
(* operator cleared what had failed: a retry never hides a failed child    *)
(* (the orchestrator's reset_dag_run, "masking the failure").              *)
SuccessMeansChildrenSucceeded ==
    \A r \in Runs : task[r] = "success" => \A c \in Children : child[r][c] = "success"

SeedsDiffer == \A g, h \in 1 .. Len(runOf) : SeedOf(g) = SeedOf(h) => g = h

(* As long as nothing fails, a run's report is built from tables that hold *)
(* its own pair of files whole, or a newer pair that took its place,       *)
(* although its trigger takes any records of the day and earlier runs may  *)
(* have left children behind - unless a run was cleared where another one  *)
(* had timed out: its children then meet files that nothing has loaded.    *)
(* (The seeds of two runs of one minute and of a re-run clash: see         *)
(* RerunsAreNoOps.)                                                        *)
ReportsSeeTheirRun ==
    \A r \in Runs :
        /\ child[r]["report_ready"] \in {"build_report_task", "success"}
        /\ troubles["fault"] = 0 /\ SeedsDiffer
        /\ troubles["clear"] = 0 \/ troubles["timeout"] = 0
        => \E g \in gen[r] .. Len(runOf) : \A d \in Datasets : Loaded(d, g)

(* ... and its summary counts exactly its own two files, unless a child    *)
(* outlived its parent or an operator ran parts of an earlier run again.   *)
SummaryIsOfThisRun ==
    \A r \in Runs :
        /\ task[r] \in {"retention_task", "success"}
        /\ troubles["fault"] = 0 /\ troubles["clear"] = 0 /\ SeedsDiffer /\ ~orphans
        => \A d \in Datasets : summary[r][d] = gen[r]

(* The runs started come to an end, parents, and children with or without  *)
(* them, also when their file is taken away or the records of the day      *)
(* never come.                                                             *)
Quiet == \A r \in Runs : ~Active(r) /\ \A c \in Children : ~ChildRuns(r, c)
RunsEnd == <>[]Quiet

(* Running a cascade again does no harm: its files are recognised as       *)
(* loaded.                                                                 *)
RerunsAreNoOps ==
    troubles["fault"] = 0 /\ ~orphans
        => \A r \in Runs, d \in Datasets : result[r][d] # "DATABASE_ERROR"
=============================================================================
