-------------------------- MODULE PartitionTrigger --------------------------
(***************************************************************************)
(* OraclePartitionReadyTrigger.run(): the coroutine of the triggerer that   *)
(* polls ingestion_metadata until every required dataset has a record of   *)
(* today, for the sensor of the customers_orders_report DAG.               *)
(*                                                                         *)
(* Loads commit and the database's day changes between any two awaits.     *)
(* A poll may fail at the connection or at the query, and the triggerer    *)
(* may die and run() start anew elsewhere. Time is in seconds and passes   *)
(* in polls and in sleeps.                                                 *)
(***************************************************************************)
EXTENDS Integers, FiniteSets

CONSTANTS
  Dataset,              \* the datasets the query counts
  PokeInterval,         \* poke_interval
  MaxWaitSeconds,       \* max_wait_seconds
  MaxTransientRetries,  \* _MAX_TRANSIENT_RETRIES
  RetryBaseDelay,       \* _RETRY_BASE_DELAY_SECONDS
  PollSeconds,          \* how long one poll may take
  LongestPoll,          \* the longest of them
  MaxDay,               \* bound on the days the database's clock runs through
  MaxRestarts           \* bound on the triggerer's crashes

ASSUME TriggerAssumption ==
  /\ IsFiniteSet(Dataset)
  /\ PokeInterval \in Nat \ {0} /\ MaxWaitSeconds \in Nat
  /\ MaxTransientRetries \in Nat /\ RetryBaseDelay \in Nat
  /\ LongestPoll \in Nat /\ PollSeconds \subseteq 0 .. LongestPoll
  /\ PollSeconds # {}
  /\ MaxDay \in Nat /\ MaxRestarts \in Nat

VARIABLES
  pc,            \* the await run() is at
  retry_count, wait_count, count,
  status,        \* how run() ended: "ready" is its one event, the others raise
  now, wake,     \* the clock, and when the running sleep ends
  startedAt,     \* when run() was last started
  answeredAt,    \* when Oracle last answered a poll of it, or when it started
  processed,     \* the datasets with a record, by day of processed_at
  today,         \* TRUNC(SYSDATE)
  restarts

counters == <<retry_count, wait_count, count>>
clock == <<now, wake, startedAt, answeredAt>>
oracle == <<processed, today>>
vars == <<pc, counters, status, clock, oracle, restarts>>

Failure == {"timeout", "unreachable", "error"}

\* One attempt at least, and no fraction of one.
MaxWaitAttempts ==
  LET whole == MaxWaitSeconds \div PokeInterval IN IF whole < 1 THEN 1 ELSE whole

\* The backoff before retry n doubles up to the poke interval.
Delay(n) ==
  LET doubled == RetryBaseDelay * 2 ^ (n - 1)
  IN  IF doubled \in 0 .. PokeInterval THEN doubled ELSE PokeInterval

TypeOK ==
  /\ pc \in {"connect", "query", "answered", "sleep", "done"}
  /\ retry_count \in 0 .. MaxTransientRetries + 1
  /\ wait_count \in 0 .. MaxWaitAttempts + 1
  /\ count \in 0 .. Cardinality(Dataset)
  /\ status \in {"waiting", "ready"} \cup Failure
  /\ (pc = "done") <=> (status # "waiting")
  /\ now \in Nat /\ wake \in Nat /\ startedAt \in 0 .. now /\ answeredAt \in 0 .. now
  /\ processed \subseteq Dataset \X (0 .. MaxDay)
  /\ today \in 0 .. MaxDay
  /\ restarts \in 0 .. MaxRestarts

Init ==
  /\ pc = "connect" /\ status = "waiting"
  /\ retry_count = 0 /\ wait_count = 0 /\ count = 0
  /\ now = 0 /\ wake = 0 /\ startedAt = 0 /\ answeredAt = 0
  /\ processed = {} /\ today = 0
  /\ restarts = 0

-----------------------------------------------------------------------------
(***************************************************************************)
(* run()                                                                   *)
(***************************************************************************)
End(s) == pc' = "done" /\ status' = s

SleepUntil(t) == pc' = "sleep" /\ wake' = t /\ UNCHANGED status

\* Faulty variant of Backoff: it never gives up.
BackoffForever(t) ==
  /\ retry_count' = retry_count + 1
  /\ SleepUntil(t + Delay(retry_count'))
  /\ UNCHANGED <<wait_count, count>>

\* except oracledb.OperationalError, at time t.
Backoff(t) ==
  /\ retry_count' = retry_count + 1
  /\ \/ /\ retry_count' > MaxTransientRetries
        /\ End("unreachable")
        /\ UNCHANGED wake
     \/ /\ retry_count' <= MaxTransientRetries
        /\ SleepUntil(t + Delay(retry_count'))
  /\ UNCHANGED <<wait_count, count>>

\* An error that is no OperationalError leaves run().
PollRaises == End("error") /\ UNCHANGED <<counters, wake>>

Connect ==
  /\ pc = "connect"
  /\ \E d \in PollSeconds :
       /\ now' = now + d
       /\ \/ pc' = "query" /\ UNCHANGED <<counters, status, wake>>
          \/ Backoff(now + d)
          \/ PollRaises
  /\ UNCHANGED <<startedAt, answeredAt, oracle, restarts>>

\* Faulty variant: TRUNC(processed_at) = TRUNC(SYSDATE) is left out.
CountEver == Cardinality({d \in Dataset : \E day \in 0 .. MaxDay : <<d, day>> \in processed})

CountToday == Cardinality({d \in Dataset : <<d, today>> \in processed})

\* execute and fetchone: the count is of the statement's own snapshot. The
\* close after it may fail unnoticed.
Query ==
  /\ pc = "query"
  /\ \/ /\ count' = CountToday
        /\ pc' = "answered"
        /\ answeredAt' = now
        /\ UNCHANGED <<retry_count, wait_count, status, wake>>
     \/ Backoff(now) /\ UNCHANGED answeredAt
     \/ PollRaises /\ UNCHANGED answeredAt
  /\ UNCHANGED <<now, startedAt, oracle, restarts>>

Ready ==
  /\ pc = "answered"
  /\ count >= Cardinality(Dataset)
  /\ retry_count' = 0
  /\ End("ready")
  /\ UNCHANGED <<wait_count, count, clock, oracle, restarts>>

\* Faulty variants of WaitMore: it gives up one poll early; it keeps the
\* count of failures of earlier polls; it polls again at once, uncounted.
WaitLess ==
  /\ pc = "answered" /\ count < Cardinality(Dataset)
  /\ retry_count' = 0 /\ wait_count' = wait_count + 1
  /\ IF wait_count' >= MaxWaitAttempts
       THEN End("timeout") /\ UNCHANGED wake
       ELSE SleepUntil(now + PokeInterval)
  /\ UNCHANGED <<count, now, startedAt, answeredAt, oracle, restarts>>

WaitWithRetriesKept ==
  /\ pc = "answered" /\ count < Cardinality(Dataset)
  /\ wait_count' = wait_count + 1
  /\ IF wait_count' > MaxWaitAttempts
       THEN End("timeout") /\ UNCHANGED wake
       ELSE SleepUntil(now + PokeInterval)
  /\ UNCHANGED <<retry_count, count, now, startedAt, answeredAt, oracle, restarts>>

PollAtOnce ==
  /\ pc = "answered" /\ count < Cardinality(Dataset)
  /\ retry_count' = 0
  /\ pc' = "connect"
  /\ UNCHANGED <<wait_count, count, status, clock, oracle, restarts>>

WaitMore ==
  /\ pc = "answered"
  /\ count < Cardinality(Dataset)
  /\ retry_count' = 0
  /\ wait_count' = wait_count + 1
  /\ \/ /\ wait_count' > MaxWaitAttempts
        /\ End("timeout")
        /\ UNCHANGED wake
     \/ /\ wait_count' <= MaxWaitAttempts
        /\ SleepUntil(now + PokeInterval)
  /\ UNCHANGED <<count, now, startedAt, answeredAt, oracle, restarts>>

Awake ==
  /\ pc = "sleep"
  /\ pc' = "connect"
  /\ now' = wake
  /\ UNCHANGED <<counters, status, wake, startedAt, answeredAt, oracle, restarts>>

Run == Connect \/ Query \/ Ready \/ WaitMore \/ Awake

-----------------------------------------------------------------------------
(***************************************************************************)
(* Around it                                                               *)
(***************************************************************************)
\* A load of dataset d commits its record.
Load(d) ==
  /\ processed' = processed \cup {<<d, today>>}
  /\ UNCHANGED <<pc, counters, status, clock, today, restarts>>

Midnight ==
  /\ today < MaxDay
  /\ today' = today + 1
  /\ UNCHANGED <<pc, counters, status, clock, processed, restarts>>

\* The triggerer dies; another one builds the trigger from what serialize()
\* stored, the two constructor arguments, and starts run() from its top.
TriggererRestarts ==
  /\ status = "waiting"
  /\ restarts < MaxRestarts
  /\ restarts' = restarts + 1
  /\ pc' = "connect"
  /\ retry_count' = 0 /\ wait_count' = 0 /\ count' = 0
  /\ startedAt' = now /\ answeredAt' = now
  /\ UNCHANGED <<status, now, wake, oracle>>

Next ==
  \/ Run
  \/ \E d \in Dataset : Load(d)
  \/ Midnight
  \/ TriggererRestarts

\* The event loop resumes run() once its await or its sleep is over.
Fairness == WF_vars(Run)

Spec == Init /\ [][Next]_vars /\ Fairness

-----------------------------------------------------------------------------
(***************************************************************************)
(* Properties                                                              *)
(***************************************************************************)
\* The ready event is only sent for datasets that were all recorded on one
\* and the same day: yesterday's customers do not go with today's orders,
\* also when the day changes between two polls or after the last one.
ReadyIsOfOneDay ==
  status = "ready" =>
    \E day \in 0 .. MaxDay : \A d \in Dataset : <<d, day>> \in processed

\* The backoffs of a streak of n failures, one after the other.
Backoffs[n \in Nat] == IF n = 0 THEN 0 ELSE Backoffs[n - 1] + Delay(n)

\* An outage is ridden out: the wait only ends for OperationalErrors when
\* Oracle has not answered for as long as all the backoffs of one streak take,
\* however many failures earlier polls had.
OutagesAreRiddenOut ==
  status = "unreachable" =>
    now - answeredAt >= Backoffs[MaxTransientRetries]

\* The TimeoutError is only raised after max_wait_seconds of this run().
TimeoutIsEarned == status = "timeout" => now - startedAt >= MaxWaitSeconds

\* run() waits no longer than for every poll to use up its retries.
LongestWait ==
  (MaxWaitAttempts + 1) * (MaxTransientRetries + 1) * (PokeInterval + LongestPoll)

WaitIsBounded == now - startedAt <= LongestWait

\* run() ends: every failure and every answer uses up a counter.
Decides == <>(status # "waiting")
=============================================================================
