----------------------- MODULE PartitionTriggerProofs -----------------------
(***************************************************************************)
(* For every interval, limit and set of datasets: the types of             *)
(* PartitionTrigger, what its ready event promises, and how long it waits. *)
(***************************************************************************)
EXTENDS PartitionTrigger, FiniteSetTheorems, WellFoundedInduction, TLAPS

Cycle == MaxTransientRetries + 1
Step == PokeInterval + LongestPoll

\* A backoff takes at most the poke interval.
LEMMA DelayType == \A n \in Nat : Delay(n) \in 0 .. PokeInterval
  BY TriggerAssumption DEF Delay

\* There is at least one attempt.
LEMMA AttemptsType == MaxWaitAttempts \in Nat \ {0}
<1>1. MaxWaitSeconds \div PokeInterval \in Int
  BY TriggerAssumption
<1> QED
  BY <1>1 DEF MaxWaitAttempts

\* The query counts some of the datasets.
LEMMA CountType == CountToday \in 0 .. Cardinality(Dataset)
<1> DEFINE Present == {d \in Dataset : <<d, today>> \in processed}
<1>1. IsFiniteSet(Dataset) /\ Present \subseteq Dataset
  BY TriggerAssumption
<1>2. IsFiniteSet(Present) /\ Cardinality(Present) <= Cardinality(Dataset)
  BY <1>1, FS_Subset
<1>3. Cardinality(Present) \in Nat /\ Cardinality(Dataset) \in Nat
  BY <1>1, <1>2, FS_CardinalityType
<1> QED
  BY <1>2, <1>3 DEF CountToday

-----------------------------------------------------------------------------
\* The wait counters stay within their limits while run() goes on, and the
\* retry counter is cleared by an answer that leaves it waiting.
Counting ==
  status = "waiting" =>
    /\ retry_count <= MaxTransientRetries
    /\ wait_count <= MaxWaitAttempts
    /\ pc = "sleep" => wake >= now

TInv == TypeOK /\ Counting

\* The types and limits hold initially.
LEMMA InitTInv == Init => TInv
  BY TriggerAssumption, AttemptsType, FS_CardinalityType DEF Init, TInv, TypeOK, Counting, Failure

\* A backoff counts one failure and sleeps or ends.
LEMMA BackoffTInv ==
  ASSUME TInv, status = "waiting", NEW t \in Nat, Backoff(t), t >= now
  PROVE  /\ retry_count' \in 0 .. MaxTransientRetries + 1
         /\ wake' \in Nat
         /\ pc' \in {"sleep", "done"} /\ status' \in {"waiting", "unreachable"}
         /\ (pc' = "done") <=> (status' # "waiting")
         /\ pc' = "sleep" => retry_count' <= MaxTransientRetries /\ wake' >= t
         /\ wait_count' = wait_count /\ count' = count
<1>1. retry_count' \in 1 .. MaxTransientRetries + 1
  BY TriggerAssumption DEF Backoff, TInv, TypeOK, Counting
<1>2. Delay(retry_count') \in 0 .. PokeInterval
  BY <1>1, DelayType
<1> QED
  BY <1>1, <1>2, TriggerAssumption DEF Backoff, TInv, TypeOK, End, SleepUntil

\* Every step keeps the types and the limits.
LEMMA StepTInv == TInv /\ [Next]_vars => TInv'
<1> SUFFICES ASSUME TInv, [Next]_vars PROVE TInv'
  OBVIOUS
<1> USE TriggerAssumption, AttemptsType
<1>1. CASE Connect
  <2> PICK d \in PollSeconds :
        /\ now' = now + d
        /\ \/ pc' = "query" /\ UNCHANGED <<counters, status, wake>>
           \/ Backoff(now + d)
           \/ PollRaises
    BY <1>1 DEF Connect
  <2>1. d \in Nat /\ now + d \in Nat /\ now + d >= now
    BY DEF TInv, TypeOK
  <2>2. status = "waiting"
    BY <1>1 DEF Connect, TInv, TypeOK
  <2>3. startedAt' \in 0 .. now' /\ answeredAt' \in 0 .. now'
    BY <1>1, <2>1 DEF Connect, TInv, TypeOK
  <2>4. CASE pc' = "query" /\ UNCHANGED <<counters, status, wake>>
    BY <1>1, <2>1, <2>3, <2>4 DEF Connect, TInv, TypeOK, Counting, counters, oracle
  <2>5. CASE Backoff(now + d)
    BY <1>1, <2>1, <2>2, <2>3, <2>5, BackoffTInv
       DEF Connect, TInv, TypeOK, Counting, oracle, Failure
  <2>6. CASE PollRaises
    BY <1>1, <2>1, <2>3, <2>6
       DEF Connect, PollRaises, End, TInv, TypeOK, Counting, counters, oracle, Failure
  <2> QED
    BY <2>4, <2>5, <2>6
<1>2. CASE Query
  <2>1. status = "waiting"
    BY <1>2 DEF Query, TInv, TypeOK
  <2>2. CASE count' = CountToday /\ pc' = "answered" /\ answeredAt' = now
             /\ UNCHANGED <<retry_count, wait_count, status, wake>>
    BY <1>2, <2>1, <2>2, CountType DEF Query, TInv, TypeOK, Counting, oracle
  <2>3. CASE Backoff(now) /\ UNCHANGED answeredAt
    BY <1>2, <2>1, <2>3, BackoffTInv DEF Query, TInv, TypeOK, Counting, oracle, Failure
  <2>4. CASE PollRaises /\ UNCHANGED answeredAt
    BY <1>2, <2>1, <2>4
       DEF Query, PollRaises, End, TInv, TypeOK, Counting, counters, oracle, Failure
  <2> QED
    BY <1>2, <2>2, <2>3, <2>4 DEF Query
<1>3. CASE Ready
  BY <1>3 DEF Ready, End, TInv, TypeOK, Counting, clock, oracle
<1>4. CASE WaitMore
  BY <1>4 DEF WaitMore, End, SleepUntil, TInv, TypeOK, Counting, oracle, Failure
<1>5. CASE Awake
  BY <1>5 DEF Awake, TInv, TypeOK, Counting, counters, oracle
<1>6. CASE \E d \in Dataset : Load(d)
  BY <1>6 DEF Load, TInv, TypeOK, Counting, counters, clock
<1>7. CASE Midnight
  BY <1>7 DEF Midnight, TInv, TypeOK, Counting, counters, clock
<1>8. CASE TriggererRestarts
  BY <1>8, FS_CardinalityType DEF TriggererRestarts, TInv, TypeOK, Counting, oracle
<1>9. CASE UNCHANGED vars
  BY <1>9 DEF vars, counters, clock, oracle, TInv, TypeOK, Counting
<1> QED
  BY <1>1, <1>2, <1>3, <1>4, <1>5, <1>6, <1>7, <1>8, <1>9 DEF Next, Run

\* Every variable keeps its type; the counters keep their limits.
THEOREM TriggerTypes == Spec => []TInv
  BY InitTInv, StepTInv, PTL DEF Spec

\* The types alone.
THEOREM TriggerTypeCorrect == Spec => []TypeOK
<1>1. TInv => TypeOK
  BY DEF TInv
<1> QED
  BY <1>1, TriggerTypes, PTL

-----------------------------------------------------------------------------
\* A count that satisfies run() stands for one day's records of all datasets.
OneDay == \E day \in 0 .. MaxDay : \A d \in Dataset : <<d, day>> \in processed

CountInv ==
  /\ pc = "answered" /\ count >= Cardinality(Dataset) => OneDay
  /\ ReadyIsOfOneDay

\* Records stay, so a day once complete stays complete.
LEMMA OneDayStays == ASSUME OneDay, processed \subseteq processed' PROVE OneDay'
  BY DEF OneDay

\* A full count of today means that all datasets are recorded today.
LEMMA FullCount ==
  ASSUME TypeOK, CountToday >= Cardinality(Dataset)
  PROVE  OneDay
<1> DEFINE Present == {d \in Dataset : <<d, today>> \in processed}
<1>1. IsFiniteSet(Dataset) /\ Present \subseteq Dataset
  BY TriggerAssumption
<1>2. Cardinality(Present) \in Nat /\ Cardinality(Dataset) \in Nat
      /\ Cardinality(Present) <= Cardinality(Dataset)
  BY <1>1, FS_Subset, FS_CardinalityType
<1>3. Present = Dataset
  <2>1. Cardinality(Dataset) = Cardinality(Present)
    BY <1>2 DEF CountToday
  <2> QED
    BY <1>1, <2>1, FS_Subset
<1>4. today \in 0 .. MaxDay
  BY DEF TypeOK
<1> QED
  BY <1>3, <1>4 DEF OneDay

\* No step removes a record.
LEMMA RecordsStay == [Next]_vars => processed \subseteq processed'
  BY DEF Next, Run, Connect, Query, Ready, WaitMore, Awake, Load, Midnight,
         TriggererRestarts, oracle, clock, counters, vars

\* Nothing is counted before the first poll.
LEMMA InitCountInv == Init => CountInv
  BY DEF Init, CountInv, ReadyIsOfOneDay

\* Only a query sets the count, and only a full one sends the event.
LEMMA StepCountInv == TInv /\ CountInv /\ [Next]_vars => CountInv'
<1> SUFFICES ASSUME TInv, CountInv, [Next]_vars PROVE CountInv'
  OBVIOUS
<1>1. OneDay => OneDay'
  BY OneDayStays, RecordsStay
<1>2. status' = status \/ status' \in Failure \/ Ready
  BY DEF Next, Run, Connect, Query, WaitMore, Awake, Load, Midnight, TriggererRestarts,
         Backoff, PollRaises, End, SleepUntil, Failure, vars, counters, clock
<1>3. ReadyIsOfOneDay'
  <2>1. (status' = "ready" => OneDay') => ReadyIsOfOneDay'
    BY DEF OneDay, ReadyIsOfOneDay
  <2>2. CASE status' = status
    BY <1>1, <2>1, <2>2 DEF CountInv, ReadyIsOfOneDay, OneDay
  <2>3. CASE status' \in Failure
    BY <2>1, <2>3 DEF Failure
  <2>4. CASE Ready
    BY <1>1, <2>1, <2>4 DEF Ready, CountInv
  <2> QED
    BY <1>2, <2>2, <2>3, <2>4
<1>4. pc' = "answered" /\ count' >= Cardinality(Dataset) => OneDay'
  <2>1. CASE Query /\ count' = CountToday
    <3>1. count' >= Cardinality(Dataset) => OneDay
      BY <2>1, FullCount DEF TInv
    <3> QED
      BY <3>1, <1>1
  <2>2. CASE pc' = pc /\ count' = count
    BY <2>2, <1>1 DEF CountInv
  <2>3. pc' # "answered" \/ (pc' = pc /\ count' = count) \/ (Query /\ count' = CountToday)
    BY DEF Next, Run, Connect, Query, Ready, WaitMore, Awake, Load, Midnight,
           TriggererRestarts, Backoff, PollRaises, End, SleepUntil, vars, counters, clock
  <2> QED
    BY <2>1, <2>2, <2>3
<1> QED
  BY <1>3, <1>4 DEF CountInv

\* The event is only sent for one day's complete pair, whatever the day does
\* between the polls, and however often the triggerer restarts.
THEOREM ReadyOfOneDay == Spec => []ReadyIsOfOneDay
<1>1. CountInv => ReadyIsOfOneDay
  BY DEF CountInv
<1> QED
  BY <1>1, InitCountInv, StepCountInv, TriggerTypes, PTL DEF Spec

-----------------------------------------------------------------------------
\* Every attempt, an answer that finds too little counted as all the retries
\* it could have had, takes at most a poll and an interval.
Spent == (wait_count * Cycle + retry_count) * Step

BoundInv ==
  /\ pc = "connect" => now - startedAt <= Spent
  /\ pc = "sleep" => wake - startedAt <= Spent
  /\ pc \in {"query", "answered"} => now - startedAt <= Spent + LongestPoll
  /\ now - startedAt <= LongestWait

\* The arithmetic of the attempts.
LEMMA Attempts ==
  ASSUME NEW w \in Nat, NEW r \in Nat, NEW C \in Nat, NEW S \in Nat
  PROVE  /\ w * C \in Nat /\ (w * C + r) * S \in Nat
         /\ (w * C + (r + 1)) * S = (w * C + r) * S + S
         /\ r + 1 <= C => (w * C + r) * S + S <= ((w + 1) * C + 0) * S
         /\ \A W \in Nat : w <= W /\ r <= C => (w * C + r) * S <= (W + 1) * C * S
         /\ \A W \in Nat : w <= W /\ r + 1 <= C =>
              (w * C + r) * S + S <= (W + 1) * C * S
<1> DEFINE a == w * C
<1>1. a \in Nat /\ (w + 1) * C = a + C
  OBVIOUS
<1> HIDE DEF a
<1>2. /\ (a + r) * S \in Nat
      /\ (a + (r + 1)) * S = (a + r) * S + S
  BY <1>1
<1>3. ASSUME NEW m \in Nat, NEW n \in Nat, m <= n PROVE m * S <= n * S
  <2>1. PICK d \in Nat : n = m + d
    <3>1. n - m \in Nat /\ n = m + (n - m)
      BY <1>3
    <3> QED
      BY <3>1
  <2>2. n * S = m * S + d * S /\ d * S \in Nat /\ m * S \in Nat
    BY <2>1
  <2> QED
    BY <2>2
<1>4. r + 1 <= C => (a + r) * S + S <= (a + C + 0) * S
  BY <1>1, <1>2, <1>3
<1>5. ASSUME NEW W \in Nat, w <= W PROVE a + C <= (W + 1) * C /\ (W + 1) * C \in Nat
  <2>1. PICK d \in Nat : W = w + d
    <3>1. W - w \in Nat /\ W = w + (W - w)
      BY <1>5
    <3> QED
      BY <3>1
  <2>2. (W + 1) * C = (w + 1) * C + d * C /\ d * C \in Nat
    BY <2>1
  <2> QED
    BY <1>1, <2>2
<1>6. ASSUME NEW W \in Nat, w <= W, r <= C PROVE (a + r) * S <= (W + 1) * C * S
  BY <1>1, <1>3, <1>5, <1>6
<1>7. ASSUME NEW W \in Nat, w <= W, r + 1 <= C PROVE (a + r) * S + S <= (W + 1) * C * S
  <2>1. a + (r + 1) <= (W + 1) * C /\ a + (r + 1) \in Nat /\ (W + 1) * C \in Nat
    BY <1>1, <1>5, <1>7
  <2>2. (a + (r + 1)) * S <= (W + 1) * C * S
    BY <2>1, <1>3
  <2> QED
    BY <1>2, <2>2
<1> QED
  BY <1>1, <1>2, <1>4, <1>6, <1>7 DEF a

\* The bounds of run(), spelt out for the arithmetic of the attempts.
LEMMA Bounds ==
  ASSUME TInv
  PROVE  /\ Step \in Nat /\ Cycle \in Nat
         /\ Spent \in Nat /\ LongestWait \in Nat
         /\ LongestWait = (MaxWaitAttempts + 1) * Cycle * Step
         /\ wait_count <= MaxWaitAttempts /\ retry_count + 1 <= Cycle =>
              Spent + Step <= LongestWait
<1> USE TriggerAssumption, AttemptsType
<1>1. Step \in Nat /\ Cycle \in Nat /\ wait_count \in Nat /\ retry_count \in Nat
      /\ MaxWaitAttempts \in Nat
  BY DEF Step, Cycle, TInv, TypeOK
<1>2. LongestWait = (MaxWaitAttempts + 1) * Cycle * Step
  BY DEF LongestWait, Step, Cycle
<1>3. (MaxWaitAttempts + 1) * Cycle \in Nat
  BY <1>1
<1>4. LongestWait \in Nat
  BY <1>1, <1>2, <1>3
<1>5. Spent \in Nat
  BY <1>1, Attempts DEF Spent
<1>6. wait_count <= MaxWaitAttempts /\ retry_count + 1 <= Cycle =>
        Spent + Step <= LongestWait
  BY <1>1, <1>2, Attempts DEF Spent
<1> QED
  BY <1>1, <1>2, <1>4, <1>5, <1>6

\* No time has passed initially.
LEMMA InitBound == Init => BoundInv
<1> SUFFICES ASSUME Init PROVE BoundInv
  OBVIOUS
<1>1. TInv
  BY InitTInv
<1>2. Spent \in Nat /\ LongestWait \in Nat
  BY <1>1, Bounds
<1> QED
  BY <1>2 DEF Init, BoundInv

\* A backoff that starts in time ends in time.
LEMMA BackoffBound ==
  ASSUME TInv, TInv', status = "waiting", BoundInv,
         NEW t \in Nat, Backoff(t), t >= now,
         t - startedAt <= Spent + LongestPoll,
         startedAt' = startedAt, now' = t
  PROVE  BoundInv'
<1> USE TriggerAssumption
<1>1. /\ startedAt \in Nat /\ wait_count' = wait_count
      /\ retry_count' = retry_count + 1 /\ retry_count <= MaxTransientRetries
      /\ wait_count <= MaxWaitAttempts
      /\ wait_count \in Nat /\ retry_count \in Nat
  BY DEF TInv, TypeOK, Counting, Backoff
<1>2. Spent \in Nat /\ Spent + Step <= LongestWait /\ Step \in Nat /\ LongestWait \in Nat
  BY <1>1, Bounds DEF Cycle
<1>3. Spent' = Spent + Step
  <2>1. Spent' = (wait_count * Cycle + (retry_count + 1)) * Step
    BY <1>1 DEF Spent, Cycle, Step
  <2>2. Cycle \in Nat
    BY DEF Cycle
  <2> QED
    BY <1>1, <1>2, <2>1, <2>2, Attempts DEF Spent
<1>4. Step = PokeInterval + LongestPoll
  BY DEF Step
<1>5. Delay(retry_count') \in 0 .. PokeInterval
  BY <1>1, DelayType
<1>6. pc' = "sleep" => wake' = t + Delay(retry_count')
  BY DEF Backoff, End, SleepUntil
<1>7. pc' \in {"sleep", "done"}
  BY DEF Backoff, End, SleepUntil
<1>8. LongestWait' = LongestWait
  BY DEF LongestWait, MaxWaitAttempts
<1> QED
  BY <1>1, <1>2, <1>3, <1>4, <1>5, <1>6, <1>7, <1>8 DEF BoundInv

\* Every step keeps the bound.
LEMMA StepBound == TInv /\ BoundInv /\ [Next]_vars => BoundInv'
<1> SUFFICES ASSUME TInv, BoundInv, [Next]_vars PROVE BoundInv'
  OBVIOUS
<1> USE TriggerAssumption
<1>1. TInv'
  BY StepTInv
<1>2. /\ Spent \in Nat /\ Spent' \in Nat /\ Step \in Nat /\ LongestWait \in Nat
      /\ Step = PokeInterval + LongestPoll
      /\ now \in Nat /\ wake \in Nat /\ startedAt \in Nat
  <2>1. wait_count' \in Nat /\ retry_count' \in Nat /\ Cycle \in Nat /\ Step \in Nat
    BY <1>1, Bounds DEF TInv, TypeOK
  <2>2. Spent' \in Nat
    BY <2>1, Attempts DEF Spent, Cycle, Step
  <2> QED
    BY <2>2, Bounds DEF Step, TInv, TypeOK
<1>3. LongestWait' = LongestWait
  BY DEF LongestWait, MaxWaitAttempts
<1>4. status = "waiting" => Spent + Step <= LongestWait
  BY Bounds DEF TInv, TypeOK, Counting, Cycle
<1>5. UNCHANGED <<wait_count, retry_count>> => Spent' = Spent
  BY DEF Spent, Step, Cycle
<1>6. CASE Connect
  <2> PICK d \in PollSeconds :
        /\ now' = now + d
        /\ \/ pc' = "query" /\ UNCHANGED <<counters, status, wake>>
           \/ Backoff(now + d)
           \/ PollRaises
    BY <1>6 DEF Connect
  <2>1. d \in 0 .. LongestPoll
    OBVIOUS
  <2>2. status = "waiting" /\ startedAt' = startedAt /\ now - startedAt <= Spent
    BY <1>6 DEF Connect, TInv, TypeOK, BoundInv
  <2>3. CASE pc' = "query" /\ UNCHANGED <<counters, status, wake>>
    BY <1>2, <1>3, <1>4, <1>5, <2>1, <2>2, <2>3 DEF BoundInv, counters
  <2>4. CASE Backoff(now + d)
    <3>1. now + d \in Nat /\ now + d >= now /\ (now + d) - startedAt <= Spent + LongestPoll
      BY <1>2, <2>1, <2>2
    <3> QED
      BY <1>1, <2>2, <2>4, <3>1, BackoffBound
  <2>5. CASE PollRaises
    BY <1>2, <1>3, <1>4, <2>1, <2>2, <2>5 DEF BoundInv, PollRaises, End
  <2> QED
    BY <2>3, <2>4, <2>5
<1>7. CASE Query
  <2>1. /\ status = "waiting" /\ startedAt' = startedAt /\ now' = now
        /\ now - startedAt <= Spent + LongestPoll
    BY <1>7 DEF Query, TInv, TypeOK, BoundInv
  <2>2. CASE pc' = "answered" /\ UNCHANGED <<retry_count, wait_count, status, wake>>
    BY <1>2, <1>3, <1>4, <1>5, <2>1, <2>2 DEF BoundInv
  <2>3. CASE Backoff(now)
    <3>1. now \in Nat /\ now >= now
      BY <1>2
    <3> QED
      BY <1>1, <2>1, <2>3, <3>1, BackoffBound
  <2>4. CASE PollRaises
    BY <1>2, <1>3, <1>4, <2>1, <2>4 DEF BoundInv, PollRaises, End
  <2> QED
    BY <1>7, <2>2, <2>3, <2>4 DEF Query
<1>8. CASE Ready
  BY <1>8, <1>2, <1>3, <1>4 DEF Ready, End, BoundInv, TInv, TypeOK, clock
<1>9. CASE WaitMore
  <2>1. /\ status = "waiting" /\ startedAt' = startedAt /\ now' = now
        /\ now - startedAt <= Spent + LongestPoll
        /\ retry_count' = 0 /\ wait_count' = wait_count + 1
        /\ pc' \in {"sleep", "done"}
        /\ pc' = "sleep" => wake' = now + PokeInterval
    BY <1>9 DEF WaitMore, End, SleepUntil, TInv, TypeOK, BoundInv
  <2>2. Spent' = ((wait_count + 1) * Cycle + 0) * Step
    BY <2>1 DEF Spent, Step, Cycle
  <2>3. wait_count \in Nat /\ retry_count \in Nat /\ Cycle \in Nat /\ retry_count + 1 <= Cycle
    BY <2>1 DEF TInv, TypeOK, Counting, Cycle
  <2>4. Spent + Step <= Spent'
    BY <1>2, <2>2, <2>3, Attempts DEF Spent
  <2>5. now - startedAt <= LongestWait /\ now + PokeInterval - startedAt <= Spent'
    BY <1>2, <1>4, <2>1, <2>4
  <2>6. now' - startedAt' <= LongestWait'
    BY <1>3, <2>1, <2>5
  <2>7. pc' = "sleep" => wake' - startedAt' <= Spent'
    BY <1>2, <2>1, <2>5
  <2>8. pc' # "connect" /\ pc' \notin {"query", "answered"}
    BY <2>1
  <2> QED
    BY <2>6, <2>7, <2>8 DEF BoundInv
<1>10. CASE Awake
  <2>1. wake >= now /\ UNCHANGED <<wait_count, retry_count>>
    BY <1>10 DEF Awake, TInv, TypeOK, Counting, counters
  <2> QED
    BY <1>10, <1>2, <1>3, <1>4, <1>5, <2>1 DEF Awake, BoundInv, TInv, TypeOK
<1>11. CASE \E d \in Dataset : Load(d)
  BY <1>11, <1>3, <1>5 DEF Load, BoundInv, counters, clock
<1>12. CASE Midnight
  BY <1>12, <1>3, <1>5 DEF Midnight, BoundInv, counters, clock
<1>13. CASE TriggererRestarts
  BY <1>13, <1>2, <1>3 DEF TriggererRestarts, BoundInv
<1>14. CASE UNCHANGED vars
  BY <1>14, <1>3, <1>5 DEF vars, BoundInv, counters, clock
<1> QED
  BY <1>6, <1>7, <1>8, <1>9, <1>10, <1>11, <1>12, <1>13, <1>14 DEF Next, Run

\* run() waits at most one poll and one interval for every failure and every
\* insufficient answer its counters allow.
THEOREM WaitBounded == Spec => []WaitIsBounded
<1>1. BoundInv => WaitIsBounded
  BY DEF BoundInv, WaitIsBounded
<1> QED
  BY <1>1, InitBound, StepBound, TriggerTypes, PTL DEF Spec
-----------------------------------------------------------------------------
\* Every insufficient answer was waited for, one interval each.
EarnInv ==
  /\ pc \in {"connect", "query", "answered"} =>
       now - startedAt >= wait_count * PokeInterval
  /\ pc = "sleep" => wake - startedAt >= wait_count * PokeInterval
  /\ status = "timeout" => now - startedAt >= MaxWaitAttempts * PokeInterval

\* The waits so far, as numbers.
LEMMA WaitsType ==
  ASSUME TInv
  PROVE  /\ wait_count * PokeInterval \in Nat
         /\ (wait_count + 1) * PokeInterval = wait_count * PokeInterval + PokeInterval
         /\ MaxWaitAttempts * PokeInterval \in Nat
         /\ PokeInterval \in Nat
         /\ now \in Nat /\ wake \in Nat /\ startedAt \in Nat
<1>1. /\ wait_count \in Nat /\ PokeInterval \in Nat /\ MaxWaitAttempts \in Nat
      /\ now \in Nat /\ wake \in Nat /\ startedAt \in Nat
  BY TriggerAssumption, AttemptsType DEF TInv, TypeOK
<1> QED
  BY <1>1

\* Nothing has been waited for at first.
LEMMA InitEarn == Init => EarnInv
<1> SUFFICES ASSUME Init PROVE EarnInv
  OBVIOUS
<1>1. 0 * PokeInterval = 0
  BY TriggerAssumption
<1> QED
  BY <1>1 DEF Init, EarnInv

\* A backoff only adds time.
LEMMA BackoffEarn ==
  ASSUME TInv, EarnInv, status = "waiting", NEW t \in Nat, Backoff(t), t >= now,
         pc \in {"connect", "query"}, startedAt' = startedAt, now' = t
  PROVE  EarnInv'
<1>1. /\ wait_count' = wait_count /\ pc' \in {"sleep", "done"}
      /\ status' # "timeout"
      /\ pc' = "sleep" => wake' >= t
  BY BackoffTInv
<1>2. now - startedAt >= wait_count * PokeInterval
  BY DEF EarnInv
<1>3. wake' \in Nat
  BY BackoffTInv
<1> QED
  BY <1>1, <1>2, <1>3, WaitsType DEF EarnInv

\* Every step keeps the account.
LEMMA StepEarn == TInv /\ EarnInv /\ [Next]_vars => EarnInv'
<1> SUFFICES ASSUME TInv, EarnInv, [Next]_vars PROVE EarnInv'
  OBVIOUS
<1>1. CASE Connect
  <2> PICK d \in PollSeconds :
        /\ now' = now + d
        /\ \/ pc' = "query" /\ UNCHANGED <<counters, status, wake>>
           \/ Backoff(now + d)
           \/ PollRaises
    BY <1>1 DEF Connect
  <2>1. d \in Nat
    BY TriggerAssumption
  <2>2. pc = "connect" /\ status = "waiting" /\ startedAt' = startedAt
    BY <1>1 DEF Connect, TInv, TypeOK
  <2>3. CASE pc' = "query" /\ UNCHANGED <<counters, status, wake>>
    BY <2>1, <2>2, <2>3, WaitsType DEF EarnInv, counters
  <2>4. CASE Backoff(now + d)
    <3>1. now + d \in Nat /\ now + d >= now
      BY <2>1, WaitsType
    <3> QED
      BY <2>2, <2>4, <3>1, BackoffEarn
  <2>5. CASE PollRaises
    BY <2>5 DEF PollRaises, End, EarnInv
  <2> QED
    BY <2>3, <2>4, <2>5
<1>2. CASE Query
  <2>1. pc = "query" /\ status = "waiting" /\ startedAt' = startedAt /\ now' = now
    BY <1>2 DEF Query, TInv, TypeOK
  <2>2. CASE pc' = "answered" /\ UNCHANGED <<retry_count, wait_count, status, wake>>
    BY <2>1, <2>2 DEF EarnInv
  <2>3. CASE Backoff(now)
    <3>1. now \in Nat /\ now >= now
      BY WaitsType
    <3> QED
      BY <2>1, <2>3, <3>1, BackoffEarn
  <2>4. CASE PollRaises
    BY <2>4 DEF PollRaises, End, EarnInv
  <2> QED
    BY <1>2, <2>2, <2>3, <2>4 DEF Query
<1>3. CASE Ready
  BY <1>3 DEF Ready, End, EarnInv
<1>4. CASE WaitMore
  <2>1. /\ pc = "answered" /\ startedAt' = startedAt /\ now' = now
        /\ wait_count' = wait_count + 1
        /\ pc' \in {"sleep", "done"}
        /\ pc' = "sleep" => wake' = now + PokeInterval /\ status' = status
        /\ pc' = "done" => wait_count + 1 > MaxWaitAttempts
    BY <1>4 DEF WaitMore, End, SleepUntil
  <2>2. status = "waiting"
    BY <2>1 DEF TInv, TypeOK
  <2>3. now - startedAt >= wait_count * PokeInterval
    BY <2>1 DEF EarnInv
  <2>4. pc' = "sleep" => wake' - startedAt' >= wait_count' * PokeInterval
    BY <2>1, <2>3, WaitsType
  <2>5. pc' = "done" => now' - startedAt' >= MaxWaitAttempts * PokeInterval
    <3>1. pc' = "done" => wait_count = MaxWaitAttempts
      BY <2>1, <2>2, AttemptsType DEF TInv, TypeOK, Counting
    <3> QED
      BY <2>1, <2>3, <3>1
  <2> QED
    BY <2>1, <2>2, <2>4, <2>5 DEF EarnInv
<1>5. CASE Awake
  BY <1>5 DEF Awake, EarnInv, counters, TInv, TypeOK
<1>6. CASE \E d \in Dataset : Load(d)
  BY <1>6 DEF Load, EarnInv, counters, clock
<1>7. CASE Midnight
  BY <1>7 DEF Midnight, EarnInv, counters, clock
<1>8. CASE TriggererRestarts
  <2>1. 0 * PokeInterval = 0
    BY TriggerAssumption
  <2> QED
    BY <1>8, <2>1, WaitsType DEF TriggererRestarts, EarnInv
<1>9. CASE UNCHANGED vars
  BY <1>9 DEF vars, EarnInv, counters, clock
<1> QED
  BY <1>1, <1>2, <1>3, <1>4, <1>5, <1>6, <1>7, <1>8, <1>9 DEF Next, Run

\* The TimeoutError comes no earlier than max_wait_seconds, when whole
\* intervals add up to it, as 30 and 180 do.
THEOREM TimeoutEarned ==
  MaxWaitAttempts * PokeInterval >= MaxWaitSeconds => (Spec => []TimeoutIsEarned)
<1> SUFFICES ASSUME MaxWaitAttempts * PokeInterval >= MaxWaitSeconds
             PROVE  Spec => []TimeoutIsEarned
  OBVIOUS
<1>1. TInv /\ EarnInv => TimeoutIsEarned
  <2> SUFFICES ASSUME TInv, EarnInv, status = "timeout"
               PROVE  now - startedAt >= MaxWaitSeconds
    BY DEF TimeoutIsEarned
  <2>1. now - startedAt >= MaxWaitAttempts * PokeInterval
    BY DEF EarnInv
  <2> QED
    BY <2>1, WaitsType, TriggerAssumption
<1> QED
  BY <1>1, InitEarn, StepEarn, TriggerTypes, PTL DEF Spec
-----------------------------------------------------------------------------
(***************************************************************************)
(* Induction over the natural numbers for a set instead of a predicate,    *)
(* from the well-foundedness of strict inclusion, and with it what the     *)
(* recursive function Backoffs computes.                                   *)
(***************************************************************************)
\* Every set of natural numbers but the empty one has a least element.
LEMMA LeastNat ==
  ASSUME NEW T \in SUBSET Nat, T # {}
  PROVE  \E x \in T : \A y \in T : x <= y
<1> DEFINE R == StrictSubsetOrdering(Nat)
           I == {0 .. n : n \in T}
<1>1. IsWellFoundedOn(R, FiniteSubsetsOf(Nat))
  BY FS_StrictSubsetOrderingWellFounded
<1>2. I \subseteq FiniteSubsetsOf(Nat) /\ I # {}
  <2>1. \A n \in Nat : 0 .. n \in SUBSET Nat /\ IsFiniteSet(0 .. n)
    BY FS_Interval
  <2> QED
    BY <2>1 DEF FiniteSubsetsOf
<1> HIDE DEF R
<1>3. \E X \in I : \A Y \in I : <<Y, X>> \notin R
  <2> HIDE DEF I
  <2> QED
    BY <1>1, <1>2, WFMin, Zenon
<1>4. PICK x \in T : \A y \in T : <<0 .. y, 0 .. x>> \notin R
  BY <1>3
<1>5. ASSUME NEW y \in T, y < x
      PROVE  <<0 .. y, 0 .. x>> \in R
  <2>1. /\ 0 .. y \subseteq 0 .. x /\ x \in 0 .. x /\ x \notin 0 .. y
        /\ 0 .. y \in SUBSET Nat /\ 0 .. x \in SUBSET Nat
    BY <1>5
  <2> QED
    BY <2>1 DEF R, StrictSubsetOrdering
<1>6. \A y \in T : ~(y < x)
  BY <1>4, <1>5
<1> QED
  BY <1>6

\* A set with 0 and every successor holds every natural number.
LEMMA SetInduction ==
  ASSUME NEW S, 0 \in S, \A n \in Nat : n \in S => n + 1 \in S
  PROVE  Nat \subseteq S
<1> SUFFICES ASSUME Nat \ S # {} PROVE FALSE
  OBVIOUS
<1>1. PICK x \in Nat \ S : \A y \in Nat \ S : x <= y
  BY LeastNat
<1>2. x # 0 /\ x - 1 \in Nat /\ (x - 1) + 1 = x
  BY <1>1
<1>3. x - 1 \in S
  BY <1>1, <1>2
<1> QED
  BY <1>2, <1>3

\* f adds up the backoffs of streaks of at most n failures.
Sums(n, f) ==
  /\ f \in [0 .. n -> Nat] /\ f[0] = 0
  /\ \A k \in 1 .. n : f[k] = f[k - 1] + Delay(k)

\* They can be added up for every n ...
LEMMA SumsExist == \A n \in Nat : \E f : Sums(n, f)
<1> DEFINE S == {n \in Nat : \E f : Sums(n, f)}
<1>1. 0 \in S
  <2>1. Sums(0, [k \in 0 .. 0 |-> 0])
    BY DEF Sums
  <2> QED
    BY <2>1
<1>2. ASSUME NEW n \in Nat, n \in S PROVE n + 1 \in S
  <2>1. PICK f : Sums(n, f)
    BY <1>2
  <2>2. /\ f \in [0 .. n -> Nat] /\ f[0] = 0 /\ f[n] \in Nat
        /\ \A k \in 1 .. n : f[k] = f[k - 1] + Delay(k)
        /\ Delay(n + 1) \in Nat
    <3>1. Delay(n + 1) \in Nat
      BY DelayType, TriggerAssumption
    <3> QED
      BY <2>1, <3>1 DEF Sums
  <2> DEFINE g == [k \in 0 .. n + 1 |-> IF k = n + 1 THEN f[n] + Delay(n + 1) ELSE f[k]]
  <2>3. g[n + 1] = f[n] + Delay(n + 1) /\ \A k \in 0 .. n : g[k] = f[k]
    OBVIOUS
  <2>4. g \in [0 .. n + 1 -> Nat]
    BY <2>2
  <2> HIDE DEF g
  <2>5. \A k \in 1 .. n + 1 : g[k] = g[k - 1] + Delay(k)
    <3> SUFFICES ASSUME NEW k \in 1 .. n + 1 PROVE g[k] = g[k - 1] + Delay(k)
      OBVIOUS
    <3>1. k - 1 \in 0 .. n /\ g[k - 1] = f[k - 1]
      BY <2>3
    <3>2. CASE k = n + 1
      BY <2>3, <3>1, <3>2
    <3>3. CASE k # n + 1
      BY <2>2, <2>3, <3>1, <3>3
    <3> QED
      BY <3>2, <3>3
  <2>6. g[0] = 0
    BY <2>2, <2>3
  <2>7. Sums(n + 1, g)
    BY <2>4, <2>5, <2>6 DEF Sums
  <2> QED
    BY <2>7
<1> HIDE DEF S
<1>3. Nat \subseteq S
  BY <1>1, <1>2, SetInduction
<1> QED
  BY <1>3 DEF S

\* ... and always add up to the same.
LEMMA SumsAgree ==
  ASSUME NEW m \in Nat, NEW n \in Nat, NEW f, NEW g, Sums(m, f), Sums(n, g)
  PROVE  \A k \in Nat : k <= m /\ k <= n => f[k] = g[k]
<1> DEFINE S == {k \in Nat : k <= m /\ k <= n => f[k] = g[k]}
<1>1. 0 \in S
  BY DEF Sums
<1>2. ASSUME NEW k \in Nat, k \in S PROVE k + 1 \in S
  BY <1>2 DEF Sums
<1> HIDE DEF S
<1>3. Nat \subseteq S
  BY <1>1, <1>2, SetInduction
<1> QED
  BY <1>3 DEF S

\* The recursive definition of Backoffs has a solution.
LEMMA BackoffsDefined ==
  Backoffs = [n \in Nat |-> IF n = 0 THEN 0 ELSE Backoffs[n - 1] + Delay(n)]
<1> DEFINE h == [n \in Nat |-> (CHOOSE f : Sums(n, f))[n]]
<1>1. \A n \in Nat : Sums(n, CHOOSE f : Sums(n, f))
  BY SumsExist
<1>2. \A n \in Nat : h[n] = IF n = 0 THEN 0 ELSE h[n - 1] + Delay(n)
  <2> SUFFICES ASSUME NEW n \in Nat
               PROVE  h[n] = IF n = 0 THEN 0 ELSE h[n - 1] + Delay(n)
    OBVIOUS
  <2>1. CASE n = 0
    BY <1>1, <2>1 DEF Sums
  <2>2. CASE n # 0
    <3> DEFINE f == CHOOSE x : Sums(n, x)
               g == CHOOSE x : Sums(n - 1, x)
    <3>1. n - 1 \in Nat
      BY <2>2
    <3>2. Sums(n, f) /\ Sums(n - 1, g)
      BY <1>1, <3>1
    <3>3. h[n] = f[n] /\ h[n - 1] = g[n - 1]
      BY <3>1
    <3> HIDE DEF f, g, h
    <3>4. f[n - 1] = g[n - 1]
      BY <3>1, <3>2, SumsAgree
    <3>5. f[n] = f[n - 1] + Delay(n)
      BY <2>2, <3>2 DEF Sums
    <3> QED
      BY <2>2, <3>3, <3>4, <3>5
  <2> QED
    BY <2>1, <2>2
<1>3. h = [n \in Nat |-> IF n = 0 THEN 0 ELSE h[n - 1] + Delay(n)]
  <2>1. h = [n \in Nat |-> h[n]]
    OBVIOUS
  <2> HIDE DEF h
  <2> QED
    BY <1>2, <2>1
<1> HIDE DEF h
<1>4. \E t : t = [n \in Nat |-> IF n = 0 THEN 0 ELSE t[n - 1] + Delay(n)]
  BY <1>3
<1> QED
  BY <1>4, Zenon DEF Backoffs

\* The backoffs of a streak, one failure after the other.
LEMMA BackoffsOfStreak ==
  /\ Backoffs[0] = 0
  /\ \A n \in Nat : Backoffs[n] \in Nat /\ Backoffs[n + 1] = Backoffs[n] + Delay(n + 1)
<1>1. \A n \in Nat : Backoffs[n] = IF n = 0 THEN 0 ELSE Backoffs[n - 1] + Delay(n)
  BY BackoffsDefined, Zenon
<1>2. \A n \in Nat : Delay(n + 1) \in Nat
  BY DelayType, TriggerAssumption
<1>3. \A n \in Nat : Backoffs[n + 1] = Backoffs[n] + Delay(n + 1)
  <2> SUFFICES ASSUME NEW n \in Nat PROVE Backoffs[n + 1] = Backoffs[n] + Delay(n + 1)
    OBVIOUS
  <2>1. n + 1 \in Nat /\ n + 1 # 0 /\ (n + 1) - 1 = n
    OBVIOUS
  <2> QED
    BY <1>1, <2>1
<1>4. Backoffs[0] = 0
  BY <1>1
<1> DEFINE S == {n \in Nat : Backoffs[n] \in Nat}
<1>5. 0 \in S /\ \A n \in Nat : n \in S => n + 1 \in S
  BY <1>2, <1>3, <1>4
<1> HIDE DEF S
<1>6. Nat \subseteq S
  BY <1>5, SetInduction
<1> QED
  BY <1>3, <1>4, <1>6 DEF S

-----------------------------------------------------------------------------
\* Every failure since the last answer was backed off from before the next poll.
OutageInv ==
  /\ pc \in {"connect", "query"} => now - answeredAt >= Backoffs[retry_count]
  /\ pc = "sleep" => wake - answeredAt >= Backoffs[retry_count]
  /\ OutagesAreRiddenOut

\* The clocks and counters, as numbers.
LEMMA OutageTypes ==
  ASSUME TInv
  PROVE  /\ now \in Nat /\ wake \in Nat /\ answeredAt \in Nat /\ answeredAt <= now
         /\ retry_count \in Nat /\ MaxTransientRetries \in Nat
         /\ \A n \in Nat : Backoffs[n] \in Nat
BY BackoffsOfStreak, TriggerAssumption DEF TInv, TypeOK

\* There is no streak at first.
LEMMA InitOutage == Init => OutageInv
BY BackoffsOfStreak DEF Init, OutageInv, OutagesAreRiddenOut

\* A failure adds its backoff to the streak, or ends it after the last one.
LEMMA BackoffOutage ==
  ASSUME TInv, OutageInv, status = "waiting", NEW t \in Nat, Backoff(t), t >= now,
         pc \in {"connect", "query"}, answeredAt' = answeredAt, now' = t
  PROVE  OutageInv'
<1>1. /\ retry_count' = retry_count + 1 /\ retry_count <= MaxTransientRetries
      /\ now - answeredAt >= Backoffs[retry_count]
  BY DEF Backoff, OutageInv, TInv, Counting
<1>2. Backoffs[retry_count'] = Backoffs[retry_count] + Delay(retry_count')
      /\ Delay(retry_count') \in Nat
  BY <1>1, OutageTypes, BackoffsOfStreak, DelayType, TriggerAssumption
<1>3. CASE retry_count' > MaxTransientRetries /\ End("unreachable")
  <2>1. retry_count = MaxTransientRetries
    BY <1>1, <1>3, OutageTypes
  <2>2. now' - answeredAt' >= Backoffs[MaxTransientRetries]
    BY <1>1, <2>1, OutageTypes
  <2> QED
    BY <1>3, <2>2 DEF End, OutageInv, OutagesAreRiddenOut
<1>4. CASE SleepUntil(t + Delay(retry_count'))
  <2>1. wake' - answeredAt' >= Backoffs[retry_count']
    BY <1>1, <1>2, <1>4, OutageTypes DEF SleepUntil
  <2> QED
    BY <1>4, <2>1 DEF SleepUntil, OutageInv, OutagesAreRiddenOut
<1> QED
  BY <1>3, <1>4 DEF Backoff

\* Every step keeps the account of the streak.
LEMMA StepOutage == TInv /\ OutageInv /\ [Next]_vars => OutageInv'
<1> SUFFICES ASSUME TInv, OutageInv, [Next]_vars PROVE OutageInv'
  OBVIOUS
<1>1. CASE Connect
  <2> PICK d \in PollSeconds :
        /\ now' = now + d
        /\ \/ pc' = "query" /\ UNCHANGED <<counters, status, wake>>
           \/ Backoff(now + d)
           \/ PollRaises
    BY <1>1 DEF Connect
  <2>1. d \in Nat
    BY TriggerAssumption
  <2>2. pc = "connect" /\ status = "waiting" /\ answeredAt' = answeredAt
    BY <1>1 DEF Connect, TInv, TypeOK
  <2>3. CASE pc' = "query" /\ UNCHANGED <<counters, status, wake>>
    BY <2>1, <2>2, <2>3, OutageTypes DEF OutageInv, OutagesAreRiddenOut, counters
  <2>4. CASE Backoff(now + d)
    <3>1. now + d \in Nat /\ now + d >= now
      BY <2>1, OutageTypes
    <3> QED
      BY <2>2, <2>4, <3>1, BackoffOutage
  <2>5. CASE PollRaises
    BY <2>5 DEF PollRaises, End, OutageInv, OutagesAreRiddenOut
  <2> QED
    BY <2>3, <2>4, <2>5
<1>2. CASE Query
  <2>1. pc = "query" /\ status = "waiting" /\ now' = now
    BY <1>2 DEF Query, TInv, TypeOK
  <2>2. CASE pc' = "answered" /\ UNCHANGED status
    BY <2>1, <2>2 DEF OutageInv, OutagesAreRiddenOut
  <2>3. CASE Backoff(now) /\ UNCHANGED answeredAt
    <3>1. now \in Nat /\ now >= now
      BY OutageTypes
    <3> QED
      BY <2>1, <2>3, <3>1, BackoffOutage
  <2>4. CASE PollRaises
    BY <2>4 DEF PollRaises, End, OutageInv, OutagesAreRiddenOut
  <2> QED
    BY <1>2, <2>2, <2>3, <2>4 DEF Query
<1>3. CASE Ready
  BY <1>3 DEF Ready, End, OutageInv, OutagesAreRiddenOut
<1>4. CASE WaitMore
  <2>1. CASE End("timeout")
    BY <2>1 DEF End, OutageInv, OutagesAreRiddenOut
  <2>2. CASE SleepUntil(now + PokeInterval)
    <3>1. retry_count' = 0 /\ answeredAt' = answeredAt /\ wake' = now + PokeInterval
          /\ status' = "waiting" /\ pc' = "sleep"
      BY <1>4, <2>2 DEF WaitMore, SleepUntil, TInv, TypeOK
    <3>2. wake' - answeredAt' >= Backoffs[retry_count']
      BY <3>1, OutageTypes, BackoffsOfStreak, TriggerAssumption
    <3> QED
      BY <3>1, <3>2 DEF OutageInv, OutagesAreRiddenOut
  <2> QED
    BY <1>4, <2>1, <2>2 DEF WaitMore
<1>5. CASE Awake
  BY <1>5 DEF Awake, OutageInv, OutagesAreRiddenOut, counters, TInv, TypeOK
<1>6. CASE (\E d \in Dataset : Load(d)) \/ Midnight \/ UNCHANGED vars
  <2>1. UNCHANGED <<pc, counters, status, clock>>
    BY <1>6 DEF Load, Midnight, vars
  <2> QED
    BY <2>1 DEF OutageInv, OutagesAreRiddenOut, counters, clock
<1>7. CASE TriggererRestarts
  BY <1>7, OutageTypes, BackoffsOfStreak
     DEF TriggererRestarts, OutageInv, OutagesAreRiddenOut
<1> QED
  BY <1>1, <1>2, <1>3, <1>4, <1>5, <1>6, <1>7 DEF Next, Run

\* The wait is only given up for OperationalErrors after a whole streak of
\* them, each one backed off from, since Oracle last answered: an answer in
\* between starts the retries anew.
THEOREM OutagesRiddenOut == Spec => []OutagesAreRiddenOut
<1>1. OutageInv => OutagesAreRiddenOut
  BY DEF OutageInv
<1> QED
  BY <1>1, InitOutage, StepOutage, TriggerTypes, PTL DEF Spec
=============================================================================
