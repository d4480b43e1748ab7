---------------------- MODULE GeneratorStagingProofs ----------------------
(***************************************************************************)
(* Proofs about GeneratorStaging for any number of generators and days.    *)
(*                                                                         *)
(* WatchedFilesAreWhole is not inductive: that a rename puts a whole file  *)
(* in place depends on what the staging paths hold at each step of the     *)
(* generator.  IInv says so for a generator that runs alone, together with *)
(* what makes it last: nobody else is running (SoleRunner), and a file is  *)
(* only open in the steps that write it (HandlesAreClosed).                *)
(***************************************************************************)
EXTENDS GeneratorStaging, TLAPS

(* Beside a generator that has been alone, only later ones run, after it.  *)
SoleRunner ==
    \A g, h \in Generators :
        alone[g] /\ pc[g] # "idle" /\ Running(h) /\ g # h => h > g /\ ~Running(g)

StartedInOrder ==
    \A g, h \in Generators : h < g /\ pc[h] = "idle" => pc[g] = "idle"

BeginWithCustomers ==
    \A g \in Generators : pc[g] = "idle" => dataset[g] = "customers"

HandlesAreClosed ==
    \A g \in Generators : pc[g] \notin {"write", "gzwrite"} => handle[g] = Closed

(* What the staging paths hold while a generator is on its own. *)
StagedAt(g) ==
    /\ pc[g] \in {"gzopen", "gzwrite", "unlink"} =>
           compress[g] /\ data[Staged(g, "csv")] = Whole(g)
    /\ pc[g] = "write" => handle[g] = Staged(g, "csv") /\ data[Staged(g, "csv")] = Partial(g)
    /\ pc[g] = "gzwrite" => handle[g] = Staged(g, "gz") /\ data[Staged(g, "gz")] = Partial(g)
    /\ pc[g] = "unlink" => data[Staged(g, "gz")] = Whole(g)
    /\ pc[g] = "rename" => data[StagingTarget(g)] = Whole(g)
    /\ pc[g] # "failed"

(* The customers file of a generator that has gone on to its orders. *)
CustomersPath(g, d) == [dir |-> "watched", ds |-> "customers", day |-> d,
                        kind |-> IF compress[g] THEN "gz" ELSE "csv"]
Latest(g) == \A h \in Generators : h > g => pc[h] = "idle"
PlacedBy(g) ==
    Latest(g) =>
        /\ (Running(g) \/ pc[g] = "done") /\ dataset[g] = "orders" =>
               \E d \in 1 .. day[g] : data[CustomersPath(g, d)] = Whole(g)
        /\ pc[g] = "done" => dataset[g] = "orders" /\ data[FinalPath(g)] = Whole(g)

DaysPassed == \A g \in Generators : day[g] <= today

IInv ==
    /\ TypeOK
    /\ SoleRunner
    /\ StartedInOrder
    /\ BeginWithCustomers
    /\ HandlesAreClosed
    /\ \A g \in Generators : alone[g] => StagedAt(g)
    /\ \A g \in Generators : alone[g] => PlacedBy(g)
    /\ DaysPassed
    /\ WatchedFilesAreWhole

----------------------------------------------------------------------------
(* Paths *)

USE GeneratorBounds, Sentinels

(* The paths of a dataset's files are paths, and staged ones are not       *)
(* watched.                                                                *)
LEMMA PathsOf ==
    ASSUME TypeOK, NEW g \in Generators, NEW k \in Kinds
    PROVE  /\ Staged(g, k) \in Paths
           /\ output_path(g, k) \in Paths
           /\ Staged(g, k).dir = "staging"
           /\ output_path(g, k).dir = "watched"
           /\ Staged(g, k).kind = k
           /\ Staged(g, k) # output_path(g, k)
BY DEF TypeOK, Staged, output_path, Paths, Datasets, Kinds, Days

LEMMA TargetsOf ==
    ASSUME TypeOK, NEW g \in Generators
    PROVE  /\ StagingTarget(g) \in Paths /\ StagingTarget(g).dir = "staging"
           /\ FinalPath(g) \in Paths /\ FinalPath(g).dir = "watched"
           /\ StagingTarget(g) # FinalPath(g)
<1>1. (IF compress[g] THEN "gz" ELSE "csv") \in Kinds
  BY DEF Kinds
<1> QED BY <1>1, PathsOf DEF StagingTarget, FinalPath

(* Contents are records that tell whole files from partial ones. *)
LEMMA ContentsOf ==
    ASSUME NEW g \in Generators
    PROVE  /\ Whole(g) \in Contents /\ Partial(g) \in Contents /\ Mixed \in Contents
           /\ Whole(g) # NoFile /\ Partial(g) # NoFile
           /\ Whole(g).whole
<1>1. Whole(g) \in Contents /\ Partial(g) \in Contents /\ Mixed \in Contents
  BY DEF Whole, Partial, Mixed, Contents, Generators
<1> QED BY <1>1 DEF Whole

(* Writing c to an open file of the right type changes that path only. *)
LEMMA WrittenOf ==
    ASSUME TypeOK, NEW g \in Generators, NEW c \in Contents
    PROVE  /\ Written(g, c) \in [Paths -> Contents \cup {NoFile}]
           /\ handle[g] \in Paths /\ data[handle[g]] = Partial(g) =>
                  /\ Written(g, c)[handle[g]] = c
                  /\ \A p \in Paths : p # handle[g] => Written(g, c)[p] = data[p]
<1>1. Mixed \in Contents
  BY DEF Mixed, Contents
<1>2. CASE handle[g] \in Paths
  BY <1>1, <1>2 DEF TypeOK, Written
<1>3. CASE handle[g] \notin Paths
  BY <1>1, <1>3 DEF TypeOK, Written
<1> QED BY <1>2, <1>3

----------------------------------------------------------------------------
(* Steps *)

(* A step of one running generator: what has to be shown of it. *)
LEMMA StepByOne ==
    ASSUME IInv, NEW x \in Generators, Running(x),
           alone' = alone, pc'[x] # "idle",
           \A g \in Generators : g # x => pc'[g] = pc[g] /\ dataset'[g] = dataset[g],
           TypeOK', DaysPassed', HandlesAreClosed', WatchedFilesAreWhole',
           alone[x] => StagedAt(x)' /\ PlacedBy(x)'
    PROVE  IInv'
<1>1. SoleRunner'
  BY DEF IInv, SoleRunner, Running
<1>2. StartedInOrder'
  BY DEF IInv, StartedInOrder, Running
<1>3. ASSUME NEW g \in Generators, g # x, alone[g]
      PROVE  ~Running(g) /\ (pc[g] = "idle" \/ x > g)
  BY <1>3 DEF IInv, SoleRunner, Running
<1>4. ASSUME NEW g \in Generators, alone'[g] PROVE StagedAt(g)'
  <2>1. CASE g = x
    BY <1>4, <2>1
  <2>2. CASE g # x
    <3>1. ~Running(g) /\ pc'[g] = pc[g] /\ pc[g] # "failed"
      BY <1>3, <1>4, <2>2 DEF IInv, StagedAt
    <3> QED BY <3>1 DEF StagedAt, Running
  <2> QED BY <2>1, <2>2
<1>5. ASSUME NEW g \in Generators, alone'[g] PROVE PlacedBy(g)'
  <2>1. CASE g = x
    BY <1>5, <2>1
  <2>2. CASE g # x
    <3>1. ~Running(g) /\ pc'[g] = pc[g] /\ (pc[g] = "idle" \/ x > g)
      BY <1>3, <1>5, <2>2
    <3>2. CASE x > g
      BY <3>2 DEF PlacedBy, Latest
    <3>3. CASE pc[g] = "idle"
      BY <3>1, <3>3 DEF PlacedBy, Running
    <3> QED BY <3>1, <3>2, <3>3
  <2> QED BY <2>1, <2>2
<1>6. BeginWithCustomers'
  BY DEF IInv, BeginWithCustomers
<1> QED BY <1>1, <1>2, <1>4, <1>5, <1>6 DEF IInv

LEMMA OpenPlainStep ==
    ASSUME IInv, NEW x \in Generators, OpenPlain(x)
    PROVE  IInv'
<1> DEFINE p == [dir |-> "staging", ds |-> dataset[x], day |-> today, kind |-> "csv"]
<1> USE DEF OpenCsv
<1>1. /\ p \in Paths /\ p.dir = "staging"
      /\ pc[x] = "open" /\ Running(x)
      /\ TypeOK
  BY DEF IInv, TypeOK, OpenPlain, Paths, Kinds, Running
<1>2. TypeOK'
  BY <1>1, ContentsOf DEF OpenPlain, TypeOK, Truncate
<1>3. DaysPassed'
  BY <1>1 DEF OpenPlain, IInv, TypeOK, DaysPassed, Days
<1>4. HandlesAreClosed'
  BY <1>1 DEF OpenPlain, IInv, TypeOK, HandlesAreClosed
<1>5. \A q \in Paths : q.dir = "watched" => data'[q] = data[q]
  BY <1>1 DEF OpenPlain, Truncate, TypeOK
<1>6. WatchedFilesAreWhole'
  BY <1>1, <1>5 DEF OpenPlain, IInv, WatchedFilesAreWhole
<1>7. StagedAt(x)'
  <2>1. p = Staged(x, "csv")'
    BY <1>1 DEF OpenPlain, Staged, TypeOK
  <2>2. pc'[x] = "write" /\ handle'[x] = p /\ data'[p] = Partial(x)
    BY <1>1 DEF OpenPlain, Truncate, TypeOK
  <2> HIDE DEF p
  <2>3. Partial(x) = Partial(x)'
    BY DEF Partial
  <2> QED BY <2>1, <2>2, <2>3 DEF StagedAt
<1>8. ASSUME alone[x] PROVE PlacedBy(x)'
  <2> SUFFICES ASSUME Latest(x)', dataset'[x] = "orders"
               PROVE  \E d \in 1 .. day'[x] : data'[CustomersPath(x, d)'] = Whole(x)'
    BY <1>1 DEF PlacedBy, OpenPlain, TypeOK
  <2>1. Latest(x) /\ dataset[x] = "orders"
    BY <1>1 DEF Latest, OpenPlain, TypeOK
  <2>2. PICK d \in 1 .. day[x] : data[CustomersPath(x, d)] = Whole(x)
    BY <1>1, <1>8, <2>1 DEF IInv, PlacedBy
  <2>3. d \in 1 .. day'[x] /\ d \in Days
    BY <1>1, <2>2 DEF OpenPlain, IInv, DaysPassed, TypeOK, Days
  <2>4. CustomersPath(x, d) \in Paths /\ CustomersPath(x, d).dir = "watched"
    BY <2>3 DEF CustomersPath, Paths, Datasets, Kinds
  <2>5. CustomersPath(x, d)' = CustomersPath(x, d) /\ Whole(x)' = Whole(x)
    BY DEF OpenPlain, CustomersPath, Whole
  <2> QED BY <1>5, <2>2, <2>3, <2>4, <2>5
<1> QED
  BY <1>1, <1>2, <1>3, <1>4, <1>6, <1>7, <1>8, StepByOne DEF OpenPlain, TypeOK

(* What a step that changes staging paths only, and neither the dataset,   *)
(* the day nor the suffix, leaves to show.                                 *)
LEMMA StagingStep ==
    ASSUME IInv, NEW x \in Generators, Running(x),
           UNCHANGED <<today, dataset, day, compress, alone>>,
           pc'[x] \notin {"idle", "done"},
           \A g \in Generators : g # x => pc'[g] = pc[g],
           TypeOK', HandlesAreClosed',
           alone[x] => /\ \A q \in Paths : q.dir = "watched" => data'[q] = data[q]
                       /\ StagedAt(x)'
    PROVE  IInv'
<1>1. DaysPassed'
  BY DEF IInv, DaysPassed
<1>2. WatchedFilesAreWhole'
  BY DEF IInv, WatchedFilesAreWhole
<1>3. ASSUME alone[x] PROVE PlacedBy(x)'
  <2> SUFFICES ASSUME Latest(x)', Running(x)', dataset[x] = "orders"
               PROVE  \E d \in 1 .. day[x] : data'[CustomersPath(x, d)] = Whole(x)
    BY DEF PlacedBy, CustomersPath, Whole
  <2>1. Latest(x)
    BY DEF Latest, IInv, TypeOK, Generators
  <2>2. PICK d \in 1 .. day[x] : data[CustomersPath(x, d)] = Whole(x)
    BY <1>3, <2>1 DEF IInv, PlacedBy
  <2>3. CustomersPath(x, d) \in Paths /\ CustomersPath(x, d).dir = "watched"
    BY DEF IInv, TypeOK, CustomersPath, Paths, Datasets, Kinds, Days
  <2> QED BY <1>3, <2>2, <2>3
<1> QED BY <1>1, <1>2, <1>3, StepByOne

LEMMA WritePlainStep ==
    ASSUME IInv, NEW x \in Generators, WritePlain(x)
    PROVE  IInv'
<1> USE DEF WritePlain
<1>1. TypeOK /\ pc[x] = "write" /\ Running(x) /\ "csv" \in Kinds
  BY DEF IInv, Running, Kinds
<1>2. TypeOK'
  BY <1>1, ContentsOf, WrittenOf DEF TypeOK
<1>3. HandlesAreClosed'
  BY <1>1 DEF IInv, HandlesAreClosed, TypeOK
<1>4. ASSUME alone[x]
      PROVE  /\ \A q \in Paths : q.dir = "watched" => data'[q] = data[q]
             /\ StagedAt(x)'
  <2>1. handle[x] = Staged(x, "csv") /\ data[handle[x]] = Partial(x) /\ handle[x] \in Paths
    BY <1>1, <1>4, PathsOf DEF IInv, StagedAt
  <2>2. data'[handle[x]] = Whole(x)
        /\ \A q \in Paths : q # handle[x] => data'[q] = data[q]
    BY <1>1, <2>1, ContentsOf, WrittenOf
  <2>3. \A q \in Paths : q.dir = "watched" => data'[q] = data[q]
    BY <1>1, <2>1, <2>2, PathsOf
  <2>4. pc'[x] = IF compress[x] THEN "gzopen" ELSE "rename"
    BY <1>1 DEF TypeOK
  <2>5. Staged(x, "csv")' = Staged(x, "csv") /\ Whole(x)' = Whole(x)
        /\ (~compress[x] => StagingTarget(x)' = Staged(x, "csv"))
    BY DEF Staged, Whole, StagingTarget
  <2> QED BY <1>1, <2>1, <2>2, <2>3, <2>4, <2>5 DEF StagedAt, TypeOK
<1> QED BY <1>1, <1>2, <1>3, <1>4, StagingStep DEF TypeOK

LEMMA OpenGzStep ==
    ASSUME IInv, NEW x \in Generators, OpenGz(x)
    PROVE  IInv'
<1> USE DEF OpenGz
<1>1. TypeOK /\ pc[x] = "gzopen" /\ Running(x) /\ "gz" \in Kinds /\ "csv" \in Kinds
  BY DEF IInv, Running, Kinds
<1>2. Staged(x, "gz") \in Paths /\ Staged(x, "csv") \in Paths
      /\ Staged(x, "gz").dir = "staging" /\ Staged(x, "gz") # Staged(x, "csv")
  BY <1>1, PathsOf
<1>3. TypeOK'
  BY <1>1, <1>2, ContentsOf DEF TypeOK, Truncate
<1>4. HandlesAreClosed'
  BY <1>1 DEF IInv, HandlesAreClosed, TypeOK
<1>5. \A q \in Paths : q.dir = "watched" => data'[q] = data[q]
  BY <1>1, <1>2 DEF Truncate, TypeOK
<1>6. ASSUME alone[x] PROVE StagedAt(x)'
  <2>1. data'[Staged(x, "gz")] = Partial(x) /\ data'[Staged(x, "csv")] = data[Staged(x, "csv")]
    BY <1>1, <1>2 DEF Truncate, TypeOK
  <2>2. pc'[x] = "gzwrite" /\ handle'[x] = Staged(x, "gz")
    BY <1>1 DEF TypeOK
  <2>3. compress[x] /\ data[Staged(x, "csv")] = Whole(x)
    BY <1>1, <1>6 DEF IInv, StagedAt
  <2>4. Staged(x, "csv")' = Staged(x, "csv") /\ Staged(x, "gz")' = Staged(x, "gz")
        /\ Whole(x)' = Whole(x) /\ Partial(x)' = Partial(x)
    BY DEF Staged, Whole, Partial
  <2> QED BY <2>1, <2>2, <2>3, <2>4 DEF StagedAt
<1> QED BY <1>1, <1>3, <1>4, <1>5, <1>6, StagingStep DEF TypeOK

LEMMA WriteGzStep ==
    ASSUME IInv, NEW x \in Generators, WriteGz(x)
    PROVE  IInv'
<1> USE DEF WriteGz
<1>1. TypeOK /\ pc[x] = "gzwrite" /\ Running(x) /\ "gz" \in Kinds /\ "csv" \in Kinds
  BY DEF IInv, Running, Kinds
<1>2. Staged(x, "gz") \in Paths /\ Staged(x, "csv") \in Paths
      /\ Staged(x, "gz").dir = "staging" /\ Staged(x, "gz") # Staged(x, "csv")
  BY <1>1, PathsOf
<1>3. data[Staged(x, "csv")] \in Contents
  BY <1>1, <1>2 DEF TypeOK
<1>4. TypeOK'
  BY <1>1, <1>3, WrittenOf DEF TypeOK
<1>5. HandlesAreClosed'
  BY <1>1 DEF IInv, HandlesAreClosed, TypeOK
<1>6. ASSUME alone[x]
      PROVE  /\ \A q \in Paths : q.dir = "watched" => data'[q] = data[q]
             /\ StagedAt(x)'
  <2>1. /\ handle[x] = Staged(x, "gz") /\ data[handle[x]] = Partial(x)
        /\ compress[x] /\ data[Staged(x, "csv")] = Whole(x)
    BY <1>1, <1>6 DEF IInv, StagedAt
  <2>2. data'[handle[x]] = Whole(x)
        /\ \A q \in Paths : q # handle[x] => data'[q] = data[q]
    BY <1>1, <1>2, <1>3, <2>1, WrittenOf
  <2>3. \A q \in Paths : q.dir = "watched" => data'[q] = data[q]
    BY <1>2, <2>1, <2>2
  <2>4. pc'[x] = "unlink"
    BY <1>1 DEF TypeOK
  <2>5. Staged(x, "csv")' = Staged(x, "csv") /\ Staged(x, "gz")' = Staged(x, "gz")
        /\ Whole(x)' = Whole(x)
    BY DEF Staged, Whole
  <2> QED BY <1>2, <2>1, <2>2, <2>3, <2>4, <2>5 DEF StagedAt
<1> QED BY <1>1, <1>4, <1>5, <1>6, StagingStep DEF TypeOK

LEMMA UnlinkPlainStep ==
    ASSUME IInv, NEW x \in Generators, UnlinkPlain(x)
    PROVE  IInv'
<1> USE DEF UnlinkPlain
<1>1. TypeOK /\ pc[x] = "unlink" /\ Running(x) /\ "gz" \in Kinds /\ "csv" \in Kinds
  BY DEF IInv, Running, Kinds
<1>2. Staged(x, "gz") \in Paths /\ Staged(x, "csv") \in Paths
      /\ Staged(x, "csv").dir = "staging" /\ Staged(x, "gz") # Staged(x, "csv")
  BY <1>1, PathsOf
<1>3. TypeOK'
  BY <1>1, <1>2 DEF TypeOK
<1>4. HandlesAreClosed'
  BY <1>1, <1>2 DEF IInv, HandlesAreClosed, TypeOK
<1>5. \A q \in Paths : q.dir = "watched" => data'[q] = data[q]
  BY <1>1, <1>2 DEF TypeOK
<1>6. ASSUME alone[x] PROVE StagedAt(x)'
  <2>1. compress[x] /\ data'[Staged(x, "gz")] = Whole(x)
    BY <1>1, <1>2, <1>6 DEF IInv, StagedAt, TypeOK
  <2>2. pc'[x] = "rename"
    BY <1>1 DEF TypeOK
  <2>3. StagingTarget(x)' = Staged(x, "gz") /\ Whole(x)' = Whole(x)
    BY <2>1 DEF Staged, Whole, StagingTarget
  <2> QED BY <2>1, <2>2, <2>3 DEF StagedAt
<1> QED BY <1>1, <1>3, <1>4, <1>5, <1>6, StagingStep DEF TypeOK

(* Only a generator that was overlapped misses a staged file. *)
LEMMA FailStep ==
    ASSUME IInv, NEW x \in Generators, Fail(x)
    PROVE  IInv'
<1> USE DEF Fail
<1>1. TypeOK /\ pc[x] \in {"gzwrite", "unlink", "rename"} /\ Running(x)
  BY DEF IInv, Running
<1>2. ~alone[x]
  <2> SUFFICES ASSUME alone[x] PROVE FALSE
    OBVIOUS
  <2>1. StagedAt(x)
    BY DEF IInv
  <2> QED BY <1>1, <2>1, ContentsOf DEF StagedAt
<1>3. TypeOK'
  BY <1>1, ContentsOf, WrittenOf DEF TypeOK
<1>4. HandlesAreClosed'
  BY <1>1 DEF IInv, HandlesAreClosed, TypeOK
<1> QED BY <1>1, <1>2, <1>3, <1>4, StagingStep DEF TypeOK

LEMMA KillStep ==
    ASSUME IInv, NEW x \in Generators, Kill(x)
    PROVE  IInv'
<1> USE DEF Kill
<1>1. TypeOK' /\ pc'[x] = "killed"
  BY DEF IInv, TypeOK
<1>2. HandlesAreClosed'
  BY DEF IInv, HandlesAreClosed, TypeOK
<1>3. StagedAt(x)'
  BY <1>1 DEF StagedAt
<1> QED BY <1>1, <1>2, <1>3, StagingStep DEF IInv, TypeOK

LEMMA RenameStep ==
    ASSUME IInv, NEW x \in Generators, Rename(x)
    PROVE  IInv'
<1> USE DEF Rename
<1> DEFINE from == StagingTarget(x)
           to == FinalPath(x)
<1>1. TypeOK /\ pc[x] = "rename" /\ Running(x)
  BY DEF IInv, Running
<1>2. from \in Paths /\ to \in Paths /\ from.dir = "staging" /\ to.dir = "watched" /\ from # to
  BY <1>1, TargetsOf
<1>3. /\ pc' = [pc EXCEPT ![x] = IF dataset[x] = "orders" THEN "done" ELSE "open"]
      /\ dataset' = [dataset EXCEPT ![x] = "orders"]
      /\ UNCHANGED <<today, day, compress, alone>>
  OBVIOUS
<1>4. /\ data'[to] = data[from] /\ data[from] \in Contents
      /\ \A q \in Paths : q.dir = "watched" /\ q # to => data'[q] = data[q]
  BY <1>1, <1>2 DEF TypeOK
<1>5. handle' \in [Generators -> Paths \cup {Closed, Detached}]
      /\ \A g \in Generators : handle[g] = Closed => handle'[g] = Closed
  BY <1>1, <1>2 DEF TypeOK
<1>6. data' \in [Paths -> Contents \cup {NoFile}]
  BY <1>1, <1>2 DEF TypeOK
<1>7. TypeOK'
  BY <1>1, <1>3, <1>5, <1>6 DEF TypeOK, Datasets
<1>8. HandlesAreClosed'
  BY <1>1, <1>3, <1>5 DEF IInv, HandlesAreClosed, TypeOK
<1>9. DaysPassed'
  BY <1>3 DEF IInv, DaysPassed
<1>10. alone[x] => data[from] = Whole(x)
  BY <1>1 DEF IInv, StagedAt
<1>11. WatchedFilesAreWhole'
  <2> SUFFICES ASSUME \A g \in Generators : alone[g],
                      NEW q \in Paths, q.dir = "watched", data'[q] # NoFile
               PROVE  data'[q].whole
    BY <1>3 DEF WatchedFilesAreWhole
  <2>1. CASE q = to
    BY <1>4, <1>10, <2>1, ContentsOf
  <2>2. CASE q # to
    BY <1>4, <2>2 DEF IInv, WatchedFilesAreWhole
  <2> QED BY <2>1, <2>2
<1>12. pc'[x] = (IF dataset[x] = "orders" THEN "done" ELSE "open") /\ dataset'[x] = "orders"
  BY <1>1, <1>3 DEF TypeOK
<1>13. StagedAt(x)'
  BY <1>12 DEF StagedAt
<1>14. ASSUME alone[x] PROVE PlacedBy(x)'
  <2> SUFFICES ASSUME Latest(x)'
               PROVE  /\ \E d \in 1 .. day[x] : data'[CustomersPath(x, d)] = Whole(x)
                      /\ pc'[x] = "done" => data'[FinalPath(x)'] = Whole(x)
    BY <1>3, <1>12 DEF PlacedBy, CustomersPath, Whole
  <2>1. Latest(x)
    BY <1>1, <1>3 DEF Latest, TypeOK, Generators
  <2>2. CASE dataset[x] = "orders"
    <3>1. PICK d \in 1 .. day[x] : data[CustomersPath(x, d)] = Whole(x)
      BY <1>1, <1>14, <2>1, <2>2 DEF IInv, PlacedBy
    <3>2. CustomersPath(x, d) \in Paths /\ CustomersPath(x, d).dir = "watched"
      BY <1>1 DEF TypeOK, CustomersPath, Paths, Datasets, Kinds, Days
    <3>3. CustomersPath(x, d) # to
      BY <2>2 DEF CustomersPath, FinalPath, output_path, Staged
    <3>4. data'[CustomersPath(x, d)] = Whole(x)
      BY <1>4, <3>1, <3>2, <3>3
    <3>5. FinalPath(x)' = to
      BY <1>3, <1>12, <2>2 DEF FinalPath, output_path, Staged
    <3> QED BY <1>4, <1>10, <1>14, <3>4, <3>5
  <2>3. CASE dataset[x] = "customers"
    <3>1. to = CustomersPath(x, day[x])
      BY <2>3 DEF CustomersPath, FinalPath, output_path, Staged
    <3>2. day[x] \in 1 .. day[x]
      BY <1>1 DEF TypeOK, Days
    <3> QED BY <1>4, <1>10, <1>12, <1>14, <2>3, <3>1, <3>2
  <2> QED BY <1>1, <2>2, <2>3 DEF TypeOK, Datasets
<1>15. \A g \in Generators : g # x => pc'[g] = pc[g] /\ dataset'[g] = dataset[g]
  BY <1>1, <1>3 DEF TypeOK
<1> QED
  BY <1>1, <1>3, <1>7, <1>8, <1>9, <1>11, <1>12, <1>13, <1>14, <1>15, StepByOne

LEMMA StartStep ==
    ASSUME IInv, NEW x \in Generators, Start(x)
    PROVE  IInv'
<1>1. /\ TypeOK /\ pc[x] = "idle"
      /\ pc' = [pc EXCEPT ![x] = "open"]
      /\ today' = today /\ dataset' = dataset /\ day' = day
      /\ handle' = handle /\ data' = data
  BY DEF IInv, Start
<1>2. PICK c \in BOOLEAN : compress' = [compress EXCEPT ![x] = c]
  BY DEF Start
<1>3. /\ alone' \in [Generators -> BOOLEAN]
      /\ \A g \in Generators : alone'[g] => alone[g]
      /\ \A g, h \in Generators : Running(h) /\ alone'[g] => g # x /\ ~Running(g)
  BY <1>1 DEF Start, TypeOK
<1>4. TypeOK'
  BY <1>1, <1>2, <1>3 DEF TypeOK
<1>5. SoleRunner'
  <2> SUFFICES ASSUME NEW g \in Generators, NEW h \in Generators, alone'[g],
                      pc'[g] # "idle", Running(h)', g # h
               PROVE  h > g /\ ~Running(g)'
    BY DEF SoleRunner
  <2>1. CASE g = x
    BY <1>1, <1>3, <2>1 DEF Running, TypeOK
  <2>2. CASE h = x
    <3>1. pc[g] # "idle" /\ pc'[g] = pc[g]
      BY <1>1, <2>2 DEF TypeOK
    <3>2. ~(g > x)
      BY <1>1, <3>1 DEF IInv, StartedInOrder, Generators
    <3>3. ~Running(g)
      BY <1>3
    <3> QED BY <2>2, <3>1, <3>2, <3>3 DEF Generators, Running
  <2>3. CASE g # x /\ h # x
    BY <1>1, <1>3, <2>3 DEF IInv, SoleRunner, Running, TypeOK
  <2> QED BY <2>1, <2>2, <2>3
<1>6. StartedInOrder' /\ BeginWithCustomers'
  BY <1>1 DEF Start, IInv, StartedInOrder, BeginWithCustomers, TypeOK, Generators
<1>7. HandlesAreClosed'
  BY <1>1 DEF IInv, HandlesAreClosed, TypeOK
<1>8. ASSUME NEW g \in Generators, alone'[g] PROVE StagedAt(g)'
  <2>1. CASE g = x
    BY <1>1, <2>1 DEF StagedAt, TypeOK
  <2>2. CASE g # x
    <3>1. pc'[g] = pc[g] /\ compress'[g] = compress[g] /\ StagedAt(g)
      BY <1>1, <1>2, <1>3, <1>8, <2>2 DEF TypeOK, IInv
    <3>2. \A k : Staged(g, k)' = Staged(g, k)
      BY <1>1 DEF Staged
    <3>3. StagingTarget(g)' = StagingTarget(g) /\ Whole(g)' = Whole(g) /\ Partial(g)' = Partial(g)
      BY <3>1, <3>2 DEF StagingTarget, Whole, Partial
    <3> QED BY <1>1, <3>1, <3>2, <3>3 DEF StagedAt
  <2> QED BY <2>1, <2>2
<1>9. ASSUME NEW g \in Generators, alone'[g] PROVE PlacedBy(g)'
  <2>1. CASE g = x
    BY <1>1, <2>1 DEF IInv, PlacedBy, TypeOK, BeginWithCustomers
  <2>2. CASE g # x
    <3>1. CASE pc[g] = "idle"
      BY <1>1, <2>2, <3>1 DEF PlacedBy, Running, TypeOK
    <3>2. CASE pc[g] # "idle"
      <4>1. x > g
        BY <1>1, <2>2, <3>2 DEF Start, IInv, StartedInOrder, Generators
      <4> QED BY <1>1, <4>1 DEF PlacedBy, Latest, TypeOK
    <3> QED BY <3>1, <3>2
  <2> QED BY <2>1, <2>2
<1>10. DaysPassed' /\ WatchedFilesAreWhole'
  BY <1>1, <1>3 DEF IInv, DaysPassed, WatchedFilesAreWhole
<1> QED BY <1>4, <1>5, <1>6, <1>7, <1>8, <1>9, <1>10 DEF IInv

LEMMA MidnightStep ==
    ASSUME IInv, Midnight
    PROVE  IInv'
<1>1. TypeOK' /\ DaysPassed'
  BY DEF IInv, TypeOK, Midnight, DaysPassed, Days
<1>2. UNCHANGED <<pc, dataset, day, compress, handle, alone, data>>
  BY DEF Midnight
<1>3. SoleRunner' /\ StartedInOrder' /\ BeginWithCustomers' /\ HandlesAreClosed'
      /\ WatchedFilesAreWhole'
  BY <1>2 DEF IInv, SoleRunner, Running, StartedInOrder, BeginWithCustomers,
              HandlesAreClosed, WatchedFilesAreWhole
<1>4. ASSUME NEW g \in Generators, alone'[g] PROVE StagedAt(g)' /\ PlacedBy(g)'
  <2>1. StagedAt(g) /\ PlacedBy(g)
    BY <1>2, <1>4 DEF IInv
  <2>2. StagedAt(g)'
    BY <1>2, <2>1 DEF StagedAt, StagingTarget, Staged, Whole, Partial
  <2>3. PlacedBy(g)'
    BY <1>2, <2>1 DEF PlacedBy, Latest, Running, CustomersPath, FinalPath, output_path,
                      Staged, Whole
  <2> QED BY <2>2, <2>3
<1> QED BY <1>1, <1>3, <1>4 DEF IInv

LEMMA StutterStep ==
    ASSUME IInv, UNCHANGED vars
    PROVE  IInv'
<1>1. TypeOK' /\ DaysPassed'
  BY DEF IInv, TypeOK, vars, DaysPassed
<1>2. UNCHANGED <<pc, dataset, day, compress, handle, alone, data>>
  BY DEF vars
<1>3. SoleRunner' /\ StartedInOrder' /\ BeginWithCustomers' /\ HandlesAreClosed'
      /\ WatchedFilesAreWhole'
  BY <1>2 DEF IInv, SoleRunner, Running, StartedInOrder, BeginWithCustomers,
              HandlesAreClosed, WatchedFilesAreWhole
<1>4. ASSUME NEW g \in Generators, alone'[g] PROVE StagedAt(g)' /\ PlacedBy(g)'
  <2>1. StagedAt(g) /\ PlacedBy(g)
    BY <1>2, <1>4 DEF IInv
  <2>2. StagedAt(g)'
    BY <1>2, <2>1 DEF StagedAt, StagingTarget, Staged, Whole, Partial
  <2>3. PlacedBy(g)'
    BY <1>2, <2>1 DEF PlacedBy, Latest, Running, CustomersPath, FinalPath, output_path,
                      Staged, Whole
  <2> QED BY <2>2, <2>3
<1> QED BY <1>1, <1>3, <1>4 DEF IInv

----------------------------------------------------------------------------
(* Theorems *)

LEMMA InitInv == Init => IInv
<1> USE DEF BeginWith
<1> SUFFICES ASSUME Init PROVE IInv
  OBVIOUS
<1>1. TypeOK
  BY DEF Init, TypeOK, Days, Datasets, Generators
<1>2. DaysPassed
  BY DEF Init, DaysPassed
<1>3. SoleRunner /\ StartedInOrder /\ BeginWithCustomers /\ HandlesAreClosed
      /\ WatchedFilesAreWhole
  BY DEF Init, SoleRunner, StartedInOrder, BeginWithCustomers, HandlesAreClosed,
         WatchedFilesAreWhole
<1>4. \A g \in Generators : StagedAt(g) /\ PlacedBy(g)
  BY DEF Init, StagedAt, PlacedBy, Running
<1> QED BY <1>1, <1>2, <1>3, <1>4 DEF IInv

LEMMA NextInv == IInv /\ [Next]_vars => IInv'
<1> SUFFICES ASSUME IInv, [Next]_vars PROVE IInv'
  OBVIOUS
<1>1. CASE UNCHANGED vars
  BY <1>1, StutterStep
<1>2. CASE Midnight
  BY <1>2, MidnightStep
<1>3. ASSUME NEW g \in Generators, Step(g) PROVE IInv'
  BY <1>3, StartStep, OpenPlainStep, WritePlainStep, OpenGzStep, WriteGzStep,
     UnlinkPlainStep, RenameStep, FailStep, KillStep DEF Step
<1> QED BY <1>1, <1>2, <1>3 DEF Next

THEOREM StagingInvariant == Spec => []IInv
BY InitInv, NextInv, PTL DEF Spec

(* Every variable has its type, for any number of generators and days. *)
THEOREM StagingTypes == Spec => []TypeOK
<1>1. IInv => TypeOK
  BY DEF IInv
<1> QED BY <1>1, StagingInvariant, PTL

(* write_staged() never shows a half-written file in a watched directory   *)
(* as long as generators do not overlap, wherever they are killed.         *)
THEOREM StagingKeepsFilesWhole == Spec => []WatchedFilesAreWhole
<1>1. IInv => WatchedFilesAreWhole
  BY DEF IInv
<1> QED BY <1>1, StagingInvariant, PTL

(* A generator on its own always puts both of its files in place, whatever *)
(* its killed or overlapped predecessors left in .staging/.                *)
THEOREM StagingRecovers == Spec => []LoneGeneratorPublishes
<1>1. ASSUME IInv PROVE LoneGeneratorPublishes
  <2> SUFFICES ASSUME NEW g \in Generators, alone[g]
               PROVE  /\ pc[g] # "failed"
                      /\ (pc[g] = "done" /\ Latest(g)) =>
                            /\ data[FinalPath(g)] = Whole(g)
                            /\ \E d \in 1 .. day[g] :
                                data[[dir |-> "watched", ds |-> "customers", day |-> d,
                                      kind |-> FinalPath(g).kind]] = Whole(g)
    BY DEF LoneGeneratorPublishes, Latest
  <2>1. pc[g] # "failed"
    BY <1>1 DEF IInv, StagedAt
  <2>2. ASSUME pc[g] = "done", Latest(g)
        PROVE  /\ data[FinalPath(g)] = Whole(g)
               /\ \E d \in 1 .. day[g] : data[CustomersPath(g, d)] = Whole(g)
    BY <1>1, <2>2 DEF IInv, PlacedBy
  <2>3. FinalPath(g).kind = IF compress[g] THEN "gz" ELSE "csv"
    BY DEF FinalPath, output_path, Staged
  <2> QED BY <2>1, <2>2, <2>3 DEF CustomersPath
<1> QED BY <1>1, StagingInvariant, PTL

----------------------------------------------------------------------------
(* The refinement                                                          *)
(*                                                                         *)
(* As long as the generators are undisturbed, the file a reader picks is   *)
(* the one put in place last: PubInv says so, and what the running         *)
(* generator finds when it puts the next one there.                        *)

(* The suffix of a generator's files. *)
Suffix(g) == IF compress[g] THEN "gz" ELSE "csv"

(* Every file in place is a started generator's, under its suffix, and of  *)
(* a day that has come.                                                    *)
PlacedWell ==
    \A p \in Paths : p.dir = "watched" /\ data[p] # NoFile =>
        /\ p.day <= today
        /\ \E h \in Generators : pc[h] # "idle" /\ data[p] = Whole(h) /\ p.kind = Suffix(h)

LastByDay(q) == q \in InPlace(q.ds) /\ \A p \in InPlace(q.ds) : p.day <= q.day
HasLast == \A ds \in Datasets : InPlace(ds) # {} => \E q \in InPlace(ds) : LastByDay(q)

(* No file in place is of a later day than the one being written or of its *)
(* generator, and the customers of orders being written come last.         *)
RunnerGoesOn(g) ==
    Running(g) =>
        /\ pc[g] # "open" => \A p \in InPlace(dataset[g]) : p.day <= day[g]
        /\ \A p \in InPlace("orders") \cup InPlace(dataset[g]) : data[p].by < g
        /\ dataset[g] = "orders" =>
               \E q \in InPlace("customers") : LastByDay(q) /\ data[q] = Whole(g)

PubInv == Undisturbed => PlacedWell /\ HasLast /\ \A g \in Generators : RunnerGoesOn(g)

WatchedSame == \A p \in Paths : p.dir = "watched" => data'[p] = data[p]

(* The file of the last day is the one resolve_matched_file() returns:     *)
(* with one suffix, the order of the names is that of the days.            *)
LEMMA PickedIsLast ==
    ASSUME TypeOK, Undisturbed, PlacedWell, NEW ds \in Datasets, NEW q \in InPlace(ds),
           LastByDay(q)
    PROVE  Picked(ds) = q
<1>1. \A p \in InPlace(ds) : /\ p \in Paths /\ p.dir = "watched" /\ p.ds = ds
                             /\ p.day \in Int /\ p.kind \in Kinds
  BY DEF InPlace, Paths, Days
<1>2. \A p \in InPlace(ds) : p.kind = q.kind
  BY <1>1 DEF InPlace, PlacedWell, Undisturbed, Suffix
<1>3. \A p \in InPlace(ds) : Precedes(p, q)
  BY <1>1, <1>2 DEF LastByDay, Precedes
<1>4. /\ Picked(ds) \in InPlace(ds)
      /\ \A p \in InPlace(ds) : Precedes(p, Picked(ds))
  BY <1>3 DEF Picked
<1>5. /\ Picked(ds).day = q.day /\ Picked(ds).kind = q.kind
      /\ Picked(ds).dir = q.dir /\ Picked(ds).ds = q.ds
  BY <1>1, <1>2, <1>3, <1>4 DEF Precedes
<1>6. \A p, r \in Paths :
        p.day = r.day /\ p.kind = r.kind /\ p.dir = r.dir /\ p.ds = r.ds => p = r
  BY DEF Paths
<1> QED BY <1>1, <1>4, <1>5, <1>6

(* So a reader finds the generator of that file. *)
LastIsShown ==
    \A ds \in Datasets : \A q \in InPlace(ds) : \A h \in Generators :
        LastByDay(q) /\ data[q] = Whole(h) => Shown(ds) = h

LEMMA ShownIsLast == TypeOK /\ Undisturbed /\ PlacedWell => LastIsShown
<1> SUFFICES ASSUME TypeOK, Undisturbed, PlacedWell, NEW ds \in Datasets,
                    NEW q \in InPlace(ds), NEW h \in Generators,
                    LastByDay(q), data[q] = Whole(h)
             PROVE  Shown(ds) = h
  BY DEF LastIsShown
<1>1. Picked(ds) = q /\ InPlace(ds) # {}
  BY PickedIsLast
<1> QED BY <1>1 DEF Shown, Whole

(* A step that leaves a dataset's files alone leaves readers with what     *)
(* they found.                                                             *)
LEMMA ShownSame ==
    ASSUME TypeOK, Undisturbed, PlacedWell, HasLast, NEW ds \in Datasets,
           InPlace(ds)' = InPlace(ds), \A p \in InPlace(ds) : data'[p] = data[p]
    PROVE  Shown(ds)' = Shown(ds)
<1>1. CASE InPlace(ds) = {}
  BY <1>1 DEF Shown
<1>2. CASE InPlace(ds) # {}
  <2>1. PICK q \in InPlace(ds) : LastByDay(q)
    BY <1>2 DEF HasLast
  <2>2. Picked(ds) = q
    BY <2>1, PickedIsLast
  <2>3. Picked(ds)' = Picked(ds)
    BY DEF Picked, Precedes
  <2>4. data'[Picked(ds)'] = data[Picked(ds)]
    BY <2>2, <2>3
  <2> QED BY <2>3, <2>4 DEF Shown
<1> QED BY <1>1, <1>2

(* What every step of a generator leaves of the others, and of the past. *)
LEMMA StepFrame ==
    ASSUME TypeOK, NEW x \in Generators, Step(x)
    PROVE  /\ today' = today
           /\ \A g \in Generators :
                /\ alone'[g] => alone[g]
                /\ pc[g] # "idle" => pc'[g] # "idle" /\ compress'[g] = compress[g]
                /\ g # x => pc'[g] = pc[g] /\ dataset'[g] = dataset[g] /\ day'[g] = day[g]
<1> USE DEF TypeOK
<1>1. CASE Start(x)
  BY <1>1 DEF Start
<1>2. CASE OpenPlain(x)
  BY <1>2 DEF OpenPlain, OpenCsv
<1>3. CASE WritePlain(x) \/ OpenGz(x) \/ WriteGz(x) \/ UnlinkPlain(x) \/ Rename(x)
  BY <1>3 DEF WritePlain, OpenGz, WriteGz, UnlinkPlain, Rename
<1>4. CASE Fail(x) \/ Kill(x)
  BY <1>4 DEF Fail, Kill
<1> QED BY <1>1, <1>2, <1>3, <1>4 DEF Step

(* Once disturbed, always disturbed. *)
LEMMA DisturbedStays ==
    ASSUME TypeOK, [Next]_vars, Undisturbed'
    PROVE  Undisturbed
<1>1. ASSUME NEW x \in Generators, Step(x) PROVE Undisturbed
  BY <1>1, StepFrame DEF Undisturbed
<1>2. CASE Midnight \/ UNCHANGED vars
  BY <1>2 DEF Midnight, vars, Undisturbed
<1> QED BY <1>1, <1>2 DEF Next

(* On its own, a generator only touches a watched directory by its renames. *)
LEMMA WatchedOfStep ==
    ASSUME IInv, NEW x \in Generators, alone[x], Step(x)
    PROVE  Rename(x) \/ WatchedSame
<1>1. TypeOK /\ StagedAt(x) /\ "csv" \in Kinds /\ "gz" \in Kinds
  BY DEF IInv, Kinds
<1>2. Staged(x, "csv") \in Paths /\ Staged(x, "csv").dir = "staging"
      /\ Staged(x, "gz") \in Paths /\ Staged(x, "gz").dir = "staging"
  BY <1>1, PathsOf
<1>3. CASE Start(x) \/ Kill(x)
  BY <1>3 DEF Start, Kill, WatchedSame
<1>4. CASE OpenPlain(x)
  <2> DEFINE p == [dir |-> "staging", ds |-> dataset[x], day |-> today, kind |-> "csv"]
  <2>1. data' = [data EXCEPT ![p] = Partial(x)] /\ p.dir = "staging"
    BY <1>4 DEF OpenPlain, OpenCsv, Truncate
  <2> HIDE DEF p
  <2> QED BY <1>1, <2>1 DEF WatchedSame, TypeOK
<1>5. CASE OpenGz(x)
  BY <1>1, <1>2, <1>5 DEF OpenGz, Truncate, WatchedSame, TypeOK
<1>6. CASE UnlinkPlain(x)
  BY <1>1, <1>2, <1>6 DEF UnlinkPlain, WatchedSame, TypeOK
<1>7. CASE WritePlain(x)
  <2>1. handle[x] = Staged(x, "csv") /\ data[handle[x]] = Partial(x)
    BY <1>1, <1>7 DEF WritePlain, StagedAt
  <2>2. data' = Written(x, Whole(x))
    BY <1>7 DEF WritePlain
  <2> QED BY <1>1, <1>2, <2>1, <2>2, WrittenOf, ContentsOf DEF WatchedSame
<1>8. CASE WriteGz(x)
  <2>1. handle[x] = Staged(x, "gz") /\ data[handle[x]] = Partial(x)
        /\ data[Staged(x, "csv")] = Whole(x)
    BY <1>1, <1>8 DEF WriteGz, StagedAt
  <2>2. data' = Written(x, Whole(x))
    BY <1>8, <2>1 DEF WriteGz
  <2> QED BY <1>1, <1>2, <2>1, <2>2, WrittenOf, ContentsOf DEF WatchedSame
<1>9. ~Fail(x)
  BY <1>1, ContentsOf DEF Fail, StagedAt
<1> QED BY <1>3, <1>4, <1>5, <1>6, <1>7, <1>8, <1>9 DEF Step

LEMMA InitPub == Init => PubInv
<1> SUFFICES ASSUME Init PROVE PubInv
  OBVIOUS
<1>1. \A ds : InPlace(ds) = {}
  BY DEF Init, BeginWith, InPlace
<1> QED BY <1>1 DEF Init, BeginWith, PubInv, PlacedWell, HasLast, RunnerGoesOn, Running

(* What was in place stays so through a step that leaves it alone. *)
LEMMA PlacedStays ==
    ASSUME TypeOK, PlacedWell, HasLast, WatchedSame, today' \in Int, today <= today',
           \A g \in Generators :
               pc[g] # "idle" => pc'[g] # "idle" /\ compress'[g] = compress[g]
    PROVE  PlacedWell' /\ HasLast'
<1>1. PlacedWell'
  <2> SUFFICES ASSUME NEW p \in Paths, p.dir = "watched", data[p] # NoFile
               PROVE  /\ p.day <= today'
                      /\ \E h \in Generators :
                            pc'[h] # "idle" /\ data[p] = Whole(h) /\ p.kind = Suffix(h)'
    BY DEF PlacedWell, WatchedSame, Whole
  <2>1. p.day <= today /\ p.day \in Int /\ today \in Int
    BY DEF PlacedWell, Paths, Days, TypeOK
  <2> QED BY <2>1 DEF PlacedWell, Suffix
<1>2. \A ds : InPlace(ds)' = InPlace(ds)
  BY DEF InPlace, WatchedSame
<1> QED BY <1>1, <1>2 DEF HasLast, LastByDay

LEMMA WatchedSamePub ==
    ASSUME IInv, PubInv, Undisturbed, WatchedSame, NEW x \in Generators, Step(x), ~Rename(x)
    PROVE  PubInv'
<1>1. /\ TypeOK /\ PlacedWell /\ HasLast /\ alone[x] /\ StagedAt(x)
      /\ \A g \in Generators : RunnerGoesOn(g)
  BY DEF IInv, PubInv, Undisturbed
<1>2. PlacedWell' /\ HasLast'
  BY <1>1, StepFrame, PlacedStays DEF TypeOK, Days
<1>3. /\ \A ds : InPlace(ds)' = InPlace(ds)
      /\ \A ds, p : p \in InPlace(ds) => data'[p] = data[p] /\ p \in Paths
      /\ \A p : LastByDay(p)' = LastByDay(p)
  <2>1. \A ds : InPlace(ds)' = InPlace(ds)
    BY DEF InPlace, WatchedSame
  <2> QED BY <2>1 DEF InPlace, WatchedSame, LastByDay
<1>4. ASSUME NEW g \in Generators, Running(g), pc[g] # "open" \/ pc'[g] = "open",
             dataset'[g] = dataset[g], day'[g] = day[g]
      PROVE  RunnerGoesOn(g)'
  BY <1>1, <1>3, <1>4 DEF RunnerGoesOn, Whole
<1>5. ASSUME NEW g \in Generators, g # x PROVE RunnerGoesOn(g)'
  BY <1>1, <1>4, <1>5, StepFrame DEF RunnerGoesOn, Running
<1>6. RunnerGoesOn(x)'
  <2>1. CASE Start(x)
    <3>1. pc[x] = "idle" /\ pc'[x] = "open" /\ dataset'[x] = "customers"
      BY <1>1, <2>1 DEF Start, IInv, BeginWithCustomers, TypeOK
    <3>2. ASSUME NEW ds, NEW p \in InPlace(ds) PROVE data[p].by < x
      <4>1. PICK h \in Generators : pc[h] # "idle" /\ data[p] = Whole(h)
        BY <1>1, <3>2 DEF PlacedWell, InPlace
      <4>2. h < x
        BY <3>1, <4>1 DEF IInv, StartedInOrder, Generators
      <4> QED BY <4>1, <4>2 DEF Whole
    <3> QED BY <1>3, <3>1, <3>2 DEF RunnerGoesOn
  <2>2. CASE OpenPlain(x)
    <3>1. /\ pc[x] = "open" /\ Running(x) /\ dataset' = dataset /\ day'[x] = today
      BY <1>1, <2>2 DEF OpenPlain, OpenCsv, Running, TypeOK
    <3>2. \A ds : \A p \in InPlace(ds) : p.day <= today
      BY <1>1 DEF PlacedWell, InPlace
    <3> QED BY <1>1, <1>3, <3>1, <3>2 DEF RunnerGoesOn, Whole
  <2>3. CASE WritePlain(x) \/ OpenGz(x) \/ WriteGz(x) \/ UnlinkPlain(x)
    BY <1>4, <2>3 DEF WritePlain, OpenGz, WriteGz, UnlinkPlain, Running
  <2>4. CASE Fail(x) \/ Kill(x)
    BY <1>1, <2>4 DEF Fail, Kill, RunnerGoesOn, Running, TypeOK
  <2> QED BY <2>1, <2>2, <2>3, <2>4 DEF Step
<1> QED BY <1>2, <1>5, <1>6 DEF PubInv

(* What a rename changes in the watched directories. *)
PutInPlace(x, to) ==
    /\ to.dir = "watched" /\ to.ds = dataset[x] /\ to.day = day[x] /\ to.kind = Suffix(x)
    /\ data'[to] = Whole(x)
    /\ \A p \in Paths : p.dir = "watched" /\ p # to => data'[p] = data[p]
    /\ \A ds \in Datasets :
           InPlace(ds)' = IF ds = dataset[x] THEN InPlace(ds) \cup {to} ELSE InPlace(ds)

LEMMA WatchedOfRename ==
    ASSUME IInv, Undisturbed, NEW x \in Generators, Rename(x)
    PROVE  \E to \in Paths : PutInPlace(x, to)
<1>1. TypeOK /\ StagedAt(x) /\ pc[x] = "rename"
  BY DEF IInv, Undisturbed, Rename
<1>2. PICK to \in Paths : to = FinalPath(x)
  BY <1>1, TargetsOf
<1>3. to.dir = "watched" /\ StagingTarget(x) \in Paths /\ StagingTarget(x).dir = "staging"
  BY <1>1, <1>2, TargetsOf
<1>4. to.ds = dataset[x] /\ to.day = day[x] /\ to.kind = Suffix(x)
  BY <1>2 DEF FinalPath, output_path, Staged, Suffix
<1>5. data[StagingTarget(x)] = Whole(x)
  BY <1>1 DEF StagedAt
<1>6. /\ data'[to] = Whole(x)
      /\ \A p \in Paths : p.dir = "watched" /\ p # to => data'[p] = data[p]
  BY <1>1, <1>2, <1>3, <1>5 DEF Rename, TypeOK
<1>7. Whole(x) # NoFile
  BY ContentsOf
<1>8. ASSUME NEW ds \in Datasets
      PROVE  InPlace(ds)' = IF ds = dataset[x] THEN InPlace(ds) \cup {to} ELSE InPlace(ds)
  <2>1. \A p \in Paths : p \in InPlace(ds)' <=> p \in InPlace(ds) \/ (p = to /\ ds = dataset[x])
    BY <1>3, <1>4, <1>6, <1>7 DEF InPlace
  <2>2. InPlace(ds)' \subseteq Paths /\ InPlace(ds) \subseteq Paths
    BY DEF InPlace
  <2> QED BY <2>1, <2>2
<1> QED BY <1>2, <1>3, <1>4, <1>6, <1>8 DEF PutInPlace

LEMMA RenamePub ==
    ASSUME IInv, PubInv, Undisturbed, NEW x \in Generators, Rename(x),
           NEW to \in Paths, PutInPlace(x, to)
    PROVE  PubInv' /\ LastByDay(to)'
<1>1. /\ TypeOK /\ PlacedWell /\ HasLast /\ RunnerGoesOn(x)
      /\ alone[x] /\ pc[x] = "rename" /\ Running(x) /\ day[x] <= today
  BY DEF IInv, DaysPassed, PubInv, Undisturbed, Rename, Running
<1>2. /\ today' = today /\ day' = day /\ compress' = compress
      /\ pc'[x] = (IF dataset[x] = "orders" THEN "done" ELSE "open")
      /\ dataset'[x] = "orders"
      /\ \A g \in Generators : g # x => pc'[g] = pc[g]
  BY <1>1 DEF Rename, TypeOK
<1>3. PlacedWell'
  <2> SUFFICES ASSUME NEW p \in Paths, p.dir = "watched", data'[p] # NoFile
               PROVE  /\ p.day <= today
                      /\ \E h \in Generators :
                            pc'[h] # "idle" /\ data'[p] = Whole(h) /\ p.kind = Suffix(h)
    BY <1>2 DEF PlacedWell, Whole, Suffix
  <2>1. CASE p = to
    BY <1>1, <1>2, <2>1 DEF PutInPlace
  <2>2. CASE p # to
    <3>1. data[p] = data'[p]
      BY <2>2 DEF PutInPlace
    <3>2. PICK h \in Generators : pc[h] # "idle" /\ data[p] = Whole(h) /\ p.kind = Suffix(h)
      BY <1>1, <3>1 DEF PlacedWell
    <3>3. p.day <= today
      BY <1>1, <3>1 DEF PlacedWell
    <3> QED BY <1>2, <3>1, <3>2, <3>3
  <2> QED BY <2>1, <2>2
<1>4. to.ds = dataset[x] /\ to.ds \in Datasets /\ to.day = day[x] /\ day[x] \in Int
  BY <1>1 DEF PutInPlace, TypeOK, Days
<1>5. LastByDay(to)'
  <2>1. InPlace(to.ds)' = InPlace(to.ds) \cup {to}
    BY <1>4 DEF PutInPlace
  <2>2. \A p \in InPlace(to.ds) : p.day <= to.day
    BY <1>1, <1>4 DEF RunnerGoesOn
  <2> QED BY <1>4, <2>1, <2>2 DEF LastByDay
<1>6. HasLast'
  <2> SUFFICES ASSUME NEW ds \in Datasets, InPlace(ds)' # {}
               PROVE  \E q \in InPlace(ds)' : LastByDay(q)'
    BY DEF HasLast
  <2>1. CASE ds = to.ds
    BY <1>5, <2>1 DEF LastByDay
  <2>2. CASE ds # to.ds
    <3>1. InPlace(ds)' = InPlace(ds)
      BY <1>4, <2>2 DEF PutInPlace
    <3>2. \A q \in InPlace(ds) : q.ds = ds
      BY DEF InPlace
    <3> QED BY <1>1, <3>1, <3>2 DEF HasLast, LastByDay
  <2> QED BY <2>1, <2>2
<1>7. ASSUME NEW g \in Generators PROVE RunnerGoesOn(g)'
  <2>1. CASE g # x
    <3>1. ~Running(g)'
      BY <1>1, <1>2, <2>1 DEF IInv, SoleRunner, Running
    <3> QED BY <3>1 DEF RunnerGoesOn
  <2>2. CASE g = x /\ dataset[x] = "orders"
    BY <1>2, <2>2 DEF RunnerGoesOn, Running
  <2>3. CASE g = x /\ dataset[x] # "orders"
    <3>1. dataset[x] = "customers" /\ pc'[x] = "open" /\ "orders" \in Datasets
      BY <1>1, <1>2, <2>3 DEF TypeOK, Datasets
    <3>2. InPlace("orders")' = InPlace("orders") /\ to \in InPlace("customers")'
      BY <1>4, <3>1 DEF PutInPlace
    <3>3. \A p \in InPlace("orders") : data[p].by < x /\ data'[p] = data[p]
      BY <1>1, <1>4, <3>1 DEF RunnerGoesOn, InPlace, PutInPlace
    <3>4. data'[to] = Whole(x)'
      BY DEF PutInPlace, Whole
    <3> QED BY <1>2, <1>5, <2>3, <3>1, <3>2, <3>3, <3>4 DEF RunnerGoesOn
  <2> QED BY <2>1, <2>2, <2>3
<1> QED BY <1>3, <1>5, <1>6, <1>7 DEF PubInv

LEMMA PubStep == IInv /\ PubInv /\ [Next]_vars => PubInv'
<1> SUFFICES ASSUME IInv, PubInv, [Next]_vars, Undisturbed' PROVE PubInv'
  BY DEF PubInv
<1>1. TypeOK /\ Undisturbed
  BY DisturbedStays DEF IInv
<1>2. ASSUME NEW x \in Generators, Step(x) PROVE PubInv'
  BY <1>1, <1>2, WatchedOfStep, WatchedOfRename, RenamePub, WatchedSamePub DEF Undisturbed
<1>3. CASE Midnight \/ UNCHANGED vars
  <2>1. /\ UNCHANGED <<pc, dataset, day, compress, handle, alone, data>>
        /\ today' \in Int /\ today <= today'
    BY <1>1, <1>3 DEF Midnight, vars, TypeOK, Days
  <2>2. WatchedSame
    BY <2>1 DEF WatchedSame
  <2>3. PlacedWell' /\ HasLast'
    BY <1>1, <2>1, <2>2, PlacedStays DEF PubInv
  <2>4. ASSUME NEW g \in Generators PROVE RunnerGoesOn(g)'
    BY <1>1, <2>1 DEF PubInv, RunnerGoesOn, Running, InPlace, LastByDay, Whole
  <2> QED BY <2>3, <2>4 DEF PubInv
<1> QED BY <1>2, <1>3 DEF Next

(* The runs of the generator that stay undisturbed place their files in    *)
(* the order of their days, and the last one placed is the one picked.     *)
THEOREM StagingPublicationInvariant == Spec => []PubInv
BY InitPub, PubStep, StagingInvariant, PTL DEF Spec

LEMMA InitReader == Init => Reader!Init
<1> SUFFICES ASSUME Init PROVE Reader!Init
  OBVIOUS
<1>1. \A ds : Shown(ds) = 0
  BY DEF Init, BeginWith, InPlace, Shown
<1>2. Undisturbed
  BY DEF Init, BeginWith, Undisturbed
<1> QED BY <1>1, <1>2 DEF Reader!Init, Reader!Datasets, Datasets

LEMMA ReaderStep == IInv /\ IInv' /\ PubInv /\ PubInv' /\ [Next]_vars => [Reader!Next]_(Reader!vars)
<1> SUFFICES ASSUME IInv, IInv', PubInv, PubInv', [Next]_vars
             PROVE  Reader!Next \/ UNCHANGED Reader!vars
  OBVIOUS
<1>1. CASE ~Undisturbed'
  <2>1. Undisturbed' = FALSE
    BY <1>1
  <2> QED BY <2>1 DEF Reader!Next
<1>2. CASE Undisturbed'
  <2>1. /\ Undisturbed /\ PlacedWell /\ HasLast /\ TypeOK
        /\ \A g \in Generators : RunnerGoesOn(g) /\ alone[g]
    BY <1>2, DisturbedStays DEF IInv, PubInv, Undisturbed
  <2>2. Undisturbed' = Undisturbed
    BY <1>2, <2>1
  <2>3. CASE WatchedSame
    <3>1. \A ds \in Datasets : Shown(ds)' = Shown(ds)
      BY <2>1, <2>3, ShownSame DEF WatchedSame, InPlace
    <3>2. [ds \in Datasets |-> Shown(ds)]' = [ds \in Datasets |-> Shown(ds)]
      BY <3>1
    <3> QED BY <2>2, <3>2 DEF Reader!vars
  <2>4. ASSUME NEW x \in Generators, Rename(x) PROVE Reader!Next
    <3>1. PICK to \in Paths : PutInPlace(x, to)
      BY <2>1, <2>4, WatchedOfRename
    <3>2. dataset[x] \in Datasets /\ Datasets = {"customers", "orders"}
          /\ pc[x] = "rename" /\ Running(x) /\ RunnerGoesOn(x)
      BY <2>1, <2>4 DEF TypeOK, Datasets, Rename, Running
    <3>3. Shown(dataset[x]) < x
      <4>1. CASE InPlace(dataset[x]) = {}
        BY <4>1 DEF Shown, Generators
      <4>2. CASE InPlace(dataset[x]) # {}
        <5>1. PICK q \in InPlace(dataset[x]) : LastByDay(q)
          BY <2>1, <3>2, <4>2 DEF HasLast
        <5>2. PICK h \in Generators : data[q] = Whole(h)
          BY <2>1, <5>1 DEF PlacedWell, InPlace
        <5>3. Shown(dataset[x]) = h
          BY <2>1, <3>2, <5>1, <5>2, ShownIsLast DEF LastIsShown
        <5>4. data[q].by < x
          BY <3>2, <5>1 DEF RunnerGoesOn
        <5> QED BY <5>2, <5>3, <5>4 DEF Whole
      <4> QED BY <4>1, <4>2
    <3>4. ASSUME NEW ds \in Datasets, ds = dataset[x] PROVE Shown(ds)' = x
      <4>1. LastByDay(to)' /\ to \in InPlace(ds)' /\ data'[to] = Whole(x)
        BY <2>1, <2>4, <3>1, <3>4, RenamePub DEF PutInPlace
      <4>2. LastIsShown'
        <5>1. TypeOK' /\ Undisturbed' /\ PlacedWell'
          BY <1>2 DEF IInv, PubInv
        <5> QED BY <5>1, ShownIsLast, PTL
      <4> QED BY <4>1, <4>2 DEF LastIsShown, Whole
    <3>5. ASSUME NEW ds \in Datasets, ds # dataset[x] PROVE Shown(ds)' = Shown(ds)
      <4>1. InPlace(ds)' = InPlace(ds)
        BY <3>1, <3>5 DEF PutInPlace
      <4>2. \A p \in InPlace(ds) : data'[p] = data[p]
        BY <3>1, <3>5 DEF PutInPlace, InPlace
      <4> QED BY <2>1, <4>1, <4>2, ShownSame
    <3>6. CASE dataset[x] = "customers"
      <4>1. [ds \in Datasets |-> Shown(ds)]'
                = [[ds \in Datasets |-> Shown(ds)] EXCEPT !["customers"] = x]
        BY <3>2, <3>4, <3>5, <3>6
      <4>2. Reader!PublishCustomers
        BY <3>2, <3>3, <3>6, <4>1 DEF Reader!PublishCustomers
      <4> QED BY <2>1, <2>2, <4>2 DEF Reader!Next
    <3>7. CASE dataset[x] = "orders"
      <4>1. Shown("customers") = x
        BY <2>1, <3>2, <3>7, ShownIsLast DEF RunnerGoesOn, LastIsShown
      <4>2. [ds \in Datasets |-> Shown(ds)]'
                = [[ds \in Datasets |-> Shown(ds)] EXCEPT !["orders"] = x]
        BY <3>2, <3>4, <3>5, <3>7
      <4>3. Reader!PublishOrders
        BY <3>2, <3>3, <3>7, <4>1, <4>2 DEF Reader!PublishOrders
      <4> QED BY <2>1, <2>2, <4>3 DEF Reader!Next
    <3> QED BY <3>2, <3>6, <3>7
  <2>5. CASE Midnight \/ UNCHANGED vars
    BY <2>3, <2>5 DEF Midnight, vars, WatchedSame
  <2> QED BY <2>1, <2>3, <2>4, <2>5, WatchedOfStep DEF Next
<1> QED BY <1>1, <1>2

(* A reader of the watched directories sees whole files only, replaced in  *)
(* the order of the generator's runs, and orders only beside the customers *)
(* they were drawn from or newer ones: every step of write_staged() is a   *)
(* step of Publication or leaves its view as it was.                       *)
THEOREM StagingImplementsPublication == Spec => ImplementsPublication
BY InitReader, ReaderStep, StagingInvariant, StagingPublicationInvariant, PTL
   DEF Spec, ImplementsPublication, Reader!Spec
=============================================================================
