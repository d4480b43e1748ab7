------------------------- MODULE GeneratorStaging -------------------------
(***************************************************************************)
(* The generator's way of putting files in place (generate_csv.py): a CSV  *)
(* is written in .staging/, gzipped there if asked for, and renamed into   *)
(* the directory the ingest DAG watches; customers first, then orders.     *)
(*                                                                         *)
(* Generators are runs of main() from the cascade or the command line, and *)
(* of regenerate_readme_summary.py, which calls write_staged() as well.    *)
(* They may be killed at any step and nothing keeps two of them apart; the *)
(* names of their files hold the day, not the run.                         *)
(*                                                                         *)
(* The file system is modelled by what each path holds and by the path     *)
(* each open file has now: a rename takes the writers of a file with it.   *)
(***************************************************************************)
EXTENDS Integers, FiniteSets

CONSTANTS
    MaxGenerators,   \* bound: runs of the generator
    MaxOverlap,      \* bound: runs at the same time
    MaxDay,          \* bound: days of the clock
    NoFile,          \* what an absent path holds
    Closed,          \* the handle of a generator with no file open
    Detached         \* the handle of an open file that has lost its name

VARIABLES
    today,      \* date.today()
    pc,         \* per generator, its place in write_staged()
    dataset,    \* the dataset it is writing
    day,        \* the day in the names of that dataset's files
    compress,   \* --compress
    handle,     \* the path of the file it has open, or Closed
    alone,      \* no other generator has run at the same time
    data        \* what each path holds

vars == <<today, pc, dataset, day, compress, handle, alone, data>>

Generators == 1 .. MaxGenerators
Days == 1 .. MaxDay
Datasets == {"customers", "orders"}
Kinds == {"csv", "gz"}
Paths == [dir : {"staging", "watched"}, ds : Datasets, day : Days, kind : Kinds]

(* Contents: generator g's rows, complete or cut off; by = 0 for the bytes *)
(* of several writers in one file.                                         *)
Contents == [by : 0 .. MaxGenerators, whole : BOOLEAN]
Whole(g) == [by |-> g, whole |-> TRUE]
Partial(g) == [by |-> g, whole |-> FALSE]
Mixed == [by |-> 0, whole |-> FALSE]

ASSUME GeneratorBounds == MaxGenerators \in Nat \ {0} /\ MaxOverlap \in Nat /\ MaxDay \in Nat \ {0}
ASSUME Sentinels == /\ NoFile \notin Contents
                    /\ Closed \notin Paths /\ Detached \notin Paths /\ Closed # Detached

Running(g) == pc[g] \notin {"idle", "done", "failed", "killed"}

----------------------------------------------------------------------------
(* Paths and the operations on them *)

(* staging_path() and output_path() of the dataset a generator writes. *)
Staged(g, k) == [dir |-> "staging", ds |-> dataset[g], day |-> day[g], kind |-> k]
output_path(g, k) == [Staged(g, k) EXCEPT !.dir = "watched"]

(* The file that write_staged() renames at the end. *)
StagingTarget(g) == Staged(g, IF compress[g] THEN "gz" ELSE "csv")
FinalPath(g) == output_path(g, IF compress[g] THEN "gz" ELSE "csv")

\* Faulty variant: open(path, "a").
Append(p, g) == data' = [data EXCEPT ![p] = IF @ = NoFile THEN Partial(g) ELSE Mixed]

(* open(path, "w"): an existing file is truncated, under its writers too. *)
Truncate(p, g) == data' = [data EXCEPT ![p] = Partial(g)]

(* What a file holds once c has been written to g's open file and closed. *)
Written(g, c) ==
    IF handle[g] = Detached THEN data
    ELSE [data EXCEPT ![handle[g]] = IF @ = Partial(g) THEN c ELSE Mixed]

----------------------------------------------------------------------------
(* Steps of write_staged() *)

BeginWith(ds) ==
    /\ today = 1
    /\ pc = [g \in Generators |-> "idle"]
    /\ dataset = [g \in Generators |-> ds]
    /\ day = [g \in Generators |-> 1]
    /\ compress = [g \in Generators |-> FALSE]
    /\ handle = [g \in Generators |-> Closed]
    /\ alone = [g \in Generators |-> TRUE]
    /\ data = [p \in Paths |-> NoFile]

\* Faulty variant: main() writes the orders first.
OrdersFirst == BeginWith("orders")

Init == BeginWith("customers")

(* The rows of both datasets exist before the first file is opened.        *)
Start(g) ==
    /\ pc[g] = "idle"
    /\ \A h \in Generators : h < g => pc[h] # "idle"
    /\ Cardinality({h \in Generators : Running(h)}) < MaxOverlap
    /\ pc' = [pc EXCEPT ![g] = "open"]
    /\ \E c \in BOOLEAN : compress' = [compress EXCEPT ![g] = c]
    /\ alone' = IF \E h \in Generators : Running(h)
                THEN [h \in Generators |-> alone[h] /\ ~Running(h) /\ h # g]
                ELSE alone
    /\ UNCHANGED <<today, dataset, day, handle, data>>

OpenCsv(g, dir, d) ==
    LET p == [dir |-> dir, ds |-> dataset[g], day |-> d, kind |-> "csv"]
    IN  /\ pc[g] = "open"
        /\ day' = [day EXCEPT ![g] = d]
        /\ Truncate(p, g)
        /\ handle' = [handle EXCEPT ![g] = p]
        /\ pc' = [pc EXCEPT ![g] = "write"]
        /\ UNCHANGED <<today, dataset, compress, alone>>

\* Faulty variants: the file is written where it is watched; its name holds
\* the next day, as a clock ahead of the others would make it.
OpenWatched(g) == OpenCsv(g, "watched", today)
OpenTomorrow(g) == OpenCsv(g, "staging", today + 1)

(* The day is read once per dataset; then write_csv() opens the file. *)
OpenPlain(g) == OpenCsv(g, "staging", today)

(* write_csv() writes the last row and closes the file. *)
WritePlain(g) ==
    /\ pc[g] = "write"
    /\ data' = Written(g, Whole(g))
    /\ handle' = [handle EXCEPT ![g] = Closed]
    /\ pc' = [pc EXCEPT ![g] = IF compress[g] THEN "gzopen" ELSE "rename"]
    /\ UNCHANGED <<today, dataset, day, compress, alone>>

OpenGz(g) ==
    /\ pc[g] = "gzopen"
    /\ Truncate(Staged(g, "gz"), g)
    /\ handle' = [handle EXCEPT ![g] = Staged(g, "gz")]
    /\ pc' = [pc EXCEPT ![g] = "gzwrite"]
    /\ UNCHANGED <<today, dataset, day, compress, alone>>

(* staging_target.read_bytes() into the archive. *)
WriteGz(g) ==
    /\ pc[g] = "gzwrite"
    /\ data[Staged(g, "csv")] # NoFile
    /\ data' = Written(g, data[Staged(g, "csv")])
    /\ handle' = [handle EXCEPT ![g] = Closed]
    /\ pc' = [pc EXCEPT ![g] = "unlink"]
    /\ UNCHANGED <<today, dataset, day, compress, alone>>

UnlinkPlain(g) ==
    LET p == Staged(g, "csv")
    IN  /\ pc[g] = "unlink"
        /\ data[p] # NoFile
        /\ data' = [data EXCEPT ![p] = NoFile]
        /\ handle' = [h \in Generators |-> IF handle[h] = p THEN Detached ELSE handle[h]]
        /\ pc' = [pc EXCEPT ![g] = "rename"]
        /\ UNCHANGED <<today, dataset, day, compress, alone>>

(* Path.rename() replaces the file in place; main() goes on to the orders. *)
Rename(g) ==
    LET from == StagingTarget(g)
        to == FinalPath(g)
        last == dataset[g] = "orders"
    IN  /\ pc[g] = "rename"
        /\ data[from] # NoFile
        /\ data' = [data EXCEPT ![to] = data[from], ![from] = NoFile]
        /\ handle' = [h \in Generators |-> CASE handle[h] = from -> to
                                             [] handle[h] = to -> Detached
                                             [] OTHER -> handle[h]]
        /\ dataset' = [dataset EXCEPT ![g] = "orders"]
        /\ pc' = [pc EXCEPT ![g] = IF last THEN "done" ELSE "open"]
        /\ UNCHANGED <<today, day, compress, alone>>

(* FileNotFoundError: another generator renamed or removed the file. *)
Fail(g) ==
    /\ \/ pc[g] \in {"gzwrite", "unlink"} /\ data[Staged(g, "csv")] = NoFile
       \/ pc[g] = "rename" /\ data[StagingTarget(g)] = NoFile
    /\ pc' = [pc EXCEPT ![g] = "failed"]
    /\ handle' = [handle EXCEPT ![g] = Closed]
    /\ data' = IF pc[g] = "gzwrite" THEN Written(g, Partial(g)) ELSE data
    /\ UNCHANGED <<today, dataset, day, compress, alone>>

(* The process is killed (generate_task gives it 60 seconds); the system   *)
(* closes its files as they are.                                           *)
Kill(g) ==
    /\ Running(g)
    /\ pc' = [pc EXCEPT ![g] = "killed"]
    /\ handle' = [handle EXCEPT ![g] = Closed]
    /\ UNCHANGED <<today, dataset, day, compress, alone, data>>

Midnight ==
    /\ today < MaxDay
    /\ today' = today + 1
    /\ UNCHANGED <<pc, dataset, day, compress, handle, alone, data>>

Step(g) == \/ Start(g) \/ OpenPlain(g) \/ WritePlain(g) \/ OpenGz(g) \/ WriteGz(g)
           \/ UnlinkPlain(g) \/ Rename(g) \/ Fail(g) \/ Kill(g)

Next == Midnight \/ \E g \in Generators : Step(g)

Spec == Init /\ [][Next]_vars

----------------------------------------------------------------------------
(* Properties *)

TypeOK ==
    /\ today \in Days
    /\ pc \in [Generators -> {"idle", "open", "write", "gzopen", "gzwrite", "unlink",
                              "rename", "done", "failed", "killed"}]
    /\ dataset \in [Generators -> Datasets]
    /\ day \in [Generators -> Days]
    /\ compress \in [Generators -> BOOLEAN]
    /\ handle \in [Generators -> Paths \cup {Closed, Detached}]
    /\ alone \in [Generators -> BOOLEAN]
    /\ data \in [Paths -> Contents \cup {NoFile}]

(* While generators run one at a time, every file in a watched directory   *)
(* is one generator's complete rows, whatever was killed before it.        *)
(* (write_staged(): "a CSV is never visible in its watched directory       *)
(* mid-write".)                                                            *)
WatchedFilesAreWhole ==
    (\A g \in Generators : alone[g]) =>
        \A p \in Paths : p.dir = "watched" /\ data[p] # NoFile => data[p].whole

(* A generator that no other overlapped never misses a staged file, and    *)
(* what it put in place is its own and complete until another generator    *)
(* starts - also after generators that were killed or that damaged each    *)
(* other's staged files, whose remains it finds.                           *)
LoneGeneratorPublishes ==
    \A g \in Generators : alone[g] =>
        /\ pc[g] # "failed"
        /\ (pc[g] = "done" /\ \A h \in Generators : h > g => pc[h] = "idle") =>
               /\ data[FinalPath(g)] = Whole(g)
               /\ \E d \in 1 .. day[g] :
                      data[[dir |-> "watched", ds |-> "customers", day |-> d,
                            kind |-> FinalPath(g).kind]] = Whole(g)

----------------------------------------------------------------------------
(* Refinement *)

(* What resolve_matched_file() finds: the last name in order, by day and   *)
(* then .csv before .csv.gz.                                               *)
InPlace(ds) == {p \in Paths : p.dir = "watched" /\ p.ds = ds /\ data[p] # NoFile}
Precedes(p, q) == p.day < q.day \/ (p.day = q.day /\ (p.kind = q.kind \/ q.kind = "gz"))
Picked(ds) == CHOOSE q \in InPlace(ds) : \A p \in InPlace(ds) : Precedes(p, q)

Shown(ds) == IF InPlace(ds) = {} THEN 0
             ELSE IF data[Picked(ds)].whole THEN data[Picked(ds)].by ELSE -1

Undisturbed ==
    /\ \A g \in Generators : alone[g]
    /\ \A g, h \in Generators : pc[g] # "idle" /\ pc[h] # "idle" => compress[g] = compress[h]

(* A reader of the watched directories sees whole files only, replaced in  *)
(* the order of the runs, and orders only beside the customers they were   *)
(* drawn from or newer ones.                                               *)
Reader == INSTANCE Publication
    WITH Generations <- Generators,
         shown <- [ds \in Datasets |-> Shown(ds)],
         undisturbed <- Undisturbed

ImplementsPublication == Reader!Spec
=============================================================================
