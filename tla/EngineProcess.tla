---------------------------- MODULE EngineProcess ----------------------------
(***************************************************************************)
(* csv_processor.engine.process(): concurrent calls, each in a process of  *)
(* its own with one Oracle session and one transaction, over the shared    *)
(* tables and the shared data directory.                                   *)
(*                                                                         *)
(* Between any two steps of a call another call may run, its file may be   *)
(* replaced or removed, its session may be lost and its process killed.    *)
(* Oracle itself is modelled as far as the engine relies on it: reads see  *)
(* committed rows, an insert of a key another open transaction holds waits *)
(* for it, a wait cycle is broken by failing one of its statements, and    *)
(* the transaction of a lost session is rolled back.                       *)
(***************************************************************************)
EXTENDS IngestData

CONSTANTS
  Worker,          \* processes that call process()
  Path,            \* files of the data directory
  DatasetOf,       \* config.dataset of the calls made for a path
  Appears,         \* the contents that may appear at a path
  HeaderOk,        \* contents whose sample passes prepare_source's checks
  Opens,           \* readings whose rows up to the sample's header can be skipped
  TornAt,          \* the row whose reading raises (bad bytes, torn archive), or 0
  ChunkSize,       \* config.processing.chunk_size
  None,            \* no file at a path, no checksum computed yet
  MaxFaults,       \* bound on lost sessions, statement errors and kills
  MaxChanges       \* bound on the times a file is replaced or removed

ASSUME EngineAssumption ==
  /\ Worker # {} /\ Path # {} /\ Content # {}
  /\ DatasetOf \in [Path -> Dataset]
  /\ Appears \in [Path -> SUBSET Content]
  /\ HeaderOk \in [Content -> BOOLEAN]
  /\ TornAt \in [Reading -> Nat]
  /\ Opens \in [Reading -> BOOLEAN]
  /\ ChunkSize \in Nat \ {0}
  /\ None \notin Content
  /\ MaxFaults \in Nat /\ MaxChanges \in Nat

\* The rows up to a header the sample passed with were read with the sample.
ASSUME OpensAssumption == \A c \in Content : HeaderOk[c] => Opens[ReadingOf(c)]

VARIABLES
  disk,                               \* the content at each path
  validRows, invalidRows, metadata,   \* the committed tables
  pc, path, checksum, src, call,      \* per call: where it is, what it reads, its number
  loaded, validCount, invalidCount,   \* rows of finished chunks, and the counts
  txValid, txInvalid, txMeta,         \* its uncommitted inserts
  session,                            \* its Oracle session
  result,                             \* what it returned
  calls, faults, changes              \* how much of each bound is used

tables == <<validRows, invalidRows, metadata>>
file == <<path, checksum, src, call>>
progress == <<loaded, validCount, invalidCount>>
tx == <<txValid, txInvalid, txMeta>>
budget == <<calls, faults, changes>>
vars == <<disk, tables, pc, file, progress, tx, session, result, budget>>

Working == {"hash", "connect", "lookup", "detect", "reopen", "fetch", "valid",
            "invalid", "record", "reread", "commit"}
Handling == {"on_structural", "on_oracle", "on_exception"}
Location == {"idle", "done"} \cup Working \cup Handling

\* RAISED: process() let an exception out instead of returning a result.
Outcome == [status : Status \cup {"RAISED"}, total : Nat, valid : Nat, invalid : Nat]
ResultOf(s, v, i) == [status |-> s, total |-> v + i, valid |-> v, invalid |-> i]
Raised == ResultOf("RAISED", 0, 0)
Recorded(m) ==
  [status |-> m.status, total |-> m.total, valid |-> m.valid, invalid |-> m.invalid]

TypeOK ==
  /\ disk \in [Path -> Content \cup {None}]
  /\ validRows \subseteq TableRow
  /\ invalidRows \subseteq TableRow
  /\ metadata \subseteq Record
  /\ pc \in [Worker -> Location]
  /\ path \in [Worker -> Path]
  /\ checksum \in [Worker -> Content \cup {None}]
  /\ \A w \in Worker : pc[w] \notin {"idle", "done", "hash"} => checksum[w] # None
  /\ src \in [Worker -> Reading]
  /\ call \in [Worker -> 0 .. MaxCalls]
  /\ \A w \in Worker : pc[w] \notin {"idle", "done"} => call[w] # 0
  /\ loaded \in [Worker -> Nat]
  /\ validCount \in [Worker -> Nat]
  /\ invalidCount \in [Worker -> Nat]
  /\ txValid \in [Worker -> SUBSET TableRow]
  /\ txInvalid \in [Worker -> SUBSET TableRow]
  /\ txMeta \in [Worker -> SUBSET Record]
  /\ session \in [Worker -> {"none", "up", "lost"}]
  /\ result \in [Worker -> Outcome]
  /\ calls \in 0 .. MaxCalls /\ faults \in Nat /\ changes \in Nat

Init ==
  /\ disk \in [Path -> Content \cup {None}]
  /\ \A p \in Path : disk[p] \in Appears[p] \cup {None}
  /\ validRows = {} /\ invalidRows = {} /\ metadata = {}
  /\ pc = [w \in Worker |-> "idle"]
  /\ path = [w \in Worker |-> CHOOSE p \in Path : TRUE]
  /\ checksum = [w \in Worker |-> None]
  /\ src = [w \in Worker |-> CHOOSE r \in Reading : TRUE]
  /\ call = [w \in Worker |-> 0]
  /\ loaded = [w \in Worker |-> 0]
  /\ validCount = [w \in Worker |-> 0]
  /\ invalidCount = [w \in Worker |-> 0]
  /\ txValid = [w \in Worker |-> {}]
  /\ txInvalid = [w \in Worker |-> {}]
  /\ txMeta = [w \in Worker |-> {}]
  /\ session = [w \in Worker |-> "none"]
  /\ result = [w \in Worker |-> Raised]
  /\ calls = 0 /\ faults = 0 /\ changes = 0
-----------------------------------------------------------------------------
(***************************************************************************)
(* Helpers.                                                                *)
(***************************************************************************)
GoTo(w, location) == pc' = [pc EXCEPT ![w] = location]

ClearTx(w) ==
  /\ txValid' = [txValid EXCEPT ![w] = {}]
  /\ txInvalid' = [txInvalid EXCEPT ![w] = {}]
  /\ txMeta' = [txMeta EXCEPT ![w] = {}]

\* process() returns r; its finally block closes the session.
Return(w, r) ==
  /\ GoTo(w, "done")
  /\ result' = [result EXCEPT ![w] = r]
  /\ session' = [session EXCEPT ![w] = "none"]

ds(w) == DatasetOf[path[w]]
rows(w) == Rows[src[w]]
Min2(a, b) == IF a < b THEN a ELSE b
ChunkEnd(w) == Min2(loaded[w] + ChunkSize, Len(rows(w)))
ChunkValid(w) == ValidRowsOf(ds(w), checksum[w], call[w], src[w], loaded[w], ChunkEnd(w))
ChunkInvalid(w) == InvalidRowsOf(ds(w), checksum[w], call[w], src[w], loaded[w], ChunkEnd(w))
ChunkValidCount(w) == Cardinality(ValidIndices(src[w], loaded[w], ChunkEnd(w)))
ChunkInvalidCount(w) == Cardinality(InvalidIndices(src[w], loaded[w], ChunkEnd(w)))

\* The next row of the chunk's executemany() into <dataset>_valid, if any.
Unsent(w) == ChunkValid(w) \ txValid[w]
IsNext(w, r) == r \in Unsent(w) /\ \A q \in Unsent(w) : r.n <= q.n

SameKey(r, q) == r.dataset = q.dataset /\ KeyOf(r) = KeyOf(q)
Taken(w, r) == \E q \in validRows \cup txValid[w] : SameKey(q, r)
RefMissing(r) ==
  /\ r.dataset = "orders"
  /\ ~ \E q \in validRows : q.dataset = "customers" /\ KeyOf(q) = RefOf(r)

\* The open transaction of v holds the key w's next insert needs.
WaitsFor(w, v) ==
  /\ v # w
  /\ session[w] = "up"
  /\ \/ /\ pc[w] = "valid"
        /\ \E r \in ChunkValid(w) :
             /\ IsNext(w, r) /\ ~RefMissing(r) /\ ~Taken(w, r)
             /\ \E q \in txValid[v] : SameKey(q, r)
     \/ /\ pc[w] = "record"
        /\ Matching(metadata, ds(w), checksum[w]) = {}
        /\ Matching(txMeta[v], ds(w), checksum[w]) # {}

Waiting(w) == \E v \in Worker : WaitsFor(w, v)
InWaitCycle(w) ==
  \E S \in SUBSET Worker :
    /\ w \in S
    /\ \A v \in S : \E u \in S : WaitsFor(u, v)
    /\ \A v \in S : \E u \in S : WaitsFor(v, u)
-----------------------------------------------------------------------------
(***************************************************************************)
(* The steps of process(), in order.                                       *)
(***************************************************************************)
\* A call starts with a config that no longer validates.
ReturnConfigurationError(w, p) ==
  /\ pc[w] \in {"idle", "done"} /\ calls < MaxCalls
  /\ calls' = calls + 1
  /\ path' = [path EXCEPT ![w] = p]
  /\ checksum' = [checksum EXCEPT ![w] = None]
  /\ Return(w, ResultOf("CONFIGURATION_ERROR", 0, 0))
  /\ UNCHANGED <<disk, tables, src, call, progress, tx, faults, changes>>

\* ... or for a path with no file ...
ReturnFileNotFound(w, p) ==
  /\ pc[w] \in {"idle", "done"} /\ calls < MaxCalls
  /\ disk[p] = None
  /\ calls' = calls + 1
  /\ path' = [path EXCEPT ![w] = p]
  /\ checksum' = [checksum EXCEPT ![w] = None]
  /\ Return(w, ResultOf("FILE_NOT_FOUND", 0, 0))
  /\ UNCHANGED <<disk, tables, src, call, progress, tx, faults, changes>>

\* ... or passes both checks; the three counters start at 0.
Begin(w, p) ==
  /\ pc[w] \in {"idle", "done"} /\ calls < MaxCalls
  /\ disk[p] # None
  /\ calls' = calls + 1
  /\ call' = [call EXCEPT ![w] = calls + 1]
  /\ path' = [path EXCEPT ![w] = p]
  /\ loaded' = [loaded EXCEPT ![w] = 0]
  /\ validCount' = [validCount EXCEPT ![w] = 0]
  /\ invalidCount' = [invalidCount EXCEPT ![w] = 0]
  /\ checksum' = [checksum EXCEPT ![w] = None]
  /\ GoTo(w, "hash")
  /\ UNCHANGED <<disk, tables, src, tx, session, result, faults, changes>>

\* Faulty variant: the digest is left for later.
ConnectUnhashed(w) ==
  /\ pc[w] = "hash"
  /\ GoTo(w, "connect")
  /\ UNCHANGED <<disk, tables, file, progress, tx, session, result, budget>>

\* sha256_file() runs outside the try block: its OSError leaves process().
Sha256File(w) ==
  /\ pc[w] = "hash"
  /\ \/ /\ disk[path[w]] # None
        /\ checksum' = [checksum EXCEPT ![w] = disk[path[w]]]
        /\ GoTo(w, "connect")
        /\ UNCHANGED <<session, result>>
     \/ /\ disk[path[w]] = None
        /\ Return(w, Raised)
        /\ UNCHANGED checksum
  /\ UNCHANGED <<disk, tables, path, src, call, progress, tx, budget>>

GetConnection(w) ==
  /\ pc[w] = "connect"
  /\ session' = [session EXCEPT ![w] = "up"]
  /\ GoTo(w, "lookup")
  /\ UNCHANGED <<disk, tables, file, progress, tx, result, budget>>

\* Oracle is unreachable: there is no connection to roll back.
ConnectFails(w) ==
  /\ pc[w] = "connect" /\ faults < MaxFaults
  /\ faults' = faults + 1
  /\ Return(w, ResultOf("DATABASE_ERROR", 0, 0))
  /\ UNCHANGED <<disk, tables, file, progress, tx, calls, changes>>

FindExisting(w) ==
  LET existing == Matching(metadata, ds(w), checksum[w])
  IN  /\ pc[w] = "lookup" /\ session[w] = "up"
      /\ \/ /\ existing = {}
            /\ GoTo(w, "detect")
            /\ UNCHANGED <<session, result>>
         \/ \E m \in existing : Return(w, Recorded(m))
      /\ UNCHANGED <<disk, tables, file, progress, tx, budget>>

\* Faulty variant: the sample is not checked.
DetectUnchecked(w) ==
  /\ pc[w] = "detect" /\ disk[path[w]] # None
  /\ src' = [src EXCEPT ![w] = ReadingOf(disk[path[w]])]
  /\ GoTo(w, "reopen")
  /\ UNCHANGED <<disk, tables, path, checksum, call, progress, tx, session, result, budget>>

\* prepare_source, pass 1: the sample is read and checked, then closed; what
\* was found in it stays.  A row that cannot be read may already lie in it.
DetectSource(w) ==
  LET sampled == disk[path[w]]
  IN  /\ pc[w] = "detect"
      /\ \/ /\ sampled # None /\ HeaderOk[sampled]
            /\ src' = [src EXCEPT ![w] = ReadingOf(sampled)]
            /\ GoTo(w, "reopen")
         \/ /\ sampled # None /\ ~HeaderOk[sampled]
            /\ GoTo(w, "on_structural")
            /\ UNCHANGED src
         \/ /\ sampled # None => TornAt[ReadingOf(sampled)] # 0
            /\ GoTo(w, "on_exception")
            /\ UNCHANGED src
      /\ UNCHANGED <<disk, tables, path, checksum, call, progress, tx, session, result, budget>>

(***************************************************************************)
(* prepare_source, pass 2: the file is opened again and streamed from one  *)
(* descriptor to its end, by the header position, columns, codec and marks *)
(* that pass 1 found.  Skipping the rows up to that position may run off a *)
(* shorter file that replaced the first, or meet bytes that do not decode. *)
(***************************************************************************)
ReopenSource(w) ==
  LET found == disk[path[w]]
      reading == [src[w] EXCEPT !.read = found]
  IN  /\ pc[w] = "reopen"
      /\ \/ /\ found # None /\ Opens[reading]
            /\ src' = [src EXCEPT ![w] = reading]
            /\ GoTo(w, "fetch")
         \/ /\ found # None => ~Opens[reading]
            /\ GoTo(w, "on_exception")
            /\ UNCHANGED src
      /\ UNCHANGED <<disk, tables, path, checksum, call, progress, tx, session, result, budget>>

(***************************************************************************)
(* process_chunks yields the next chunk, fails while reading it, or ends.  *)
(* A reading failure past the header is no StructuralValidationError.      *)
(***************************************************************************)
NextChunk(w) ==
  /\ pc[w] = "fetch"
  /\ GoTo(w, IF TornAt[src[w]] \in (loaded[w] + 1) .. (loaded[w] + ChunkSize)
             THEN "on_exception"
             ELSE IF loaded[w] >= Len(rows(w)) THEN "record" ELSE "valid")
  /\ UNCHANGED <<disk, tables, file, progress, tx, session, result, budget>>

\* Faulty variant: no trigger looks for the customer of an order.
InsertOrphanRow(w) ==
  /\ pc[w] = "valid" /\ session[w] = "up"
  /\ ~Waiting(w)
  /\ \E r \in ChunkValid(w) :
       /\ IsNext(w, r)
       /\ \/ Taken(w, r) /\ GoTo(w, "on_oracle") /\ UNCHANGED txValid
          \/ /\ ~Taken(w, r)
             /\ txValid' = [txValid EXCEPT ![w] = @ \cup {r}]
             /\ UNCHANGED pc
  /\ UNCHANGED <<disk, tables, file, progress, txInvalid, txMeta, session, result, budget>>

\* One row of executemany() into <dataset>_valid: trigger, then primary key.
InsertValidRow(w) ==
  /\ pc[w] = "valid" /\ session[w] = "up"
  /\ ~Waiting(w)
  /\ \E r \in ChunkValid(w) :
       /\ IsNext(w, r)
       /\ \/ /\ RefMissing(r) \/ Taken(w, r)
             /\ GoTo(w, "on_oracle")
             /\ UNCHANGED txValid
          \/ /\ ~RefMissing(r) /\ ~Taken(w, r)
             /\ txValid' = [txValid EXCEPT ![w] = @ \cup {r}]
             /\ UNCHANGED pc
  /\ UNCHANGED <<disk, tables, file, progress, txInvalid, txMeta, session, result, budget>>

\* The chunk's valid rows are in, or there were none to send.
ValidRowsSent(w) ==
  /\ pc[w] = "valid"
  /\ Unsent(w) = {}
  /\ GoTo(w, "invalid")
  /\ UNCHANGED <<disk, tables, file, progress, tx, session, result, budget>>

\* Faulty variant: every chunk is committed.
InsertAndCommitChunk(w) ==
  /\ pc[w] = "invalid" /\ session[w] = "up"
  /\ validRows' = validRows \cup txValid[w]
  /\ invalidRows' = invalidRows \cup ChunkInvalid(w)
  /\ ClearTx(w)
  /\ validCount' = [validCount EXCEPT ![w] = @ + ChunkValidCount(w)]
  /\ invalidCount' = [invalidCount EXCEPT ![w] = @ + ChunkInvalidCount(w)]
  /\ loaded' = [loaded EXCEPT ![w] = ChunkEnd(w)]
  /\ GoTo(w, "fetch")
  /\ UNCHANGED <<disk, metadata, file, session, result, budget>>

\* Faulty variant: the counters hold the last chunk's counts.
InsertAndCountChunk(w) ==
  /\ pc[w] = "invalid"
  /\ session[w] = "up" \/ ChunkInvalid(w) = {}
  /\ txInvalid' = [txInvalid EXCEPT ![w] = @ \cup ChunkInvalid(w)]
  /\ validCount' = [validCount EXCEPT ![w] = ChunkValidCount(w)]
  /\ invalidCount' = [invalidCount EXCEPT ![w] = ChunkInvalidCount(w)]
  /\ loaded' = [loaded EXCEPT ![w] = ChunkEnd(w)]
  /\ GoTo(w, "fetch")
  /\ UNCHANGED <<disk, tables, file, txValid, txMeta, session, result, budget>>

\* executemany() into <dataset>_invalid, then the three counters.
InsertInvalidRows(w) ==
  /\ pc[w] = "invalid"
  /\ session[w] = "up" \/ ChunkInvalid(w) = {}
  /\ txInvalid' = [txInvalid EXCEPT ![w] = @ \cup ChunkInvalid(w)]
  /\ validCount' = [validCount EXCEPT ![w] = @ + ChunkValidCount(w)]
  /\ invalidCount' = [invalidCount EXCEPT ![w] = @ + ChunkInvalidCount(w)]
  /\ loaded' = [loaded EXCEPT ![w] = ChunkEnd(w)]
  /\ GoTo(w, "fetch")
  /\ UNCHANGED <<disk, tables, file, txValid, txMeta, session, result, budget>>

\* Faulty variant: nothing is UNIQUE in ingestion_metadata.
RecordAgain(w) ==
  /\ pc[w] = "record" /\ session[w] = "up"
  /\ txMeta' = [txMeta EXCEPT ![w] =
       {RecordOf(ds(w), checksum[w], validCount[w], invalidCount[w])}]
  /\ GoTo(w, "commit")
  /\ UNCHANGED <<disk, tables, file, progress, txValid, txInvalid, session, result, budget>>

\* Faulty variant: ORA-00001 of the record is an error like any other.
RecordOrFail(w) ==
  /\ pc[w] = "record" /\ session[w] = "up"
  /\ ~Waiting(w)
  /\ \/ /\ Matching(metadata, ds(w), checksum[w]) = {}
        /\ txMeta' = [txMeta EXCEPT ![w] =
             {RecordOf(ds(w), checksum[w], validCount[w], invalidCount[w])}]
        /\ GoTo(w, "commit")
     \/ /\ Matching(metadata, ds(w), checksum[w]) # {}
        /\ GoTo(w, "on_oracle")
        /\ UNCHANGED txMeta
  /\ UNCHANGED <<disk, tables, file, progress, txValid, txInvalid, session, result, budget>>

\* record_ingestion(); a committed record for the same key is ORA-00001, on
\* which the call rolls back and turns to the winner's record.
RecordIngestion(w) ==
  /\ pc[w] = "record" /\ session[w] = "up"
  /\ ~Waiting(w)
  /\ \/ /\ Matching(metadata, ds(w), checksum[w]) = {}
        /\ txMeta' = [txMeta EXCEPT ![w] =
             {RecordOf(ds(w), checksum[w], validCount[w], invalidCount[w])}]
        /\ GoTo(w, "commit")
        /\ UNCHANGED <<txValid, txInvalid>>
     \/ /\ Matching(metadata, ds(w), checksum[w]) # {}
        /\ ClearTx(w)
        /\ GoTo(w, "reread")
  /\ UNCHANGED <<disk, tables, file, progress, session, result, budget>>

RereadWinner(w) ==
  LET existing == Matching(metadata, ds(w), checksum[w])
  IN  /\ pc[w] = "reread" /\ session[w] = "up"
      /\ \/ /\ existing = {}
            /\ GoTo(w, "on_exception")
            /\ UNCHANGED <<session, result>>
         \/ \E m \in existing : Return(w, Recorded(m))
      /\ UNCHANGED <<disk, tables, file, progress, tx, budget>>

\* The transaction's rows and record become visible at once.
Land(w) ==
  /\ validRows' = validRows \cup txValid[w]
  /\ invalidRows' = invalidRows \cup txInvalid[w]
  /\ metadata' = metadata \cup txMeta[w]
  /\ ClearTx(w)

\* Faulty variant: commit() is forgotten, so closing the session rolls back.
ReturnUncommitted(w) ==
  /\ pc[w] = "commit" /\ session[w] = "up"
  /\ ClearTx(w)
  /\ Return(w, ResultOf(IF invalidCount[w] = 0 THEN "SUCCESS"
                        ELSE "SUCCESS_WITH_INVALID_ROWS",
                        validCount[w], invalidCount[w]))
  /\ UNCHANGED <<disk, tables, file, progress, budget>>

Commit(w) ==
  /\ pc[w] = "commit" /\ session[w] = "up"
  /\ Land(w)
  /\ Return(w, ResultOf(IF invalidCount[w] = 0 THEN "SUCCESS"
                        ELSE "SUCCESS_WITH_INVALID_ROWS",
                        validCount[w], invalidCount[w]))
  /\ UNCHANGED <<disk, file, progress, budget>>
-----------------------------------------------------------------------------
(***************************************************************************)
(* The except blocks.  Each rolls back, and the finally block closes the   *)
(* session.  Only the last rollback is guarded, the close never is: on a   *)
(* lost session either may let the driver's error out of process().        *)
(***************************************************************************)
HandleStructural(w) ==
  /\ pc[w] = "on_structural"
  /\ ClearTx(w)
  /\ \/ Return(w, ResultOf("INVALID_FILE", 0, 0))
     \/ session[w] = "lost" /\ Return(w, Raised)
  /\ UNCHANGED <<disk, tables, file, progress, budget>>

\* Faulty variant: the rows already inserted are kept.
KeepAfterOracleError(w) ==
  /\ pc[w] = "on_oracle"
  /\ Land(w)
  /\ Return(w, ResultOf("DATABASE_ERROR", validCount[w], invalidCount[w]))
  /\ UNCHANGED <<disk, file, progress, budget>>

\* Faulty variant: the load is tried again from the start.
RetryAfterOracleError(w) ==
  /\ pc[w] = "on_oracle"
  /\ ClearTx(w)
  /\ GoTo(w, "connect")
  /\ loaded' = [loaded EXCEPT ![w] = 0]
  /\ validCount' = [validCount EXCEPT ![w] = 0]
  /\ invalidCount' = [invalidCount EXCEPT ![w] = 0]
  /\ UNCHANGED <<disk, tables, file, session, result, budget>>

HandleOracle(w) ==
  /\ pc[w] = "on_oracle"
  /\ ClearTx(w)
  /\ \/ Return(w, ResultOf("DATABASE_ERROR", validCount[w], invalidCount[w]))
     \/ session[w] = "lost" /\ Return(w, Raised)
  /\ UNCHANGED <<disk, tables, file, progress, budget>>

\* Faulty variant: the rows read before the failure are kept.
KeepAfterException(w) ==
  /\ pc[w] = "on_exception"
  /\ Land(w)
  /\ Return(w, ResultOf("PROCESSING_ERROR", validCount[w], invalidCount[w]))
  /\ UNCHANGED <<disk, file, progress, budget>>

HandleException(w) ==
  /\ pc[w] = "on_exception"
  /\ ClearTx(w)
  /\ \/ Return(w, ResultOf("PROCESSING_ERROR", validCount[w], invalidCount[w]))
     \/ session[w] = "lost" /\ Return(w, Raised)
  /\ UNCHANGED <<disk, tables, file, progress, budget>>
-----------------------------------------------------------------------------
(***************************************************************************)
(* Oracle and the world around the calls.                                  *)
(***************************************************************************)
\* The next step of the call is one that talks to Oracle.
AtDatabaseCall(w) ==
  \/ pc[w] \in {"lookup", "record", "reread", "commit"}
  \/ pc[w] = "valid" /\ Unsent(w) # {}
  \/ pc[w] = "invalid" /\ ChunkInvalid(w) # {}

\* ORA-00060: Oracle fails the statement of one transaction of a wait cycle.
DeadlockVictim(w) ==
  /\ InWaitCycle(w)
  /\ GoTo(w, "on_oracle")
  /\ UNCHANGED <<disk, tables, file, progress, tx, session, result, budget>>

\* The statement fails for a reason of its own (a value wider than its column,
\* no space left): the session goes on.
StatementFails(w) ==
  /\ AtDatabaseCall(w) /\ session[w] = "up" /\ faults < MaxFaults
  /\ faults' = faults + 1
  /\ GoTo(w, "on_oracle")
  /\ UNCHANGED <<disk, tables, file, progress, tx, session, result, calls, changes>>

\* The session is lost, and Oracle rolls its transaction back.
LoseSession(w) ==
  /\ session[w] = "up" /\ faults < MaxFaults
  /\ faults' = faults + 1
  /\ session' = [session EXCEPT ![w] = "lost"]
  /\ ClearTx(w)
  /\ UNCHANGED <<disk, tables, pc, file, progress, result, calls, changes>>

\* The commit lands but its answer is lost with the session.
CommitAnswerLost(w) ==
  /\ pc[w] = "commit" /\ session[w] = "up" /\ faults < MaxFaults
  /\ faults' = faults + 1
  /\ session' = [session EXCEPT ![w] = "lost"]
  /\ Land(w)
  /\ GoTo(w, "on_oracle")
  /\ UNCHANGED <<disk, file, progress, result, calls, changes>>

\* A database call on a lost session raises oracledb.Error.
CallOnLostSession(w) ==
  /\ session[w] = "lost" /\ AtDatabaseCall(w)
  /\ GoTo(w, "on_oracle")
  /\ UNCHANGED <<disk, tables, file, progress, tx, session, result, budget>>

\* The calling process is killed; its task may be tried again.
Kill(w) ==
  /\ pc[w] \in Working \cup Handling /\ faults < MaxFaults
  /\ faults' = faults + 1
  /\ GoTo(w, "idle")
  /\ session' = [session EXCEPT ![w] = "none"]
  /\ ClearTx(w)
  /\ UNCHANGED <<disk, tables, file, progress, result, calls, changes>>

\* The generator renames another file over the path, or retention removes it.
ChangeFile(p) ==
  /\ changes < MaxChanges
  /\ changes' = changes + 1
  /\ \E c \in (Appears[p] \cup {None}) \ {disk[p]} : disk' = [disk EXCEPT ![p] = c]
  /\ UNCHANGED <<tables, pc, file, progress, tx, session, result, calls, faults>>
-----------------------------------------------------------------------------
\* Steps the running call takes of itself, and Oracle's answers to it.
Step(w) ==
  \/ Sha256File(w) \/ GetConnection(w) \/ FindExisting(w)
  \/ DetectSource(w) \/ ReopenSource(w) \/ NextChunk(w)
  \/ InsertValidRow(w) \/ ValidRowsSent(w) \/ InsertInvalidRows(w)
  \/ RecordIngestion(w) \/ RereadWinner(w) \/ Commit(w)
  \/ HandleStructural(w) \/ HandleOracle(w) \/ HandleException(w)
  \/ CallOnLostSession(w) \/ DeadlockVictim(w)

Call(w) ==
  \E p \in Path : ReturnConfigurationError(w, p) \/ ReturnFileNotFound(w, p) \/ Begin(w, p)

Fault(w) ==
  \/ ConnectFails(w) \/ StatementFails(w) \/ LoseSession(w)
  \/ CommitAnswerLost(w) \/ Kill(w)

Next ==
  \/ \E w \in Worker : Step(w) \/ Call(w) \/ Fault(w)
  \/ \E p \in Path : ChangeFile(p)

Spec == Init /\ [][Next]_vars

(***************************************************************************)
(* A started call goes on by itself, and Oracle answers its statements and *)
(* breaks wait cycles.  Nothing makes calls, faults or file changes happen.*)
(***************************************************************************)
FairSpec == Spec /\ \A w \in Worker : WF_vars(Step(w))
-----------------------------------------------------------------------------
(***************************************************************************)
(* Properties.                                                             *)
(***************************************************************************)
RowsUnder(T, d, s) == {r \in T : r.dataset = d /\ r.checksum = s}

\* A file is in Oracle whole or not at all: whatever failed, raced or was
\* killed, the rows under a recorded checksum are all the rows of one reading,
\* to the end of the file, as one call inserted them, and no table holds a row
\* without its record (a call is one transaction).  While files stay, that
\* reading is the one of the content with this checksum: the file itself.  Of
\* a file replaced under the call a reading may leave lines out (README, 4).
FilesAreWhole ==
  /\ \A m \in metadata : \E r \in Reading, k \in 1 .. MaxCalls :
       LET d == m.dataset
           s == m.checksum
       IN  /\ RowsUnder(validRows, d, s) = ValidRowsOf(d, s, k, r, 0, Len(Rows[r]))
           /\ RowsUnder(invalidRows, d, s) = InvalidRowsOf(d, s, k, r, 0, Len(Rows[r]))
           /\ changes = 0 => r = ReadingOf(s)
  /\ \A r \in validRows \cup invalidRows : Matching(metadata, r.dataset, r.checksum) # {}

\* The counts and the status of a record are those of the rows in the tables,
\* over all the chunks they were loaded in.
CountsMatchTables ==
  \A m \in metadata :
    m = RecordOf(m.dataset, m.checksum,
                 Cardinality(RowsUnder(validRows, m.dataset, m.checksum)),
                 Cardinality(RowsUnder(invalidRows, m.dataset, m.checksum)))

\* No row is in a table twice, under whatever checksums and names it was loaded
\* ("never duplicates data in either _valid or _invalid").  Of the valid rows,
\* no two with one key are committed, whichever readings they come from.  The
\* tables of invalid rows have no key: nothing but the record of the file
\* keeps a row of it from being loaded again, so files must stay as digested.
NoDuplicateRows ==
  /\ \A r, q \in validRows : SameKey(r, q) => r = q
  /\ changes = 0 =>
       \A r, q \in invalidRows :
         r.dataset = q.dataset /\ r.src = q.src /\ r.n = q.n => r = q

\* Every order in orders_valid has its customer in customers_valid, however
\* the two ingestions interleave.
OrdersHaveCustomers ==
  \A r \in validRows : ~RefMissing(r)

\* What a caller is told was loaded is in Oracle, with those counts: also for
\* a call that found an earlier record or lost the race to a concurrent one.
ReportsAreDurable ==
  \A w \in Worker : pc[w] = "done" /\ result[w].status \in Loaded =>
    \E m \in metadata : m.dataset = ds(w) /\ Recorded(m) = result[w]

\* Once a file is recorded, no step of any call changes its record or adds or
\* takes away a row of it.
RecordedFilesAreFinal ==
  [][\A m \in metadata :
       /\ m \in metadata'
       /\ \A T \in {<<validRows, validRows'>>, <<invalidRows, invalidRows'>>} :
            RowsUnder(T[2], m.dataset, m.checksum) = RowsUnder(T[1], m.dataset, m.checksum)]_vars

\* Every started call ends, also when its insert waits for another call's
\* transaction, when two calls wait for each other and when it is killed.
CallsEnd == \A w \in Worker : pc[w] \notin {"idle", "done"} ~> pc[w] \in {"idle", "done"}

\* The engine implements the ledger, where a file is loaded in one step with
\* all the rows of one reading.
Ledger == INSTANCE IngestionLedger
  WITH validRows <- validRows, invalidRows <- invalidRows, metadata <- metadata
ImplementsLedger == Ledger!Spec
\* ... and under its own checksum, while files are not changed under a call.
ImplementsExactLedger == Ledger!SpecExact

\* Two concurrent calls for one file: the one that does not commit returns the
\* recorded result of the other (docs/oracle.md:136-141), where nothing but
\* UNIQUE(dataset, checksum) stands between them: the file has no valid row
\* whose primary key would fail the loser first, reads without an error and
\* stays as it is, and no session is lost or statement fails.
Plain(c) ==
  LET r == ReadingOf(c)
  IN  TornAt[r] = 0 /\ \A n \in 1 .. Len(Rows[r]) : ~Rows[r][n].valid
LoserReturnsWinner ==
  faults = 0 /\ changes = 0 =>
    \A w \in Worker : pc[w] = "done" /\ checksum[w] # None /\ Plain(checksum[w]) =>
      \A m \in Matching(metadata, ds(w), checksum[w]) : result[w] = Recorded(m)
=============================================================================
