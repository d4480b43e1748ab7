------------------------- MODULE EngineProcessProofs -------------------------
(***************************************************************************)
(* What TLAPS proves of EngineProcess, for every number of processes,      *)
(* files, contents and rows, every chunk size and every bound.             *)
(***************************************************************************)
EXTENDS EngineProcess, FiniteSetTheorems, TLAPS

(***************************************************************************)
(* Lemmas about the rows of a reading.                                     *)
(***************************************************************************)

\* Counting the valid (invalid) rows of a range gives a natural number.
LEMMA IndicesFinite ==
  ASSUME NEW r \in Reading, NEW i \in Nat, NEW j \in Nat
  PROVE  /\ IsFiniteSet(ValidIndices(r, i, j))
         /\ IsFiniteSet(InvalidIndices(r, i, j))
         /\ Cardinality(ValidIndices(r, i, j)) \in Nat
         /\ Cardinality(InvalidIndices(r, i, j)) \in Nat
<1>1. IsFiniteSet((i + 1) .. j)
  BY FS_Interval
<1>2. /\ ValidIndices(r, i, j) \in SUBSET ((i + 1) .. j)
      /\ InvalidIndices(r, i, j) \in SUBSET ((i + 1) .. j)
  BY DEF ValidIndices, InvalidIndices
<1>3. /\ IsFiniteSet(ValidIndices(r, i, j))
      /\ IsFiniteSet(InvalidIndices(r, i, j))
  BY <1>1, <1>2, FS_Subset
<1> QED
  BY <1>3, FS_CardinalityType

\* What is loaded from a reading is a set of table rows.
LEMMA RowsAreTableRows ==
  ASSUME NEW d \in Dataset, NEW s \in Content, NEW k \in 0 .. MaxCalls, NEW r \in Reading,
         NEW i \in Nat, NEW j \in Nat
  PROVE  /\ ValidRowsOf(d, s, k, r, i, j) \subseteq TableRow
         /\ InvalidRowsOf(d, s, k, r, i, j) \subseteq TableRow
<1>1. /\ ValidIndices(r, i, j) \subseteq Nat \ {0}
      /\ InvalidIndices(r, i, j) \subseteq Nat \ {0}
  BY DEF ValidIndices, InvalidIndices
<1> QED
  BY <1>1 DEF ValidRowsOf, InvalidRowsOf, TableRowsAt, TableRow

\* Readings have finitely many rows.
LEMMA LengthIsNat ==
  ASSUME NEW r \in Reading
  PROVE  Len(Rows[r]) \in Nat
BY RowsAssumption

\* The end of the chunk a call works on.
LEMMA ChunkEndIsNat ==
  ASSUME TypeOK, NEW w \in Worker
  PROVE  /\ ChunkEnd(w) \in Nat
         /\ ChunkEnd(w) <= Len(rows(w))
         /\ loaded[w] <= Len(rows(w)) => loaded[w] <= ChunkEnd(w)
<1>1. loaded[w] \in Nat /\ src[w] \in Reading
  BY DEF TypeOK
<1>2. Len(rows(w)) \in Nat
  BY <1>1, LengthIsNat DEF rows
<1> QED
  BY <1>1, <1>2, EngineAssumption DEF ChunkEnd, Min2

-----------------------------------------------------------------------------
(***************************************************************************)
(* Type correctness.                                                       *)
(***************************************************************************)

\* The types hold initially.
LEMMA TypeInit == Init => TypeOK
<1>1. Reading # {}
  <2>1. PICK c \in Content : TRUE
    BY EngineAssumption
  <2>2. [sample |-> c, read |-> c] \in Reading
    BY DEF Reading
  <2> QED
    BY <2>2
<1>2. (CHOOSE r \in Reading : TRUE) \in Reading
  BY <1>1
<1> HIDE DEF Reading
<1> QED
  BY <1>2, EngineAssumption, CallsAssumption
     DEF Init, TypeOK, Location, Outcome, Raised, ResultOf

\* What process() can return.
LEMMA ReturnedOutcomes ==
  /\ Raised \in Outcome
  /\ \A s \in Status, v \in Nat, i \in Nat : ResultOf(s, v, i) \in Outcome
  /\ \A m \in Record : Recorded(m) \in Outcome
<1>1. Loaded \subseteq Status
  BY DEF Loaded, Status
<1> QED
  BY <1>1 DEF Raised, ResultOf, Outcome, Recorded, Record

\* The steps that only move a call and its reading of the file.
LEMMA TypeLocal ==
  ASSUME TypeOK, NEW w \in Worker,
         Sha256File(w) \/ GetConnection(w) \/ DetectSource(w) \/ ReopenSource(w)
           \/ NextChunk(w) \/ ValidRowsSent(w) \/ CallOnLostSession(w)
           \/ DeadlockVictim(w) \/ StatementFails(w) \/ ConnectFails(w)
  PROVE  TypeOK'
<1> USE EngineAssumption, CallsAssumption DEF TypeOK, tables, file, progress, tx, budget, GoTo, Location, Working, Handling
<1>1. CASE Sha256File(w)
  BY <1>1, ReturnedOutcomes DEF Sha256File, Return
<1>2. CASE GetConnection(w)
  BY <1>2 DEF GetConnection
<1>3. CASE DetectSource(w)
  <2>1. \A c \in Content : ReadingOf(c) \in Reading
    BY DEF Reading, ReadingOf
  <2>2. /\ src' \in [Worker -> Reading]
        /\ pc' \in [Worker -> Location]
    BY <1>3, <2>1 DEF DetectSource
  <2>3. \A v \in Worker : pc'[v] \notin {"idle", "done", "hash"} => checksum'[v] # None
    BY <1>3 DEF DetectSource
  <2>4. \A v \in Worker : pc'[v] \notin {"idle", "done"} => call'[v] # 0
    BY <1>3 DEF DetectSource
  <2>5. UNCHANGED <<disk, tables, path, checksum, call, progress, tx, session, result, budget>>
    BY <1>3 DEF DetectSource
  <2> QED
    BY <2>2, <2>3, <2>4, <2>5
<1>4. CASE ReopenSource(w)
  <2>1. disk[path[w]] # None => [src[w] EXCEPT !.read = disk[path[w]]] \in Reading
    <3>1. ASSUME NEW r \in Reading, NEW c \in Content
          PROVE  [r EXCEPT !.read = c] \in Reading
      BY DEF Reading
    <3> QED
      BY <3>1
  <2> DEFINE reading == [src[w] EXCEPT !.read = disk[path[w]]]
  <2>2. /\ src' \in [Worker -> Reading]
        /\ pc' \in [Worker -> Location]
    <3>1. CASE disk[path[w]] # None /\ src' = [src EXCEPT ![w] = reading] /\ GoTo(w, "fetch")
      <4>1. reading \in Reading
        BY <2>1, <3>1
      <4> HIDE DEF reading
      <4> QED
        BY <3>1, <4>1
    <3>2. CASE src' = src /\ GoTo(w, "on_exception")
      BY <3>2
    <3> QED
      BY <1>4, <3>1, <3>2 DEF ReopenSource
  <2>3. \A v \in Worker : pc'[v] \notin {"idle", "done", "hash"} => checksum'[v] # None
    BY <1>4 DEF ReopenSource
  <2>4. \A v \in Worker : pc'[v] \notin {"idle", "done"} => call'[v] # 0
    BY <1>4 DEF ReopenSource
  <2>5. UNCHANGED <<disk, tables, path, checksum, call, progress, tx, session, result, budget>>
    BY <1>4 DEF ReopenSource
  <2> QED
    BY <2>2, <2>3, <2>4, <2>5
<1>5. CASE NextChunk(w)
  BY <1>5 DEF NextChunk
<1>6. CASE ValidRowsSent(w)
  BY <1>6 DEF ValidRowsSent
<1>7. CASE CallOnLostSession(w)
  BY <1>7 DEF CallOnLostSession, AtDatabaseCall
<1>8. CASE DeadlockVictim(w)
  <2>1. PICK S \in SUBSET Worker : w \in S /\ \A v \in S : \E u \in S : WaitsFor(v, u)
    BY <1>8 DEF DeadlockVictim, InWaitCycle
  <2>2. pc[w] \in {"valid", "record"}
    BY <2>1 DEF WaitsFor
  <2> QED
    BY <1>8, <2>2 DEF DeadlockVictim
<1>9. CASE StatementFails(w)
  BY <1>9 DEF StatementFails, AtDatabaseCall
<1>10. CASE ConnectFails(w)
  <2>1. ResultOf("DATABASE_ERROR", 0, 0) \in Outcome
    BY ReturnedOutcomes DEF Status
  <2> QED
    BY <1>10, <2>1 DEF ConnectFails, Return
<1> QED
  BY <1>1, <1>2, <1>3, <1>4, <1>5, <1>6, <1>7, <1>8, <1>9, <1>10

\* The steps that begin or end a call.
LEMMA TypeCall ==
  ASSUME TypeOK, NEW w \in Worker,
         (\E p \in Path : ReturnConfigurationError(w, p) \/ ReturnFileNotFound(w, p)
                            \/ Begin(w, p))
           \/ FindExisting(w) \/ RereadWinner(w) \/ HandleStructural(w)
           \/ HandleOracle(w) \/ HandleException(w) \/ Kill(w) \/ LoseSession(w)
  PROVE  TypeOK'
<1> USE EngineAssumption, CallsAssumption DEF TypeOK, tables, file, progress, tx, budget, GoTo, ClearTx,
        Return, Location, Working, Handling
<1>0. \A st \in {"CONFIGURATION_ERROR", "FILE_NOT_FOUND", "INVALID_FILE", "DATABASE_ERROR",
                "PROCESSING_ERROR"} :
        ResultOf(st, 0, 0) \in Outcome /\ ResultOf(st, validCount[w], invalidCount[w]) \in Outcome
  BY ReturnedOutcomes DEF Status
<1>1. ASSUME NEW p \in Path, ReturnConfigurationError(w, p)
      PROVE  TypeOK'
  BY <1>0, <1>1 DEF ReturnConfigurationError
<1>2. ASSUME NEW p \in Path, ReturnFileNotFound(w, p)
      PROVE  TypeOK'
  BY <1>0, <1>2 DEF ReturnFileNotFound
<1>3. ASSUME NEW p \in Path, Begin(w, p)
      PROVE  TypeOK'
  BY <1>3 DEF Begin
<1>5. CASE FindExisting(w)
  <2>1. CASE \E r \in Outcome : Return(w, r)
    BY <1>5, <2>1 DEF FindExisting
  <2>2. CASE GoTo(w, "detect") /\ UNCHANGED <<session, result>>
    BY <1>5, <2>2 DEF FindExisting
  <2> QED
    BY <1>5, <2>1, <2>2, ReturnedOutcomes DEF FindExisting, Matching
<1>6. CASE RereadWinner(w)
  <2>1. CASE \E r \in Outcome : Return(w, r)
    BY <1>6, <2>1 DEF RereadWinner
  <2>2. CASE GoTo(w, "on_exception") /\ UNCHANGED <<session, result>>
    BY <1>6, <2>2 DEF RereadWinner
  <2> QED
    BY <1>6, <2>1, <2>2, ReturnedOutcomes DEF RereadWinner, Matching
<1>7. CASE HandleStructural(w)
  <2>1. PICK r \in Outcome : Return(w, r)
    BY <1>0, <1>7, ReturnedOutcomes DEF HandleStructural
  <2> QED
    BY <1>7, <2>1 DEF HandleStructural
<1>8. CASE HandleOracle(w)
  <2>1. PICK r \in Outcome : Return(w, r)
    BY <1>0, <1>8, ReturnedOutcomes DEF HandleOracle
  <2> QED
    BY <1>8, <2>1 DEF HandleOracle
<1>9. CASE HandleException(w)
  <2>1. PICK r \in Outcome : Return(w, r)
    BY <1>0, <1>9, ReturnedOutcomes DEF HandleException
  <2> QED
    BY <1>9, <2>1 DEF HandleException
<1>10. CASE Kill(w)
  BY <1>10 DEF Kill
<1>11. CASE LoseSession(w)
  BY <1>11 DEF LoseSession
<1> QED
  BY <1>1, <1>2, <1>3, <1>5, <1>6, <1>7, <1>8, <1>9, <1>10, <1>11

\* The steps that write: into a transaction, or from it into the tables.
LEMMA TypeWrite ==
  ASSUME TypeOK, NEW w \in Worker,
         InsertValidRow(w) \/ InsertInvalidRows(w) \/ RecordIngestion(w)
           \/ Commit(w) \/ CommitAnswerLost(w)
  PROVE  TypeOK'
<1> USE EngineAssumption, CallsAssumption DEF TypeOK, tables, file, progress, tx, budget, GoTo, ClearTx,
        Location, Working, Handling
<1>1. ds(w) \in Dataset /\ src[w] \in Reading /\ loaded[w] \in Nat
  BY DEF ds
<1>2. ChunkEnd(w) \in Nat
  BY ChunkEndIsNat
<1>3. CASE InsertValidRow(w)
  <2>1. checksum[w] \in Content
    BY <1>3 DEF InsertValidRow
  <2>2. ChunkValid(w) \subseteq TableRow
    BY <1>1, <1>2, <2>1, RowsAreTableRows DEF ChunkValid
  <2> QED
    BY <1>3, <2>2 DEF InsertValidRow
<1>4. CASE InsertInvalidRows(w)
  <2>1. checksum[w] \in Content
    BY <1>4 DEF InsertInvalidRows
  <2>2. ChunkInvalid(w) \subseteq TableRow
    BY <1>1, <1>2, <2>1, RowsAreTableRows DEF ChunkInvalid
  <2>3. ChunkValidCount(w) \in Nat /\ ChunkInvalidCount(w) \in Nat
    BY <1>1, <1>2, IndicesFinite DEF ChunkValidCount, ChunkInvalidCount
  <2> HIDE DEF ChunkEnd
  <2> QED
    BY <1>2, <1>4, <2>2, <2>3 DEF InsertInvalidRows
<1>5. CASE RecordIngestion(w)
  <2>1. checksum[w] \in Content
    BY <1>5 DEF RecordIngestion
  <2>2. RecordOf(ds(w), checksum[w], validCount[w], invalidCount[w]) \in Record
    BY <1>1, <2>1 DEF RecordOf, Record, Loaded
  <2>3. /\ txMeta' \in [Worker -> SUBSET Record]
        /\ txValid' \in [Worker -> SUBSET TableRow]
        /\ txInvalid' \in [Worker -> SUBSET TableRow]
    <3>1. \/ /\ txMeta' = [txMeta EXCEPT ![w] =
                          {RecordOf(ds(w), checksum[w], validCount[w], invalidCount[w])}]
             /\ txValid' = txValid /\ txInvalid' = txInvalid
          \/ ClearTx(w)
          \/ UNCHANGED tx
      BY <1>5 DEF RecordIngestion
    <3> QED
      BY <2>2, <3>1
  <2>4. pc' \in [Worker -> Location]
    BY <1>5 DEF RecordIngestion
  <2>5. \A v \in Worker : pc'[v] \notin {"idle", "done", "hash"} => checksum'[v] # None
    BY <1>5, <2>1 DEF RecordIngestion
  <2>6. \A v \in Worker : pc'[v] \notin {"idle", "done"} => call'[v] # 0
    BY <1>5 DEF RecordIngestion
  <2>7. UNCHANGED <<disk, tables, file, progress, session, result, budget>>
    BY <1>5 DEF RecordIngestion
  <2> QED
    BY <2>3, <2>4, <2>5, <2>6, <2>7
<1>6. CASE Commit(w)
  <2>1. \A st \in Status : ResultOf(st, validCount[w], invalidCount[w]) \in Outcome
    BY ReturnedOutcomes
  <2> QED
    BY <1>6, <2>1 DEF Commit, Land, Return, Status
<1>7. CASE CommitAnswerLost(w)
  BY <1>7 DEF CommitAnswerLost, Land
<1> QED
  BY <1>3, <1>4, <1>5, <1>6, <1>7

\* Every step keeps the types.
LEMMA TypeStep == TypeOK /\ [Next]_vars => TypeOK'
<1> SUFFICES ASSUME TypeOK, [Next]_vars PROVE TypeOK'
  OBVIOUS
<1>1. ASSUME NEW w \in Worker, Step(w) \/ Call(w) \/ Fault(w)
      PROVE  TypeOK'
  BY <1>1, TypeLocal, TypeCall, TypeWrite DEF Step, Call, Fault
<1>2. ASSUME NEW p \in Path, ChangeFile(p)
      PROVE  TypeOK'
  <2>1. Appears[p] \subseteq Content
    BY EngineAssumption
  <2> QED
    BY <1>2, <2>1 DEF ChangeFile, TypeOK, tables, file, progress, tx
<1>3. CASE UNCHANGED vars
  BY <1>3 DEF vars, TypeOK, tables, file, progress, tx, budget
<1> QED
  BY <1>1, <1>2, <1>3 DEF Next

\* Every variable keeps its type, and a call past its checksum step has one.
THEOREM TypeCorrect == Spec => []TypeOK
BY TypeInit, TypeStep, PTL DEF Spec
=============================================================================
