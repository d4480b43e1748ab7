----------------------- MODULE EngineInvariantProofs -----------------------
(***************************************************************************)
(* That IInv of EngineInvariant is inductive, for every number of          *)
(* processes, files, contents and rows, every chunk size and every bound.  *)
(***************************************************************************)
EXTENDS EngineInvariant, EngineProcessProofs

\* Nothing of call w changes in this step, and nothing committed goes away.
Same(w) ==
  /\ pc'[w] = pc[w] /\ path'[w] = path[w] /\ checksum'[w] = checksum[w]
  /\ src'[w] = src[w] /\ call'[w] = call[w] /\ loaded'[w] = loaded[w]
  /\ validCount'[w] = validCount[w] /\ invalidCount'[w] = invalidCount[w]
  /\ txValid'[w] = txValid[w] /\ txInvalid'[w] = txInvalid[w] /\ txMeta'[w] = txMeta[w]
  /\ session'[w] = session[w] /\ result'[w] = result[w]
OthersSame(w) == \A v \in Worker \ {w} : Same(v)

\* A step that moves call w from place to place of its streaming or ends it
\* keeps what the call is about.
SameFileRead(w) ==
  /\ path'[w] = path[w] /\ checksum'[w] = checksum[w]
  /\ src'[w] = src[w] /\ call'[w] = call[w]
SameProgress(w) ==
  /\ loaded'[w] = loaded[w]
  /\ validCount'[w] = validCount[w] /\ invalidCount'[w] = invalidCount[w]
SameTx(w) ==
  txValid'[w] = txValid[w] /\ txInvalid'[w] = txInvalid[w] /\ txMeta'[w] = txMeta[w]

-----------------------------------------------------------------------------
(***************************************************************************)
(* The rows of a reading, split where a chunk ends.                        *)
(***************************************************************************)

\* The indices of a row range split at any row inside it.
LEMMA IndicesSplit ==
  ASSUME NEW c \in Reading, NEW i \in Nat, NEW j \in Nat, i <= j
  PROVE  /\ ValidIndices(c, 0, j) = ValidIndices(c, 0, i) \cup ValidIndices(c, i, j)
         /\ ValidIndices(c, 0, i) \cap ValidIndices(c, i, j) = {}
         /\ InvalidIndices(c, 0, j) = InvalidIndices(c, 0, i) \cup InvalidIndices(c, i, j)
         /\ InvalidIndices(c, 0, i) \cap InvalidIndices(c, i, j) = {}
<1>1. /\ 1 .. j = (1 .. i) \cup ((i + 1) .. j)
      /\ (1 .. i) \cap ((i + 1) .. j) = {}
  OBVIOUS
<1>2. 0 + 1 = 1
  OBVIOUS
<1> QED
  BY <1>1, <1>2 DEF ValidIndices, InvalidIndices

\* The table rows of a range split likewise.
LEMMA RowsSplit ==
  ASSUME NEW d, NEW s, NEW k, NEW c \in Reading, NEW i \in Nat, NEW j \in Nat, i <= j
  PROVE  /\ ValidRowsOf(d, s, k, c, 0, j)
              = ValidRowsOf(d, s, k, c, 0, i) \cup ValidRowsOf(d, s, k, c, i, j)
         /\ InvalidRowsOf(d, s, k, c, 0, j)
              = InvalidRowsOf(d, s, k, c, 0, i) \cup InvalidRowsOf(d, s, k, c, i, j)
BY IndicesSplit DEF ValidRowsOf, InvalidRowsOf, TableRowsAt

\* And so do their numbers.
LEMMA CountsSplit ==
  ASSUME NEW c \in Reading, NEW i \in Nat, NEW j \in Nat, i <= j
  PROVE  /\ Cardinality(ValidIndices(c, 0, j))
              = Cardinality(ValidIndices(c, 0, i)) + Cardinality(ValidIndices(c, i, j))
         /\ Cardinality(InvalidIndices(c, 0, j))
              = Cardinality(InvalidIndices(c, 0, i)) + Cardinality(InvalidIndices(c, i, j))
<1>1. /\ IsFiniteSet(ValidIndices(c, 0, i)) /\ IsFiniteSet(ValidIndices(c, i, j))
      /\ IsFiniteSet(InvalidIndices(c, 0, i)) /\ IsFiniteSet(InvalidIndices(c, i, j))
      /\ Cardinality(ValidIndices(c, 0, i)) \in Nat /\ Cardinality(ValidIndices(c, i, j)) \in Nat
      /\ Cardinality(InvalidIndices(c, 0, i)) \in Nat
      /\ Cardinality(InvalidIndices(c, i, j)) \in Nat
  BY IndicesFinite
<1>2. Cardinality({}) = 0
  BY FS_EmptySet
<1>3. Cardinality(ValidIndices(c, 0, i) \cup ValidIndices(c, i, j))
        = Cardinality(ValidIndices(c, 0, i)) + Cardinality(ValidIndices(c, i, j)) - 0
  BY <1>1, <1>2, FS_Union, IndicesSplit
<1>4. Cardinality(InvalidIndices(c, 0, i) \cup InvalidIndices(c, i, j))
        = Cardinality(InvalidIndices(c, 0, i)) + Cardinality(InvalidIndices(c, i, j)) - 0
  BY <1>1, <1>2, FS_Union, IndicesSplit
<1>5. /\ ValidIndices(c, 0, j) = ValidIndices(c, 0, i) \cup ValidIndices(c, i, j)
      /\ InvalidIndices(c, 0, j) = InvalidIndices(c, 0, i) \cup InvalidIndices(c, i, j)
  BY IndicesSplit
<1>6. /\ Cardinality(ValidIndices(c, 0, j))
           = Cardinality(ValidIndices(c, 0, i) \cup ValidIndices(c, i, j))
      /\ Cardinality(InvalidIndices(c, 0, j))
           = Cardinality(InvalidIndices(c, 0, i) \cup InvalidIndices(c, i, j))
  BY <1>5, Zenon
<1>7. \A m, n \in Nat : m + n - 0 = m + n
  OBVIOUS
<1> QED
  BY <1>1, <1>3, <1>4, <1>6, <1>7, Zenon

\* Nothing of a reading lies before its first row.
LEMMA NoRowsYet ==
  ASSUME NEW c \in Reading
  PROVE  ValidIndices(c, 0, 0) = {} /\ InvalidIndices(c, 0, 0) = {}
BY DEF ValidIndices, InvalidIndices

-----------------------------------------------------------------------------
(***************************************************************************)
(* What a step leaves alone.                                               *)
(***************************************************************************)

\* A step of one call changes nothing of the others.
LEMMA StepOfOne ==
  ASSUME TypeOK, NEW w \in Worker, Step(w) \/ Call(w) \/ Fault(w)
  PROVE  OthersSame(w)
<1> USE DEF TypeOK, OthersSame, Same, tables, file, progress, tx, budget, GoTo, ClearTx
<1>1. ASSUME NEW p \in Path,
             ReturnConfigurationError(w, p) \/ ReturnFileNotFound(w, p)
      PROVE  OthersSame(w)
  BY <1>1 DEF ReturnConfigurationError, ReturnFileNotFound, Return
<1>2. ASSUME NEW p \in Path, Begin(w, p)
      PROVE  OthersSame(w)
  BY <1>2 DEF Begin
<1>3. CASE Sha256File(w)
  BY <1>3 DEF Sha256File, Return
<1>4. CASE GetConnection(w)
  BY <1>4 DEF GetConnection
<1>5. CASE FindExisting(w)
  BY <1>5 DEF FindExisting, Return
<1>6. CASE DetectSource(w)
  BY <1>6 DEF DetectSource
<1>7. CASE ReopenSource(w)
  BY <1>7 DEF ReopenSource
<1>8. CASE NextChunk(w)
  BY <1>8 DEF NextChunk
<1>9. CASE InsertValidRow(w)
  BY <1>9 DEF InsertValidRow
<1>10. CASE ValidRowsSent(w)
  BY <1>10 DEF ValidRowsSent
<1>11. CASE InsertInvalidRows(w)
  BY <1>11 DEF InsertInvalidRows
<1>12. CASE RecordIngestion(w)
  BY <1>12 DEF RecordIngestion
<1>13. CASE RereadWinner(w)
  BY <1>13 DEF RereadWinner, Return
<1>14. CASE Commit(w)
  BY <1>14 DEF Commit, Land, Return
<1>15. CASE HandleStructural(w) \/ HandleOracle(w) \/ HandleException(w)
  BY <1>15 DEF HandleStructural, HandleOracle, HandleException, Return
<1>16. CASE CallOnLostSession(w) \/ DeadlockVictim(w) \/ StatementFails(w)
  BY <1>16 DEF CallOnLostSession, DeadlockVictim, StatementFails
<1>17. CASE ConnectFails(w)
  BY <1>17 DEF ConnectFails, Return
<1>18. CASE LoseSession(w)
  BY <1>18 DEF LoseSession
<1>19. CASE CommitAnswerLost(w)
  BY <1>19 DEF CommitAnswerLost, Land
<1>20. CASE Kill(w)
  BY <1>20 DEF Kill
<1> QED
  BY <1>1, <1>2, <1>3, <1>4, <1>5, <1>6, <1>7, <1>8, <1>9, <1>10, <1>11, <1>12, <1>13,
     <1>14, <1>15, <1>16, <1>17, <1>18, <1>19, <1>20 DEF Step, Call, Fault

\* Committed rows and records stay.
LEMMA TablesGrow ==
  ASSUME TypeOK, [Next]_vars
  PROVE  validRows \subseteq validRows' /\ metadata \subseteq metadata'
<1>1. ASSUME NEW w \in Worker, Step(w) \/ Call(w) \/ Fault(w)
      PROVE  \/ UNCHANGED tables
             \/ Land(w)
  BY <1>1 DEF Step, Call, Fault, ReturnConfigurationError, ReturnFileNotFound, Begin,
     Sha256File, GetConnection, FindExisting, DetectSource, ReopenSource, NextChunk,
     InsertValidRow, ValidRowsSent, InsertInvalidRows, RecordIngestion, RereadWinner,
     Commit, HandleStructural, HandleOracle, HandleException, CallOnLostSession,
     DeadlockVictim, ConnectFails, StatementFails, LoseSession, CommitAnswerLost, Kill
<1>2. ASSUME NEW p \in Path, ChangeFile(p)
      PROVE  UNCHANGED tables
  BY <1>2 DEF ChangeFile
<1>3. UNCHANGED vars => UNCHANGED tables
  BY DEF vars
<1> QED
  BY <1>1, <1>2, <1>3 DEF Next, tables, Land

-----------------------------------------------------------------------------
(***************************************************************************)
(* CallInv: what each step does to the invariant of its own call.          *)
(***************************************************************************)
OwnInv(w) == ProgressInv(w) /\ TxInv(w)

\* What is said of one call only depends on that call's variables and its file.
LEMMA OwnInvSame ==
  ASSUME NEW w \in Worker, OwnInv(w), Same(w)
  PROVE  OwnInv(w)'
BY DEF OwnInv, Same, ProgressInv, TxInv, TxEmpty, ValidUpTo, InvalidUpTo, OwnRecord, rows, ds,
       ChunkEnd

\* A call that does not stream has nothing to keep but an empty transaction.
LEMMA OwnInvEnded ==
  ASSUME NEW w \in Worker,
         pc'[w] \in {"idle", "done", "reread"} \cup Handling,
         session'[w] # "up" \/ pc'[w] \in {"idle", "done", "reread"} => TxEmpty(w)'
  PROVE  OwnInv(w)'
BY DEF OwnInv, ProgressInv, TxInv, Quiet, Starting, Streaming, Handling

\* Between its start and its first chunk a call has an empty transaction and
\* counters of 0.
LEMMA OwnInvStarting ==
  ASSUME NEW w \in Worker, pc'[w] \in Starting, TxEmpty(w)',
         loaded'[w] = 0, validCount'[w] = 0, invalidCount'[w] = 0
  PROVE  OwnInv(w)'
BY DEF OwnInv, ProgressInv, TxInv, Starting, Streaming

\* The steps before the chunk loop keep an empty transaction and counters of 0.
LEMMA StartingSteps ==
  ASSUME TypeOK, NEW w \in Worker, OwnInv(w),
         (\E p \in Path : ReturnConfigurationError(w, p) \/ ReturnFileNotFound(w, p)
                            \/ Begin(w, p))
           \/ Sha256File(w) \/ GetConnection(w) \/ ConnectFails(w)
           \/ FindExisting(w) \/ DetectSource(w)
  PROVE  OwnInv(w)'
<1> USE DEF TypeOK, tables, file, progress, tx, budget, GoTo
<1>1. ASSUME TxEmpty(w), SameTx(w)
      PROVE  TxEmpty(w)'
  BY <1>1 DEF TxEmpty, SameTx
<1>2. pc[w] \in Quiet => TxEmpty(w)
  BY DEF OwnInv, TxInv
<1>3. pc[w] \in Starting => loaded[w] = 0 /\ validCount[w] = 0 /\ invalidCount[w] = 0
  BY DEF OwnInv, ProgressInv
<1>4. ASSUME NEW p \in Path,
             ReturnConfigurationError(w, p) \/ ReturnFileNotFound(w, p)
      PROVE  OwnInv(w)'
  <2>1. pc[w] \in Quiet /\ pc'[w] = "done" /\ SameTx(w)
    BY <1>4 DEF ReturnConfigurationError, ReturnFileNotFound, Return, SameTx, Quiet
  <2> QED
    BY <1>1, <1>2, <2>1, OwnInvEnded
<1>5. ASSUME NEW p \in Path, Begin(w, p)
      PROVE  OwnInv(w)'
  <2>1. /\ pc[w] \in Quiet /\ pc'[w] = "hash" /\ SameTx(w)
        /\ loaded'[w] = 0 /\ validCount'[w] = 0 /\ invalidCount'[w] = 0
    BY <1>5 DEF Begin, SameTx, Quiet
  <2> QED
    BY <1>1, <1>2, <2>1, OwnInvStarting DEF Starting
<1>6. CASE Sha256File(w) \/ GetConnection(w) \/ ConnectFails(w) \/ FindExisting(w)
             \/ DetectSource(w)
  <2>1. pc[w] \in Starting
    BY <1>6 DEF Sha256File, GetConnection, ConnectFails, FindExisting, DetectSource, Starting
  <2>2. SameTx(w) /\ SameProgress(w)
    BY <1>6 DEF Sha256File, GetConnection, ConnectFails, FindExisting, DetectSource,
       SameTx, SameProgress
  <2>3. pc'[w] \in Starting \cup {"done", "on_structural", "on_exception"}
    BY <1>6 DEF Sha256File, GetConnection, ConnectFails, FindExisting, DetectSource, Return,
       Starting
  <2>4. TxEmpty(w)' /\ loaded'[w] = 0 /\ validCount'[w] = 0 /\ invalidCount'[w] = 0
    BY <1>1, <1>2, <1>3, <2>1, <2>2 DEF SameProgress, Quiet
  <2> QED
    BY <2>3, <2>4, OwnInvStarting, OwnInvEnded DEF Handling
<1> QED
  BY <1>4, <1>5, <1>6

\* Steps that end in an except block, end the call or lose its session.
LEMMA EndingSteps ==
  ASSUME TypeOK, NEW w \in Worker, OwnInv(w),
         RereadWinner(w) \/ Commit(w) \/ HandleStructural(w) \/ HandleOracle(w)
           \/ HandleException(w) \/ CallOnLostSession(w) \/ DeadlockVictim(w)
           \/ StatementFails(w) \/ LoseSession(w) \/ CommitAnswerLost(w) \/ Kill(w)
  PROVE  OwnInv(w)'
<1> USE DEF TypeOK, tables, file, progress, tx, budget, GoTo
<1>1. CASE HandleStructural(w) \/ HandleOracle(w) \/ HandleException(w) \/ Commit(w)
  <2>1. pc'[w] = "done" /\ TxEmpty(w)'
    BY <1>1 DEF HandleStructural, HandleOracle, HandleException, Commit, Land, Return, ClearTx,
       TxEmpty
  <2> QED
    BY <2>1, OwnInvEnded
<1>2. CASE CommitAnswerLost(w) \/ Kill(w)
  <2>1. pc'[w] \in {"on_oracle", "idle"} /\ TxEmpty(w)'
    BY <1>2 DEF CommitAnswerLost, Kill, Land, ClearTx, TxEmpty
  <2> QED
    BY <2>1, OwnInvEnded DEF Handling
<1>3. CASE CallOnLostSession(w) \/ DeadlockVictim(w) \/ StatementFails(w)
  <2>1. pc'[w] = "on_oracle" /\ SameTx(w) /\ session'[w] = session[w]
    BY <1>3 DEF CallOnLostSession, DeadlockVictim, StatementFails, SameTx
  <2>2. session[w] # "up" => TxEmpty(w)
    BY DEF OwnInv, TxInv
  <2>3. session'[w] # "up" => TxEmpty(w)'
    BY <2>1, <2>2 DEF SameTx, TxEmpty
  <2> QED
    BY <2>1, <2>3, OwnInvEnded DEF Handling
<1>4. CASE RereadWinner(w)
  <2>1. pc[w] = "reread" /\ pc'[w] \in {"done", "on_exception"} /\ SameTx(w)
    BY <1>4 DEF RereadWinner, Return, SameTx
  <2>2. TxEmpty(w)
    BY <2>1 DEF OwnInv, TxInv, Quiet
  <2>3. TxEmpty(w)'
    BY <2>1, <2>2 DEF SameTx, TxEmpty
  <2> QED
    BY <2>1, <2>3, OwnInvEnded DEF Handling
<1>5. CASE LoseSession(w)
  <2>1. /\ pc'[w] = pc[w] /\ session'[w] = "lost" /\ TxEmpty(w)'
        /\ SameProgress(w) /\ SameFileRead(w)
    BY <1>5 DEF LoseSession, ClearTx, TxEmpty, SameProgress, SameFileRead
  <2>2. TxInv(w)'
    BY <2>1 DEF TxInv
  <2>3. ProgressInv(w)'
    BY <2>1 DEF OwnInv, ProgressInv, SameProgress, SameFileRead, rows
  <2> QED
    BY <2>2, <2>3 DEF OwnInv
<1> QED
  BY <1>1, <1>2, <1>3, <1>4, <1>5

\* Pass 2 starts with the first row and an empty transaction.
LEMMA ReopenKeepsOwnInv ==
  ASSUME TypeOK, NEW w \in Worker, OwnInv(w), ReopenSource(w)
  PROVE  OwnInv(w)'
<1> USE DEF TypeOK, tables, file, progress, tx, budget, GoTo
<1>1. /\ pc[w] = "reopen" /\ pc'[w] \in {"fetch", "on_exception"}
      /\ SameTx(w) /\ SameProgress(w)
  BY DEF ReopenSource, SameTx, SameProgress
<1>2. TxEmpty(w) /\ loaded[w] = 0 /\ validCount[w] = 0 /\ invalidCount[w] = 0
  BY <1>1 DEF OwnInv, TxInv, ProgressInv, Quiet, Starting
<1>3. TxEmpty(w)' /\ loaded'[w] = 0 /\ validCount'[w] = 0 /\ invalidCount'[w] = 0
  BY <1>1, <1>2 DEF SameTx, SameProgress, TxEmpty
<1>4. CASE pc'[w] = "on_exception"
  BY <1>3, <1>4, OwnInvEnded DEF Handling
<1>5. CASE pc'[w] = "fetch"
  <2>1. src'[w] \in Reading
    BY TypeLocal
  <2>2. Len(rows(w)') \in Nat
    BY <2>1, LengthIsNat DEF rows
  <2>3. ValidIndices(src'[w], 0, 0) = {} /\ InvalidIndices(src'[w], 0, 0) = {}
    BY <2>1, NoRowsYet
  <2>4. /\ Cardinality(ValidIndices(src'[w], 0, loaded'[w])) = 0
        /\ Cardinality(InvalidIndices(src'[w], 0, loaded'[w])) = 0
    BY <1>3, <2>3, FS_EmptySet, Zenon
  <2>5. ProgressInv(w)'
    BY <1>3, <1>5, <2>2, <2>4 DEF ProgressInv, Starting, rows
  <2>6. ValidUpTo(w, 0)' = {} /\ InvalidUpTo(w, 0)' = {}
    BY <2>3 DEF ValidUpTo, InvalidUpTo, ValidRowsOf, InvalidRowsOf, TableRowsAt
  <2>7. ValidUpTo(w, loaded[w])' = {} /\ InvalidUpTo(w, loaded[w])' = {}
    BY <1>3, <2>6 DEF ValidUpTo, InvalidUpTo
  <2>8. TxInv(w)'
    BY <1>3, <1>5, <2>7 DEF TxInv, TxEmpty, Quiet, Starting
  <2> QED
    BY <2>5, <2>8 DEF OwnInv
<1> QED
  BY <1>1, <1>4, <1>5

\* The chunk a streaming call works on lies in its file, after the finished ones.
LEMMA ChunkOfFile ==
  ASSUME TypeOK, NEW w \in Worker, OwnInv(w), pc[w] \in Streaming
  PROVE  /\ src[w] \in Reading /\ loaded[w] \in Nat /\ ChunkEnd(w) \in Nat
         /\ loaded[w] <= ChunkEnd(w) /\ ChunkEnd(w) <= Len(rows(w))
         /\ ValidUpTo(w, ChunkEnd(w)) = ValidUpTo(w, loaded[w]) \cup ChunkValid(w)
         /\ InvalidUpTo(w, ChunkEnd(w)) = InvalidUpTo(w, loaded[w]) \cup ChunkInvalid(w)
<1>1. src[w] \in Reading /\ loaded[w] \in Nat
  BY DEF TypeOK
<1>2. loaded[w] <= Len(rows(w))
  BY DEF OwnInv, ProgressInv
<1>3. ChunkEnd(w) \in Nat /\ loaded[w] <= ChunkEnd(w) /\ ChunkEnd(w) <= Len(rows(w))
  BY <1>2, ChunkEndIsNat
<1>4. \A d, s, k :
        /\ ValidRowsOf(d, s, k, src[w], 0, ChunkEnd(w))
             = ValidRowsOf(d, s, k, src[w], 0, loaded[w])
                 \cup ValidRowsOf(d, s, k, src[w], loaded[w], ChunkEnd(w))
        /\ InvalidRowsOf(d, s, k, src[w], 0, ChunkEnd(w))
             = InvalidRowsOf(d, s, k, src[w], 0, loaded[w])
                 \cup InvalidRowsOf(d, s, k, src[w], loaded[w], ChunkEnd(w))
  <2> SUFFICES ASSUME NEW i \in Nat, NEW j \in Nat, i <= j, i = loaded[w], j = ChunkEnd(w)
               PROVE  \A d, s, k :
                        /\ ValidRowsOf(d, s, k, src[w], 0, j)
                             = ValidRowsOf(d, s, k, src[w], 0, i)
                                 \cup ValidRowsOf(d, s, k, src[w], i, j)
                        /\ InvalidRowsOf(d, s, k, src[w], 0, j)
                             = InvalidRowsOf(d, s, k, src[w], 0, i)
                                 \cup InvalidRowsOf(d, s, k, src[w], i, j)
    BY <1>1, <1>3, Zenon
  <2> QED
    BY <1>1, RowsSplit
<1> QED
  BY <1>1, <1>3, <1>4 DEF ValidUpTo, InvalidUpTo, ChunkValid, ChunkInvalid

\* The next chunk starts where the last one ended; after the last one all rows are sent.
LEMMA NextChunkKeepsOwnInv ==
  ASSUME TypeOK, NEW w \in Worker, OwnInv(w), NextChunk(w)
  PROVE  OwnInv(w)'
<1> USE DEF TypeOK, tables, file, progress, tx, budget, GoTo
<1>1. /\ pc[w] = "fetch" /\ session'[w] = session[w]
      /\ SameTx(w) /\ SameProgress(w) /\ SameFileRead(w)
  BY DEF NextChunk, SameTx, SameProgress, SameFileRead
<1>2. \/ pc'[w] = "on_exception"
      \/ pc'[w] = "record" /\ loaded[w] >= Len(rows(w))
      \/ pc'[w] = "valid"
  BY DEF NextChunk
<1>3. session[w] # "up" => TxEmpty(w)
  BY DEF OwnInv, TxInv
<1>4. session'[w] # "up" => TxEmpty(w)'
  BY <1>1, <1>3 DEF SameTx, TxEmpty
<1>5. CASE pc'[w] = "on_exception"
  BY <1>4, <1>5, OwnInvEnded DEF Handling
<1>6. CASE pc'[w] \in {"record", "valid"}
  <2>1. /\ src[w] \in Reading /\ loaded[w] \in Nat /\ loaded[w] <= Len(rows(w))
        /\ Len(rows(w)) \in Nat
    BY <1>1, ChunkOfFile, LengthIsNat DEF OwnInv, ProgressInv, Streaming, rows
  <2>2. /\ ValidUpTo(w, loaded[w])' = ValidUpTo(w, loaded[w])
        /\ InvalidUpTo(w, loaded[w])' = InvalidUpTo(w, loaded[w])
        /\ ValidUpTo(w, ChunkEnd(w))' = ValidUpTo(w, ChunkEnd(w))
        /\ rows(w)' = rows(w)
    BY <1>1 DEF SameProgress, SameFileRead, ValidUpTo, InvalidUpTo, ChunkEnd, rows, ds
  <2>3. ValidUpTo(w, loaded[w]) \subseteq ValidUpTo(w, ChunkEnd(w))
    BY <1>1, ChunkOfFile DEF Streaming
  <2>4. ProgressInv(w)'
    BY <1>1, <1>2, <1>6, <2>1, <2>2
       DEF OwnInv, ProgressInv, Starting, Streaming, SameProgress, SameFileRead
  <2>5. session[w] = "up" =>
          /\ txValid[w] = ValidUpTo(w, loaded[w]) /\ txInvalid[w] = InvalidUpTo(w, loaded[w])
          /\ txMeta[w] = {}
    BY <1>1 DEF OwnInv, TxInv, Streaming
  <2>6. TxInv(w)'
    BY <1>1, <1>4, <1>6, <2>2, <2>3, <2>5 DEF TxInv, SameTx, Quiet, Starting
  <2> QED
    BY <2>4, <2>6 DEF OwnInv
<1> QED
  BY <1>2, <1>5, <1>6

\* What a step that stays in its chunk keeps of the ranges of rows.
LEMMA SameRanges ==
  ASSUME NEW w \in Worker, SameProgress(w), SameFileRead(w)
  PROVE  /\ ValidUpTo(w, loaded[w])' = ValidUpTo(w, loaded[w])
         /\ InvalidUpTo(w, loaded[w])' = InvalidUpTo(w, loaded[w])
         /\ ValidUpTo(w, ChunkEnd(w))' = ValidUpTo(w, ChunkEnd(w))
         /\ OwnRecord(w)' = OwnRecord(w)
         /\ rows(w)' = rows(w)
BY DEF SameProgress, SameFileRead, ValidUpTo, InvalidUpTo, OwnRecord, ChunkEnd, rows, ds

\* A valid row is added to the transaction in the order of the file.
LEMMA InsertValidKeepsOwnInv ==
  ASSUME TypeOK, NEW w \in Worker, OwnInv(w), InsertValidRow(w) \/ ValidRowsSent(w)
  PROVE  OwnInv(w)'
<1> USE DEF TypeOK, tables, file, progress, tx, budget, GoTo
<1>1. /\ pc[w] = "valid" /\ session'[w] = session[w]
      /\ SameProgress(w) /\ SameFileRead(w)
      /\ txInvalid'[w] = txInvalid[w] /\ txMeta'[w] = txMeta[w]
  BY DEF InsertValidRow, ValidRowsSent, SameProgress, SameFileRead
<1>2. ValidUpTo(w, ChunkEnd(w)) = ValidUpTo(w, loaded[w]) \cup ChunkValid(w)
  BY <1>1, ChunkOfFile DEF Streaming
<1>3. /\ session[w] # "up" => TxEmpty(w)
      /\ session[w] = "up" =>
           /\ ValidUpTo(w, loaded[w]) \subseteq txValid[w]
           /\ txValid[w] \subseteq ValidUpTo(w, ChunkEnd(w))
           /\ txInvalid[w] = InvalidUpTo(w, loaded[w]) /\ txMeta[w] = {}
  BY <1>1 DEF OwnInv, TxInv, Streaming
<1>4. CASE pc'[w] = "on_oracle"
  <2>1. InsertValidRow(w) /\ session'[w] = "up"
    BY <1>1, <1>4 DEF InsertValidRow, ValidRowsSent
  <2> QED
    BY <1>4, <2>1, OwnInvEnded DEF Handling
<1>5. CASE pc'[w] \in {"valid", "invalid"}
  <2>1. ProgressInv(w)'
    BY <1>1, <1>5, SameRanges
       DEF OwnInv, ProgressInv, Starting, Streaming, SameProgress, SameFileRead
  <2>2. CASE InsertValidRow(w)
    <3>1. pc'[w] = "valid" /\ session[w] = "up"
      BY <1>5, <2>2 DEF InsertValidRow
    <3>2. PICK r \in ChunkValid(w) :
            txValid'[w] = txValid[w] \cup {r} \/ txValid'[w] = txValid[w]
      BY <2>2 DEF InsertValidRow
    <3>3. /\ ValidUpTo(w, loaded[w]) \subseteq txValid'[w]
          /\ txValid'[w] \subseteq ValidUpTo(w, ChunkEnd(w))
      BY <1>2, <1>3, <3>1, <3>2
    <3>4. TxInv(w)'
      BY <1>1, <1>3, <3>1, <3>3, SameRanges DEF TxInv, Quiet, Starting
    <3> QED
      BY <2>1, <3>4 DEF OwnInv
  <2>3. CASE ValidRowsSent(w)
    <3>1. pc'[w] = "invalid" /\ Unsent(w) = {} /\ txValid'[w] = txValid[w]
      BY <2>3 DEF ValidRowsSent
    <3>2. session[w] = "up" => txValid[w] = ValidUpTo(w, ChunkEnd(w))
      BY <1>2, <1>3, <3>1 DEF Unsent
    <3>3. session'[w] # "up" => TxEmpty(w)'
      BY <1>1, <1>3, <3>1 DEF TxEmpty
    <3>4. TxInv(w)'
      BY <1>1, <1>3, <3>1, <3>2, <3>3, SameRanges DEF TxInv, Quiet, Starting
    <3> QED
      BY <2>1, <3>4 DEF OwnInv
  <2> QED
    BY <2>2, <2>3
<1>6. pc'[w] \in {"on_oracle", "valid", "invalid"}
  BY DEF InsertValidRow, ValidRowsSent
<1> QED
  BY <1>4, <1>5, <1>6

\* The counters grow by the rows of the chunk.
LEMMA InsertInvalidKeepsOwnInv ==
  ASSUME TypeOK, NEW w \in Worker, OwnInv(w), InsertInvalidRows(w)
  PROVE  OwnInv(w)'
<1> USE DEF TypeOK, tables, file, tx, budget, GoTo
<1>1. /\ pc[w] = "invalid" /\ pc'[w] = "fetch" /\ session'[w] = session[w]
      /\ SameFileRead(w) /\ loaded'[w] = ChunkEnd(w)
      /\ validCount'[w] = validCount[w] + ChunkValidCount(w)
      /\ invalidCount'[w] = invalidCount[w] + ChunkInvalidCount(w)
      /\ txValid'[w] = txValid[w] /\ txMeta'[w] = txMeta[w]
      /\ txInvalid'[w] = txInvalid[w] \cup ChunkInvalid(w)
      /\ session[w] = "up" \/ ChunkInvalid(w) = {}
  BY DEF InsertInvalidRows, SameFileRead
<1>2. /\ src[w] \in Reading /\ loaded[w] \in Nat /\ ChunkEnd(w) \in Nat
      /\ loaded[w] <= ChunkEnd(w) /\ ChunkEnd(w) <= Len(rows(w))
      /\ InvalidUpTo(w, ChunkEnd(w)) = InvalidUpTo(w, loaded[w]) \cup ChunkInvalid(w)
  BY <1>1, ChunkOfFile DEF Streaming
<1>3. /\ validCount[w] = Cardinality(ValidIndices(src[w], 0, loaded[w]))
      /\ invalidCount[w] = Cardinality(InvalidIndices(src[w], 0, loaded[w]))
  BY <1>1 DEF OwnInv, ProgressInv, Streaming
<1>4. /\ validCount'[w] = Cardinality(ValidIndices(src[w], 0, ChunkEnd(w)))
      /\ invalidCount'[w] = Cardinality(InvalidIndices(src[w], 0, ChunkEnd(w)))
  BY <1>1, <1>2, <1>3, CountsSplit DEF ChunkValidCount, ChunkInvalidCount
<1>5. rows(w)' = rows(w) /\ src'[w] = src[w]
  BY <1>1 DEF SameFileRead, rows
<1>6. ProgressInv(w)'
  <2>1. loaded'[w] <= Len(rows(w))'
    BY <1>1, <1>2, <1>5
  <2>2. /\ validCount'[w] = Cardinality(ValidIndices(src'[w], 0, loaded'[w]))
        /\ invalidCount'[w] = Cardinality(InvalidIndices(src'[w], 0, loaded'[w]))
    BY <1>1, <1>4, <1>5, Zenon
  <2> QED
    BY <1>1, <2>1, <2>2 DEF ProgressInv, Starting
<1>7. /\ ValidUpTo(w, loaded[w])' = ValidUpTo(w, ChunkEnd(w))
      /\ InvalidUpTo(w, loaded[w])' = InvalidUpTo(w, ChunkEnd(w))
  BY <1>1, Zenon DEF SameFileRead, ValidUpTo, InvalidUpTo, ds
<1>8. /\ session[w] # "up" => TxEmpty(w)
      /\ session[w] = "up" =>
           /\ txValid[w] = ValidUpTo(w, ChunkEnd(w))
           /\ txInvalid[w] = InvalidUpTo(w, loaded[w]) /\ txMeta[w] = {}
  BY <1>1 DEF OwnInv, TxInv, Streaming
<1>9. session'[w] # "up" => TxEmpty(w)'
  BY <1>1, <1>8 DEF TxEmpty
<1>10. TxInv(w)'
  BY <1>1, <1>2, <1>7, <1>8, <1>9 DEF TxInv, Quiet, Starting
<1> QED
  BY <1>6, <1>10 DEF OwnInv

\* The record carries the counts of the whole file.
LEMMA RecordKeepsOwnInv ==
  ASSUME TypeOK, NEW w \in Worker, OwnInv(w), RecordIngestion(w)
  PROVE  OwnInv(w)'
<1> USE DEF TypeOK, tables, file, progress, tx, budget, GoTo
<1>1. /\ pc[w] = "record" /\ session[w] = "up" /\ session'[w] = "up"
      /\ SameProgress(w) /\ SameFileRead(w)
  BY DEF RecordIngestion, SameProgress, SameFileRead
<1>2. CASE pc'[w] = "reread"
  <2>1. TxEmpty(w)'
    BY <1>2 DEF RecordIngestion, ClearTx, TxEmpty
  <2> QED
    BY <1>2, <2>1, OwnInvEnded
<1>3. CASE pc'[w] = "commit"
  <2>1. /\ txMeta'[w] = {OwnRecord(w)}
        /\ txValid'[w] = txValid[w] /\ txInvalid'[w] = txInvalid[w]
    BY <1>3 DEF RecordIngestion, OwnRecord
  <2>2. txValid[w] = ValidUpTo(w, loaded[w]) /\ txInvalid[w] = InvalidUpTo(w, loaded[w])
    BY <1>1 DEF OwnInv, TxInv, Streaming
  <2>3. TxInv(w)'
    BY <1>1, <1>3, <2>1, <2>2, SameRanges DEF TxInv, Quiet, Starting
  <2>4. ProgressInv(w)'
    BY <1>1, <1>3, SameRanges
       DEF OwnInv, ProgressInv, Starting, Streaming, SameProgress, SameFileRead
  <2> QED
    BY <2>3, <2>4 DEF OwnInv
<1> QED
  BY <1>2, <1>3 DEF RecordIngestion

\* Every step keeps what is said of each call on its own.
LEMMA CallInvStep ==
  ASSUME TypeOK, CallInv, [Next]_vars
  PROVE  CallInv'
<1>1. \A w \in Worker : OwnInv(w)
  BY DEF CallInv, OwnInv
<1>2. ASSUME NEW w \in Worker, Step(w) \/ Call(w) \/ Fault(w)
      PROVE  \A v \in Worker : OwnInv(v)'
  <2>1. OwnInv(w)'
    BY <1>1, <1>2, StartingSteps, EndingSteps, ReopenKeepsOwnInv, NextChunkKeepsOwnInv,
       InsertValidKeepsOwnInv, InsertInvalidKeepsOwnInv, RecordKeepsOwnInv
       DEF Step, Call, Fault
  <2>2. \A v \in Worker \ {w} : OwnInv(v)'
    BY <1>1, <1>2, StepOfOne, OwnInvSame DEF OthersSame
  <2> QED
    BY <2>1, <2>2
<1>3. ASSUME (\E p \in Path : ChangeFile(p)) \/ UNCHANGED vars
      PROVE  \A w \in Worker : OwnInv(w)'
  <2>1. \A w \in Worker : Same(w)
    BY <1>3 DEF ChangeFile, vars, file, progress, tx, Same
  <2> QED
    BY <1>1, <2>1, OwnInvSame
<1> QED
  BY <1>2, <1>3 DEF Next, CallInv, OwnInv

-----------------------------------------------------------------------------
(***************************************************************************)
(* TableInv: what the transactions do to each other and to the tables.     *)
(***************************************************************************)

\* A step that inserts nothing can at most drop transactions.
LEMMA NothingInserted ==
  ASSUME TableInv, UNCHANGED tables,
         \A v \in Worker : txValid'[v] \subseteq txValid[v] /\ txMeta'[v] \subseteq txMeta[v]
  PROVE  TableInv'
<1>1. KeysApart'
  BY DEF TableInv, KeysApart, tables, SameKey
<1>2. RecordsApart'
  BY DEF TableInv, RecordsApart, tables, SameFile
<1>3. RefsPresent'
  BY DEF TableInv, RefsPresent, tables, RefMissing
<1>4. WholeInv'
  BY DEF TableInv, WholeInv, RowsHaveRecords, WholeFile, RowsUnder, tables
<1> QED
  BY <1>1, <1>2, <1>3, <1>4 DEF TableInv

\* An inserted row takes no key that is in the table or about to be, and an
\* inserted order has its customer.
LEMMA InsertValidKeepsTables ==
  ASSUME TypeOK, TableInv, NEW w \in Worker, InsertValidRow(w)
  PROVE  TableInv'
<1>1. /\ UNCHANGED tables /\ txMeta' = txMeta
      /\ \A v \in Worker \ {w} : txValid'[v] = txValid[v]
  BY DEF InsertValidRow, TypeOK, tables
<1>2. CASE txValid'[w] = txValid[w]
  BY <1>1, <1>2, NothingInserted
<1>3. CASE txValid'[w] # txValid[w]
  <2>1. PICK r \in ChunkValid(w) :
          /\ IsNext(w, r) /\ ~RefMissing(r) /\ ~Taken(w, r)
          /\ txValid'[w] = txValid[w] \cup {r}
    BY <1>3 DEF InsertValidRow, TypeOK
  <2>2. \A v \in Worker \ {w} : \A q \in txValid[v] : ~SameKey(q, r)
    BY <2>1 DEF InsertValidRow, Waiting, WaitsFor
  <2>3. \A q \in validRows \cup txValid[w] : ~SameKey(q, r)
    BY <2>1 DEF Taken
  <2>4. \A q, t : SameKey(q, t) => SameKey(t, q)
    BY DEF SameKey
  <2>5. \A v \in Worker : \A q, t \in validRows \cup txValid[v] : SameKey(q, t) => q = t
    BY DEF TableInv, KeysApart
  <2>6. \A u, v \in Worker : u # v =>
          \A q \in txValid[u], t \in txValid[v] : ~SameKey(q, t)
    BY DEF TableInv, KeysApart
  <2>7. \A v \in Worker :
          \A q, t \in validRows \cup txValid'[v] : SameKey(q, t) => q = t
    BY <1>1, <2>1, <2>3, <2>4, <2>5
  <2>8. \A u, v \in Worker : u # v =>
          \A q \in txValid'[u], t \in txValid'[v] : ~SameKey(q, t)
    BY <1>1, <2>1, <2>2, <2>4, <2>6
  <2>9. KeysApart'
    BY <1>1, <2>7, <2>8 DEF KeysApart, SameKey, tables
  <2>10. RefsPresent'
    BY <1>1, <2>1 DEF TableInv, RefsPresent, RefMissing, tables
  <2>11. RecordsApart' /\ WholeInv'
    BY <1>1 DEF TableInv, RecordsApart, SameFile, WholeInv, RowsHaveRecords, WholeFile,
       RowsUnder, tables
  <2> QED
    BY <2>9, <2>10, <2>11 DEF TableInv
<1> QED
  BY <1>2, <1>3

\* A record is only inserted when no other of its file is recorded or about to be.
LEMMA RecordKeepsTables ==
  ASSUME TypeOK, TableInv, NEW w \in Worker, RecordIngestion(w)
  PROVE  TableInv'
<1>1. /\ UNCHANGED tables
      /\ \A v \in Worker \ {w} : txValid'[v] = txValid[v] /\ txMeta'[v] = txMeta[v]
  BY DEF RecordIngestion, ClearTx, TypeOK, tables
<1>2. CASE pc'[w] = "reread"
  <2>1. txValid'[w] = {} /\ txMeta'[w] = {}
    BY <1>2 DEF RecordIngestion, ClearTx, TypeOK, GoTo
  <2> QED
    BY <1>1, <2>1, NothingInserted
<1>3. CASE pc'[w] = "commit"
  <2>1. /\ txMeta'[w] = {OwnRecord(w)} /\ txValid' = txValid
        /\ Matching(metadata, ds(w), checksum[w]) = {}
    BY <1>3 DEF RecordIngestion, TypeOK, GoTo, OwnRecord
  <2>2. OwnRecord(w).dataset = ds(w) /\ OwnRecord(w).checksum = checksum[w]
    BY DEF OwnRecord, RecordOf
  <2>3. \A v \in Worker \ {w} : Matching(txMeta[v], ds(w), checksum[w]) = {}
    BY <2>1 DEF RecordIngestion, Waiting, WaitsFor
  <2>4. \A n \in metadata : ~SameFile(OwnRecord(w), n)
    BY <2>1, <2>2 DEF Matching, SameFile
  <2>5. \A v \in Worker \ {w} : \A n \in txMeta[v] :
          ~SameFile(OwnRecord(w), n) /\ ~SameFile(n, OwnRecord(w))
    BY <2>2, <2>3 DEF Matching, SameFile
  <2>6. \A v \in Worker : \A m \in txMeta'[v], n \in metadata : ~SameFile(m, n)
    BY <1>1, <2>1, <2>4 DEF TableInv, RecordsApart
  <2>7. \A u, v \in Worker : u # v =>
          \A m \in txMeta'[u], n \in txMeta'[v] : ~SameFile(m, n)
    BY <1>1, <2>1, <2>5 DEF TableInv, RecordsApart
  <2>8. RecordsApart'
    BY <1>1, <2>6, <2>7 DEF TableInv, RecordsApart, SameFile, tables
  <2>9. KeysApart' /\ RefsPresent' /\ WholeInv'
    BY <1>1, <2>1 DEF TableInv, KeysApart, SameKey, RefsPresent, RefMissing, WholeInv,
       RowsHaveRecords, WholeFile, RowsUnder, tables
  <2> QED
    BY <2>8, <2>9 DEF TableInv
<1> QED
  BY <1>2, <1>3 DEF RecordIngestion, TypeOK, GoTo

\* What a call about to commit holds: every row of the reading, and
\* the record that counts them.
LEMMA AtCommit ==
  ASSUME TypeOK, CallInv, NEW w \in Worker, pc[w] = "commit", session[w] = "up"
  PROVE  /\ src[w] \in Reading /\ call[w] \in 1 .. MaxCalls
         /\ ds(w) \in Dataset /\ checksum[w] \in Content
         /\ txValid[w]
              = ValidRowsOf(ds(w), checksum[w], call[w], src[w], 0, Len(Rows[src[w]]))
         /\ txInvalid[w]
              = InvalidRowsOf(ds(w), checksum[w], call[w], src[w], 0, Len(Rows[src[w]]))
         /\ txMeta[w] = {OwnRecord(w)}
         /\ OwnRecord(w) = RecordOf(ds(w), checksum[w],
              Cardinality(ValidIndices(src[w], 0, Len(Rows[src[w]]))),
              Cardinality(InvalidIndices(src[w], 0, Len(Rows[src[w]]))))
<1>1. ProgressInv(w) /\ TxInv(w)
  BY DEF CallInv
<1>2. src[w] \in Reading /\ call[w] \in 1 .. MaxCalls
      /\ ds(w) \in Dataset /\ checksum[w] \in Content
  BY CallsAssumption, EngineAssumption DEF TypeOK, ds
<1>3. /\ loaded[w] = Len(Rows[src[w]])
      /\ validCount[w] = Cardinality(ValidIndices(src[w], 0, loaded[w]))
      /\ invalidCount[w] = Cardinality(InvalidIndices(src[w], 0, loaded[w]))
  BY <1>1 DEF ProgressInv, Streaming, rows
<1>4. /\ txValid[w] = ValidUpTo(w, loaded[w]) /\ txInvalid[w] = InvalidUpTo(w, loaded[w])
      /\ txMeta[w] = {OwnRecord(w)}
  BY <1>1 DEF TxInv, Streaming
<1>5. OwnRecord(w) = RecordOf(ds(w), checksum[w],
              Cardinality(ValidIndices(src[w], 0, Len(Rows[src[w]]))),
              Cardinality(InvalidIndices(src[w], 0, Len(Rows[src[w]]))))
  BY <1>3, Zenon DEF OwnRecord
<1> QED
  BY <1>2, <1>3, <1>4, <1>5, Zenon DEF ValidUpTo, InvalidUpTo

\* The rows a whole file puts into the tables are those of all its indices.
LEMMA RowsOfFile ==
  ASSUME NEW d, NEW s, NEW k, NEW c, NEW i, NEW j,
         NEW r \in ValidRowsOf(d, s, k, c, i, j) \cup InvalidRowsOf(d, s, k, c, i, j)
  PROVE  r.dataset = d /\ r.checksum = s
BY DEF ValidRowsOf, InvalidRowsOf, TableRowsAt

\* A commit adds a whole file that was not there, and touches no other.
LEMMA LandIsWhole ==
  ASSUME TypeOK, CallInv, TableInv, NEW w \in Worker,
         pc[w] = "commit", session[w] = "up", Land(w)
  PROVE  /\ metadata' = metadata \cup {OwnRecord(w)}
         /\ \A n \in metadata : \A c, k : WholeFile(n, c, k) => WholeFile(n, c, k)'
         /\ \A n, c, k : n = OwnRecord(w) /\ c = src[w] /\ k = call[w] => WholeFile(n, c, k)'
<1> DEFINE d == ds(w)
           s == checksum[w]
           m0 == OwnRecord(w)
<1>1. /\ validRows' = validRows \cup txValid[w]
      /\ invalidRows' = invalidRows \cup txInvalid[w]
      /\ metadata' = metadata \cup {m0}
  BY AtCommit DEF Land
<1>2. m0.dataset = d /\ m0.checksum = s
  BY DEF OwnRecord, RecordOf
<1>3. \A r \in txValid[w] \cup txInvalid[w] : r.dataset = d /\ r.checksum = s
  <2>1. /\ txValid[w] = ValidRowsOf(d, s, call[w], src[w], 0, Len(Rows[src[w]]))
        /\ txInvalid[w] = InvalidRowsOf(d, s, call[w], src[w], 0, Len(Rows[src[w]]))
    BY AtCommit
  <2> QED
    BY <2>1, RowsOfFile
<1>4. \A n \in metadata : ~SameFile(m0, n) /\ ~SameFile(n, m0)
  BY AtCommit DEF TableInv, RecordsApart, SameFile
<1>5. ASSUME NEW n \in metadata, NEW c, NEW k, WholeFile(n, c, k)
      PROVE  WholeFile(n, c, k)'
  <2>1. n.dataset # d \/ n.checksum # s
    BY <1>2, <1>4 DEF SameFile
  <2>2. /\ RowsUnder(validRows', n.dataset, n.checksum)
             = RowsUnder(validRows, n.dataset, n.checksum)
        /\ RowsUnder(invalidRows', n.dataset, n.checksum)
             = RowsUnder(invalidRows, n.dataset, n.checksum)
    BY <1>1, <1>3, <2>1 DEF RowsUnder
  <2> QED
    BY <1>5, <2>2 DEF WholeFile
<1>6. ASSUME NEW n, NEW c, NEW k, n = m0, c = src[w], k = call[w]
      PROVE  WholeFile(n, c, k)'
  <2>1. RowsUnder(validRows, d, s) = {} /\ RowsUnder(invalidRows, d, s) = {}
    BY <1>2, <1>4 DEF TableInv, WholeInv, RowsHaveRecords, RowsUnder, Matching, SameFile
  <2>2. RowsUnder(validRows', d, s) = txValid[w] /\ RowsUnder(invalidRows', d, s) = txInvalid[w]
    BY <1>1, <1>3, <2>1 DEF RowsUnder
  <2>3. /\ RowsUnder(validRows', d, s) = ValidRowsOf(d, s, k, c, 0, Len(Rows[c]))
        /\ RowsUnder(invalidRows', d, s) = InvalidRowsOf(d, s, k, c, 0, Len(Rows[c]))
    BY <1>6, <2>2, AtCommit
  <2>4. n = RecordOf(d, s, Cardinality(ValidIndices(c, 0, Len(Rows[c]))),
                     Cardinality(InvalidIndices(c, 0, Len(Rows[c]))))
    BY <1>6, AtCommit, Zenon
  <2>5. n.dataset = d /\ n.checksum = s
    BY <1>2, <1>6
  <2> QED
    BY <2>3, <2>4, <2>5, Zenon DEF WholeFile
<1> QED
  BY <1>1, <1>5, <1>6

\* A commit keeps keys, records and files apart, and rows with their records.
LEMMA LandKeepsTables ==
  ASSUME TypeOK, CallInv, TableInv, NEW w \in Worker,
         pc[w] = "commit", session[w] = "up", Land(w)
  PROVE  TableInv'
<1> DEFINE d == ds(w)
           s == checksum[w]
           m0 == OwnRecord(w)
<1>1. /\ validRows' = validRows \cup txValid[w]
      /\ invalidRows' = invalidRows \cup txInvalid[w]
      /\ metadata' = metadata \cup {m0}
      /\ txValid'[w] = {} /\ txMeta'[w] = {}
      /\ \A v \in Worker \ {w} : txValid'[v] = txValid[v] /\ txMeta'[v] = txMeta[v]
  BY AtCommit DEF Land, ClearTx, TypeOK
<1>2. m0.dataset = d /\ m0.checksum = s
  BY DEF OwnRecord, RecordOf
<1>3. \A r \in txValid[w] \cup txInvalid[w] : r.dataset = d /\ r.checksum = s
  <2>1. /\ txValid[w] = ValidRowsOf(d, s, call[w], src[w], 0, Len(Rows[src[w]]))
        /\ txInvalid[w] = InvalidRowsOf(d, s, call[w], src[w], 0, Len(Rows[src[w]]))
    BY AtCommit
  <2> QED
    BY <2>1, RowsOfFile
<1>4. m0 \in txMeta[w]
  BY AtCommit
<1>5. \A n \in metadata : ~SameFile(m0, n) /\ ~SameFile(n, m0)
  BY <1>4 DEF TableInv, RecordsApart, SameFile
<1>6. KeysApart'
  <2>1. \A v \in Worker : \A r, q \in validRows \cup txValid[w] \cup txValid'[v] :
          SameKey(r, q) => r = q
    BY <1>1 DEF TableInv, KeysApart, SameKey
  <2>2. \A u, v \in Worker : u # v =>
          \A r \in txValid'[u], q \in txValid'[v] : ~SameKey(r, q)
    BY <1>1 DEF TableInv, KeysApart
  <2> QED
    BY <1>1, <2>1, <2>2 DEF KeysApart, SameKey
<1>7. RecordsApart'
  <2>1. \A n, m \in metadata \cup {m0} : SameFile(m, n) => m = n
    BY <1>5 DEF TableInv, RecordsApart
  <2>2. \A v \in Worker : \A m \in txMeta'[v], n \in metadata \cup {m0} : ~SameFile(m, n)
    BY <1>1, <1>4 DEF TableInv, RecordsApart
  <2>3. \A u, v \in Worker : u # v =>
          \A m \in txMeta'[u], n \in txMeta'[v] : ~SameFile(m, n)
    BY <1>1 DEF TableInv, RecordsApart
  <2> QED
    BY <1>1, <2>1, <2>2, <2>3 DEF RecordsApart, SameFile
<1>8. RefsPresent'
  <2>1. \A r \in validRows \cup txValid[w] : ~RefMissing(r)
    BY DEF TableInv, RefsPresent
  <2>2. \A v \in Worker : \A r \in txValid'[v] : ~RefMissing(r)
    BY <1>1 DEF TableInv, RefsPresent
  <2> QED
    BY <1>1, <2>1, <2>2 DEF RefsPresent, RefMissing
<1>9. RowsHaveRecords'
  <2>1. \A r \in txValid[w] \cup txInvalid[w] : m0 \in Matching(metadata', r.dataset, r.checksum)
    BY <1>1, <1>2, <1>3 DEF Matching
  <2>2. \A r \in validRows \cup invalidRows :
          Matching(metadata', r.dataset, r.checksum) # {}
    BY <1>1 DEF TableInv, WholeInv, RowsHaveRecords, Matching
  <2> QED
    BY <1>1, <2>1, <2>2 DEF RowsHaveRecords, Matching
<1>10. \A n \in metadata : \E c \in Reading, k \in 1 .. MaxCalls : WholeFile(n, c, k)'
  BY LandIsWhole DEF TableInv, WholeInv
<1>11. \A n \in {m0} : \E c \in Reading, k \in 1 .. MaxCalls : WholeFile(n, c, k)'
  <2>1. PICK c \in Reading, k \in 1 .. MaxCalls : c = src[w] /\ k = call[w]
    BY AtCommit
  <2> QED
    BY <2>1, LandIsWhole
<1>12. WholeInv'
  BY <1>1, <1>9, <1>10, <1>11 DEF WholeInv
<1> QED
  BY <1>6, <1>7, <1>8, <1>12 DEF TableInv

\* Every step but three kinds inserts nothing.
LEMMA InsertingSteps ==
  ASSUME TypeOK, NEW w \in Worker, Step(w) \/ Call(w) \/ Fault(w)
  PROVE  \/ InsertValidRow(w)
         \/ RecordIngestion(w)
         \/ pc[w] = "commit" /\ session[w] = "up" /\ Land(w)
         \/ /\ UNCHANGED tables
            /\ txValid'[w] \subseteq txValid[w] /\ txMeta'[w] \subseteq txMeta[w]
<1> USE DEF TypeOK, tx, ClearTx
<1>1. CASE Call(w)
  BY <1>1 DEF Call, ReturnConfigurationError, ReturnFileNotFound, Begin
<1>2. CASE Sha256File(w) \/ GetConnection(w) \/ FindExisting(w) \/ DetectSource(w)
             \/ ReopenSource(w) \/ NextChunk(w) \/ ValidRowsSent(w) \/ RereadWinner(w)
  BY <1>2 DEF Sha256File, GetConnection, FindExisting, DetectSource, ReopenSource,
     NextChunk, ValidRowsSent, RereadWinner
<1>3. CASE InsertInvalidRows(w)
  BY <1>3 DEF InsertInvalidRows
<1>4. CASE Commit(w) \/ CommitAnswerLost(w)
  BY <1>4 DEF Commit, CommitAnswerLost
<1>5. CASE HandleStructural(w) \/ HandleOracle(w) \/ HandleException(w) \/ LoseSession(w)
             \/ Kill(w)
  BY <1>5 DEF HandleStructural, HandleOracle, HandleException, LoseSession, Kill, tables
<1>6. CASE CallOnLostSession(w) \/ DeadlockVictim(w) \/ StatementFails(w) \/ ConnectFails(w)
  BY <1>6 DEF CallOnLostSession, DeadlockVictim, StatementFails, ConnectFails, tables
<1> QED
  BY <1>1, <1>2, <1>3, <1>4, <1>5, <1>6 DEF Step, Fault

\* Every step keeps what is said of the tables and of the open transactions.
LEMMA TableInvStep ==
  ASSUME TypeOK, CallInv, TableInv, [Next]_vars
  PROVE  TableInv'
<1>1. ASSUME NEW w \in Worker, Step(w) \/ Call(w) \/ Fault(w)
      PROVE  TableInv'
  <2>1. \A v \in Worker \ {w} : txValid'[v] = txValid[v] /\ txMeta'[v] = txMeta[v]
    BY <1>1, StepOfOne DEF OthersSame, Same
  <2>2. CASE InsertValidRow(w)
    BY <2>2, InsertValidKeepsTables
  <2>3. CASE RecordIngestion(w)
    BY <2>3, RecordKeepsTables
  <2>4. CASE pc[w] = "commit" /\ session[w] = "up" /\ Land(w)
    BY <2>4, LandKeepsTables
  <2>5. CASE /\ UNCHANGED tables
             /\ txValid'[w] \subseteq txValid[w] /\ txMeta'[w] \subseteq txMeta[w]
    BY <2>1, <2>5, NothingInserted
  <2> QED
    BY <1>1, <2>2, <2>3, <2>4, <2>5, InsertingSteps
<1>2. CASE (\E p \in Path : ChangeFile(p)) \/ UNCHANGED vars
  <2>1. UNCHANGED tables /\ txValid' = txValid /\ txMeta' = txMeta
    BY <1>2 DEF ChangeFile, vars, tx
  <2> QED
    BY <2>1, NothingInserted
<1> QED
  BY <1>1, <1>2 DEF Next

-----------------------------------------------------------------------------
(***************************************************************************)
(* What calls are told.                                                    *)
(***************************************************************************)
FoundAt(w) == pc[w] = "reread" => Matching(metadata, ds(w), checksum[w]) # {}
DurableAt(w) ==
  pc[w] = "done" /\ result[w].status \in Loaded =>
    \E m \in metadata : m.dataset = ds(w) /\ Recorded(m) = result[w]

\* Reports stay backed by records when no call returns and records stay.
LEMMA ReportsSame ==
  ASSUME NEW w \in Worker, Same(w), metadata \subseteq metadata', FoundAt(w), DurableAt(w)
  PROVE  FoundAt(w)' /\ DurableAt(w)'
BY DEF Same, FoundAt, DurableAt, ds, Matching, Recorded

\* A status other than SUCCESS and SUCCESS_WITH_INVALID_ROWS promises nothing.
LEMMA NotLoaded ==
  ASSUME TypeOK, NEW w \in Worker, NEW st, NEW v, NEW i, st \notin Loaded,
         result' = [result EXCEPT ![w] = ResultOf(st, v, i)], pc'[w] # "reread"
  PROVE  FoundAt(w)' /\ DurableAt(w)'
<1>1. result'[w].status = st
  BY DEF TypeOK, ResultOf
<1> QED
  BY <1>1 DEF FoundAt, DurableAt

\* A call that returns SUCCESS or SUCCESS_WITH_INVALID_ROWS reports a committed record.
LEMMA ReportsOfStep ==
  ASSUME TypeOK, CallInv, NEW w \in Worker, Step(w) \/ Call(w) \/ Fault(w),
         metadata \subseteq metadata', FoundAt(w), DurableAt(w)
  PROVE  FoundAt(w)' /\ DurableAt(w)'
<1> USE DEF TypeOK, GoTo
<1>0. {"RAISED", "CONFIGURATION_ERROR", "FILE_NOT_FOUND", "DATABASE_ERROR", "INVALID_FILE",
       "PROCESSING_ERROR"} \cap Loaded = {}
  BY DEF Loaded
<1>1. CASE pc'[w] \notin {"reread", "done"}
  BY <1>1 DEF FoundAt, DurableAt
<1>2. CASE \E m \in Matching(metadata, ds(w), checksum[w]) :
             Return(w, Recorded(m)) /\ path' = path
  BY <1>2 DEF FoundAt, DurableAt, Return, Matching, ds
<1>3. CASE \E st \in {"RAISED", "CONFIGURATION_ERROR", "FILE_NOT_FOUND", "DATABASE_ERROR",
                     "INVALID_FILE", "PROCESSING_ERROR"} :
             \E v, i : Return(w, ResultOf(st, v, i))
  <2>1. PICK st, v, i :
          /\ st \in {"RAISED", "CONFIGURATION_ERROR", "FILE_NOT_FOUND", "DATABASE_ERROR",
                     "INVALID_FILE", "PROCESSING_ERROR"}
          /\ Return(w, ResultOf(st, v, i))
    BY <1>3
  <2>2. pc'[w] = "done" /\ st \notin Loaded
    BY <1>0, <2>1 DEF Return
  <2> QED
    BY <2>1, <2>2, NotLoaded DEF Return
<1>4. CASE Commit(w)
  <2>1. /\ OwnRecord(w) \in metadata' /\ ds(w)' = ds(w) /\ pc'[w] = "done"
    BY <1>4, AtCommit DEF Commit, Land, Return, file, ds
  <2>2. result'[w] = Recorded(OwnRecord(w))
    BY <1>4 DEF Commit, Return, Recorded, OwnRecord, RecordOf, ResultOf
  <2>3. OwnRecord(w).dataset = ds(w)
    BY DEF OwnRecord, RecordOf
  <2> QED
    BY <2>1, <2>2, <2>3 DEF FoundAt, DurableAt
<1>5. CASE RecordIngestion(w)
  <2>1. pc'[w] = "reread" => Matching(metadata, ds(w), checksum[w]) # {}
    BY <1>5 DEF RecordIngestion
  <2>2. ds(w)' = ds(w) /\ checksum' = checksum /\ pc'[w] # "done"
    BY <1>5 DEF RecordIngestion, file, ds
  <2> QED
    BY <2>1, <2>2 DEF FoundAt, DurableAt, Matching
<1>6. CASE LoseSession(w)
  <2>1. pc' = pc /\ path' = path /\ checksum' = checksum /\ result' = result
    BY <1>6 DEF LoseSession, file
  <2> QED
    BY <2>1 DEF FoundAt, DurableAt, ds, Matching, Recorded
<1>7. CASE Call(w)
  BY <1>1, <1>3, <1>7 DEF Call, ReturnConfigurationError, ReturnFileNotFound, Begin
<1>8. CASE Sha256File(w) \/ ConnectFails(w) \/ HandleStructural(w) \/ HandleOracle(w)
             \/ HandleException(w)
  BY <1>1, <1>3, <1>8 DEF Sha256File, ConnectFails, HandleStructural, HandleOracle,
     HandleException, Raised
<1>9. CASE FindExisting(w) \/ RereadWinner(w)
  BY <1>1, <1>2, <1>9 DEF FindExisting, RereadWinner, file
<1>10. CASE GetConnection(w) \/ DetectSource(w) \/ ReopenSource(w) \/ NextChunk(w)
              \/ ValidRowsSent(w) \/ InsertInvalidRows(w) \/ CallOnLostSession(w)
              \/ DeadlockVictim(w) \/ StatementFails(w) \/ CommitAnswerLost(w) \/ Kill(w)
  BY <1>1, <1>10 DEF GetConnection, DetectSource, ReopenSource, NextChunk, ValidRowsSent,
     InsertInvalidRows, CallOnLostSession, DeadlockVictim, StatementFails, CommitAnswerLost,
     Kill
<1>11. CASE InsertValidRow(w)
  <2>1. pc'[w] \in {"valid", "on_oracle"}
    BY <1>11 DEF InsertValidRow
  <2> QED
    BY <1>1, <2>1
<1> QED
  BY <1>4, <1>5, <1>6, <1>7, <1>8, <1>9, <1>10, <1>11 DEF Step, Fault

\* Every step keeps the reports backed by records.
LEMMA ReportsStep ==
  ASSUME TypeOK, CallInv, WinnerIsFound, ReportsAreDurable, [Next]_vars
  PROVE  WinnerIsFound' /\ ReportsAreDurable'
<1>1. \A w \in Worker : FoundAt(w) /\ DurableAt(w)
  BY DEF WinnerIsFound, ReportsAreDurable, FoundAt, DurableAt
<1>2. metadata \subseteq metadata'
  BY TablesGrow
<1>3. ASSUME NEW w \in Worker, Step(w) \/ Call(w) \/ Fault(w)
      PROVE  \A v \in Worker : FoundAt(v)' /\ DurableAt(v)'
  BY <1>1, <1>2, <1>3, ReportsOfStep, StepOfOne, ReportsSame DEF OthersSame
<1>4. ASSUME (\E p \in Path : ChangeFile(p)) \/ UNCHANGED vars
      PROVE  \A w \in Worker : FoundAt(w)' /\ DurableAt(w)'
  <2>1. \A w \in Worker : Same(w)
    BY <1>4 DEF ChangeFile, vars, file, progress, tx, Same
  <2> QED
    BY <1>1, <1>2, <2>1, ReportsSame
<1> QED
  BY <1>3, <1>4 DEF Next, WinnerIsFound, ReportsAreDurable, FoundAt, DurableAt

-----------------------------------------------------------------------------
(***************************************************************************)
(* The invariant, and the properties it gives.                             *)
(***************************************************************************)

\* The invariant holds initially.
LEMMA InvInit == Init => IInv
<1> SUFFICES ASSUME Init PROVE IInv
  OBVIOUS
<1>1. TypeOK
  BY TypeInit
<1>2. \A w \in Worker : pc[w] = "idle" /\ TxEmpty(w)
  BY DEF Init, TxEmpty
<1>3. validRows = {} /\ invalidRows = {} /\ metadata = {}
  BY DEF Init
<1>4. CallInv
  BY <1>2 DEF CallInv, ProgressInv, TxInv, Starting, Streaming
<1>5. TableInv
  BY <1>2, <1>3 DEF TableInv, KeysApart, RecordsApart, RefsPresent, WholeInv, RowsHaveRecords,
     TxEmpty
<1>6. WinnerIsFound /\ ReportsAreDurable
  BY <1>2 DEF WinnerIsFound, ReportsAreDurable
<1> QED
  BY <1>1, <1>4, <1>5, <1>6 DEF IInv

\* Every step keeps the invariant.
LEMMA InvStep == IInv /\ [Next]_vars => IInv'
BY TypeStep, CallInvStep, TableInvStep, ReportsStep DEF IInv

\* The invariant the safety properties rest on holds in every reachable state.
THEOREM InvariantHolds == Spec => []IInv
BY InvInit, InvStep, PTL DEF Spec

\* No committed order lacks its customer, in whatever order the calls commit.
THEOREM OrdersReferToCustomers == Spec => []OrdersHaveCustomers
<1>1. IInv => OrdersHaveCustomers
  BY EngineAssumption DEF IInv, TableInv, RefsPresent, OrdersHaveCustomers
<1> QED
  BY <1>1, InvariantHolds, PTL

\* What a call reports as loaded, by itself, earlier or by the winner of a
\* race, is recorded with the counts it reports.
THEOREM ReportsDurable == Spec => []ReportsAreDurable
BY InvariantHolds, PTL DEF IInv

\* As many rows of a file are in a table as it has such indices.
LEMMA CountOfRows ==
  ASSUME NEW d, NEW s, NEW k, NEW c, NEW N, IsFiniteSet(N)
  PROVE  Cardinality(TableRowsAt(d, s, k, c, N)) = Cardinality(N)
<1> DEFINE f == [n \in N |-> [dataset |-> d, checksum |-> s, call |-> k, src |-> c, n |-> n]]
<1>1. f \in Bijection(N, TableRowsAt(d, s, k, c, N))
  BY DEF TableRowsAt, Bijection, Injection, Surjection, IsInjective
<1> QED
  BY <1>1, FS_Bijection DEF ExistsBijection

\* The counts of a record, added up chunk by chunk before the rows were
\* committed, are those of the rows in the tables.
THEOREM CountsMatch == Spec => []CountsMatchTables
<1>1. IInv => CountsMatchTables
  <2> SUFFICES ASSUME IInv, NEW m \in metadata
               PROVE  m = RecordOf(m.dataset, m.checksum,
                        Cardinality(RowsUnder(validRows, m.dataset, m.checksum)),
                        Cardinality(RowsUnder(invalidRows, m.dataset, m.checksum)))
    BY DEF CountsMatchTables
  <2>1. PICK c \in Reading, k \in 1 .. MaxCalls : WholeFile(m, c, k)
    BY DEF IInv, TableInv, WholeInv
  <2>2. /\ IsFiniteSet(ValidIndices(c, 0, Len(Rows[c])))
        /\ IsFiniteSet(InvalidIndices(c, 0, Len(Rows[c])))
    BY IndicesFinite, LengthIsNat
  <2>3. /\ Cardinality(RowsUnder(validRows, m.dataset, m.checksum))
             = Cardinality(ValidIndices(c, 0, Len(Rows[c])))
        /\ Cardinality(RowsUnder(invalidRows, m.dataset, m.checksum))
             = Cardinality(InvalidIndices(c, 0, Len(Rows[c])))
    <3>1. \A d, s : /\ Cardinality(ValidRowsOf(d, s, k, c, 0, Len(Rows[c])))
                          = Cardinality(ValidIndices(c, 0, Len(Rows[c])))
                    /\ Cardinality(InvalidRowsOf(d, s, k, c, 0, Len(Rows[c])))
                          = Cardinality(InvalidIndices(c, 0, Len(Rows[c])))
      BY <2>2, CountOfRows DEF ValidRowsOf, InvalidRowsOf
    <3> QED
      BY <2>1, <3>1, Zenon DEF WholeFile
  <2> QED
    BY <2>1, <2>3, Zenon DEF WholeFile
<1> QED
  BY <1>1, InvariantHolds, PTL

\* A step never changes a record or adds or removes a row under it.
THEOREM RecordedFilesFinal == Spec => RecordedFilesAreFinal
<1>1. ASSUME IInv, IInv', [Next]_vars, NEW m \in metadata
      PROVE  /\ m \in metadata'
             /\ \A T \in {<<validRows, validRows'>>, <<invalidRows, invalidRows'>>} :
                  RowsUnder(T[2], m.dataset, m.checksum) = RowsUnder(T[1], m.dataset, m.checksum)
  <2>1. m \in metadata'
    BY <1>1, TablesGrow DEF IInv
  <2>2. /\ RowsUnder(validRows', m.dataset, m.checksum)
             = RowsUnder(validRows, m.dataset, m.checksum)
        /\ RowsUnder(invalidRows', m.dataset, m.checksum)
             = RowsUnder(invalidRows, m.dataset, m.checksum)
    <3>1. ASSUME NEW w \in Worker, pc[w] = "commit", session[w] = "up", Land(w)
          PROVE  /\ RowsUnder(validRows', m.dataset, m.checksum)
                      = RowsUnder(validRows, m.dataset, m.checksum)
                 /\ RowsUnder(invalidRows', m.dataset, m.checksum)
                      = RowsUnder(invalidRows, m.dataset, m.checksum)
      <4>1. OwnRecord(w) \in txMeta[w]
        BY <1>1, <3>1, AtCommit DEF IInv
      <4>2. m.dataset # ds(w) \/ m.checksum # checksum[w]
        BY <1>1, <4>1 DEF IInv, TableInv, RecordsApart, SameFile, OwnRecord, RecordOf
      <4>3. \A r \in txValid[w] \cup txInvalid[w] :
              r.dataset = ds(w) /\ r.checksum = checksum[w]
        <5>1. /\ txValid[w]
                   = ValidRowsOf(ds(w), checksum[w], call[w], src[w], 0, Len(Rows[src[w]]))
              /\ txInvalid[w]
                   = InvalidRowsOf(ds(w), checksum[w], call[w], src[w], 0, Len(Rows[src[w]]))
          BY <1>1, <3>1, AtCommit DEF IInv
        <5> QED
          BY <5>1, RowsOfFile
      <4> QED
        BY <3>1, <4>2, <4>3 DEF Land, RowsUnder
    <3>2. CASE UNCHANGED tables
      BY <3>2 DEF tables
    <3>3. (\E w \in Worker : InsertValidRow(w) \/ RecordIngestion(w)) => UNCHANGED tables
      BY DEF InsertValidRow, RecordIngestion
    <3>4. (\E p \in Path : ChangeFile(p)) \/ UNCHANGED vars => UNCHANGED tables
      BY DEF ChangeFile, vars
    <3> QED
      BY <1>1, <3>1, <3>2, <3>3, <3>4, InsertingSteps DEF Next, IInv
  <2> QED
    BY <2>1, <2>2
<1>2. IInv /\ IInv' /\ [Next]_vars =>
        [\A m \in metadata :
           /\ m \in metadata'
           /\ \A T \in {<<validRows, validRows'>>, <<invalidRows, invalidRows'>>} :
                RowsUnder(T[2], m.dataset, m.checksum)
                  = RowsUnder(T[1], m.dataset, m.checksum)]_vars
  BY <1>1
<1> QED
  BY <1>2, InvariantHolds, PTL DEF Spec, RecordedFilesAreFinal

-----------------------------------------------------------------------------
(***************************************************************************)
(* The engine implements the ledger: a commit is a Load, all other steps   *)
(* leave the tables alone.                                                 *)
(***************************************************************************)
\* The ledger's operators on files and records are the engine's.
LEMMA LedgerData ==
  /\ \A d, s, k, c, i, j :
       /\ Ledger!ValidRowsOf(d, s, k, c, i, j) = ValidRowsOf(d, s, k, c, i, j)
       /\ Ledger!InvalidRowsOf(d, s, k, c, i, j) = InvalidRowsOf(d, s, k, c, i, j)
       /\ Ledger!ValidIndices(c, i, j) = ValidIndices(c, i, j)
       /\ Ledger!InvalidIndices(c, i, j) = InvalidIndices(c, i, j)
  /\ \A M, d, s : Ledger!Matching(M, d, s) = Matching(M, d, s)
  /\ \A d, s, v, i : Ledger!RecordOf(d, s, v, i) = RecordOf(d, s, v, i)
  /\ Ledger!Reading = Reading /\ \A c : Ledger!ReadingOf(c) = ReadingOf(c)
BY DEF Ledger!Reading, Ledger!ReadingOf, Reading, ReadingOf, Ledger!ValidRowsOf, Ledger!InvalidRowsOf, Ledger!TableRowsAt, Ledger!ValidIndices,
       Ledger!InvalidIndices, Ledger!RecordOf, Ledger!Matching, ValidRowsOf, InvalidRowsOf,
       TableRowsAt, ValidIndices, InvalidIndices, RecordOf, Matching

\* The ledger counts as the engine does.
LEMMA LedgerCardinality == \A S : Ledger!Cardinality(S) = Cardinality(S)
BY Zenon DEF Ledger!Cardinality, Cardinality

\* A commit of the engine is one load for the ledger, of all rows of a reading.
LEMMA LandIsLoad ==
  ASSUME IInv, NEW w \in Worker, pc[w] = "commit", session[w] = "up", Land(w)
  PROVE  Ledger!Load(ds(w), checksum[w], call[w], src[w])
<1> DEFINE new == ValidRowsOf(ds(w), checksum[w], call[w], src[w], 0, Len(Rows[src[w]]))
           bad == InvalidRowsOf(ds(w), checksum[w], call[w], src[w], 0, Len(Rows[src[w]]))
<1>1. txValid[w] = new /\ txInvalid[w] = bad
  BY AtCommit DEF IInv
<1>2. txMeta[w] = {RecordOf(ds(w), checksum[w],
              Cardinality(ValidIndices(src[w], 0, Len(Rows[src[w]]))),
              Cardinality(InvalidIndices(src[w], 0, Len(Rows[src[w]]))))}
  BY AtCommit DEF IInv
<1>3. Matching(metadata, ds(w), checksum[w]) = {}
  <2>1. \A n \in metadata : ~SameFile(OwnRecord(w), n)
    BY AtCommit DEF IInv, TableInv, RecordsApart
  <2> QED
    BY <2>1 DEF Matching, SameFile, OwnRecord, RecordOf
<1>4. \A r \in new : r.dataset = ds(w)
  BY RowsOfFile
<1>5. Ledger!FreshKeys(ds(w), new)
  BY <1>1, <1>4 DEF IInv, TableInv, KeysApart, SameKey, Ledger!FreshKeys, Ledger!KeyOf, KeyOf
<1>6. Ledger!RefsPresent(ds(w), new)
  BY <1>1, <1>4 DEF IInv, TableInv, RefsPresent, RefMissing, Ledger!RefsPresent,
     Ledger!KeyOf, Ledger!RefOf, KeyOf, RefOf
<1> HIDE DEF new, bad
<1>7. /\ validRows' = validRows \cup new /\ invalidRows' = invalidRows \cup bad
      /\ metadata' = metadata \cup txMeta[w]
  BY <1>1 DEF Land
<1>8. Ledger!Matching(metadata, ds(w), checksum[w]) = {}
  BY <1>3, LedgerData, Zenon
<1>9. /\ new = Ledger!ValidRowsOf(ds(w), checksum[w], call[w], src[w], 0, Len(Rows[src[w]]))
      /\ bad = Ledger!InvalidRowsOf(ds(w), checksum[w], call[w], src[w], 0, Len(Rows[src[w]]))
  BY LedgerData, Zenon DEF new, bad
<1>10. txMeta[w] = {Ledger!RecordOf(ds(w), checksum[w],
              Ledger!Cardinality(Ledger!ValidIndices(src[w], 0, Len(Rows[src[w]]))),
              Ledger!Cardinality(Ledger!InvalidIndices(src[w], 0, Len(Rows[src[w]]))))}
  BY <1>2, LedgerData, LedgerCardinality, Zenon
<1>11. metadata' # metadata
  <2>1. txMeta[w] = {OwnRecord(w)}
    BY AtCommit DEF IInv
  <2>2. OwnRecord(w).dataset = ds(w) /\ OwnRecord(w).checksum = checksum[w]
    BY DEF OwnRecord, RecordOf
  <2>3. OwnRecord(w) \notin metadata
    BY <1>3, <2>2 DEF Matching
  <2> QED
    BY <1>7, <2>1, <2>3
<1> QED
  BY <1>5, <1>6, <1>7, <1>8, <1>9, <1>10, <1>11, Zenon DEF Ledger!Load

\* Every behaviour of the engine is one of the ledger: concurrent calls, lost
\* sessions, failed statements and kills add nothing to what loading files one
\* at a time can do to the tables; under replaced files, too, what one step
\* loads are all the rows of one reading, never of two or of a part of one.
THEOREM EngineImplementsLedger == Spec => ImplementsLedger
<1>1. Init => Ledger!Init
  BY DEF Init, Ledger!Init
<1>2. ASSUME IInv, [Next]_vars
      PROVE  [Ledger!Next]_(Ledger!ledger)
  <2>1. ASSUME NEW w \in Worker, pc[w] = "commit", session[w] = "up", Land(w)
        PROVE  Ledger!Next
    <3>1. /\ ds(w) \in Dataset /\ checksum[w] \in Content
          /\ call[w] \in 1 .. MaxCalls /\ src[w] \in Reading
      BY <1>2, <2>1, AtCommit DEF IInv
    <3>2. Ledger!Load(ds(w), checksum[w], call[w], src[w])
      BY <1>2, <2>1, LandIsLoad
    <3> QED
      BY <3>1, <3>2, LedgerData, Zenon DEF Ledger!Next, Ledger!Dataset, Dataset
  <2>2. CASE UNCHANGED tables
    BY <2>2 DEF tables, Ledger!ledger
  <2>3. (\E w \in Worker : InsertValidRow(w) \/ RecordIngestion(w)) => UNCHANGED tables
    BY DEF InsertValidRow, RecordIngestion
  <2>4. (\E p \in Path : ChangeFile(p)) \/ UNCHANGED vars => UNCHANGED tables
    BY DEF ChangeFile, vars
  <2> QED
    BY <1>2, <2>1, <2>2, <2>3, <2>4, InsertingSteps DEF Next, IInv
<1> QED
  BY <1>1, <1>2, InvariantHolds, PTL DEF Spec, ImplementsLedger, Ledger!Spec

-----------------------------------------------------------------------------
(***************************************************************************)
(* While no file is changed.                                               *)
(***************************************************************************)
\* Only ChangeFile touches the data directory, and it is counted.
LEMMA DiskOfStep ==
  ASSUME NEW w \in Worker, Step(w) \/ Call(w) \/ Fault(w)
  PROVE  disk' = disk /\ changes' = changes
<1>1. CASE Step(w)
  BY <1>1 DEF Step, Sha256File, GetConnection, FindExisting, DetectSource, ReopenSource,
     NextChunk, InsertValidRow, ValidRowsSent, InsertInvalidRows, RecordIngestion,
     RereadWinner, Commit, HandleStructural, HandleOracle, HandleException,
     CallOnLostSession, DeadlockVictim, budget
<1>2. CASE Call(w) \/ Fault(w)
  BY <1>2 DEF Call, Fault, ReturnConfigurationError, ReturnFileNotFound, Begin, ConnectFails,
     StatementFails, LoseSession, CommitAnswerLost, Kill
<1> QED
  BY <1>1, <1>2

\* As long as no change is counted, none has happened.
LEMMA StillUnchanged ==
  ASSUME TypeOK, [Next]_vars, changes' = 0
  PROVE  changes = 0 /\ disk' = disk
<1>1. ASSUME NEW p \in Path, ChangeFile(p)
      PROVE  FALSE
  BY <1>1 DEF ChangeFile, TypeOK
<1>2. UNCHANGED vars => changes' = changes /\ disk' = disk
  BY DEF vars, budget
<1> QED
  BY <1>1, <1>2, DiskOfStep DEF Next

\* A call reads, in both passes, the content it has digested.
LEMMA DigestedOfStep ==
  ASSUME TypeOK, NEW w \in Worker, Step(w) \/ Call(w) \/ Fault(w), ReadsDigested(w),
         disk' = disk
  PROVE  ReadsDigested(w)'
<1> USE DEF TypeOK, GoTo
<1>1. CASE pc'[w] \notin Working
  BY <1>1 DEF ReadsDigested, Working, Streaming
<1>2. CASE Call(w)
  BY <1>1, <1>2
     DEF Call, ReturnConfigurationError, ReturnFileNotFound, Begin, Return, Working, ReadsDigested,
         Streaming
<1>3. CASE Sha256File(w)
  BY <1>1, <1>3 DEF Sha256File, Return, Working, ReadsDigested, Streaming, file
<1>4. CASE GetConnection(w) \/ FindExisting(w)
  BY <1>1, <1>4 DEF GetConnection, FindExisting, Return, Working, ReadsDigested,
     Streaming, file
<1>5. CASE DetectSource(w) \/ ReopenSource(w)
  <2>1. /\ checksum[w] = disk[path[w]] /\ checksum' = checksum /\ path' = path
        /\ pc[w] = "reopen" => src[w] = ReadingOf(checksum[w])
    BY <1>5 DEF DetectSource, ReopenSource, ReadsDigested, Working
  <2>2. CASE pc'[w] \in {"reopen", "fetch"}
    <3>1. src'[w] = ReadingOf(checksum[w])
      BY <1>5, <2>1, <2>2 DEF DetectSource, ReopenSource, ReadingOf
    <3> QED
      BY <2>1, <2>2, <3>1 DEF ReadsDigested, ReadingOf
  <2>3. pc'[w] \in {"reopen", "fetch"} \cup Handling
    BY <1>5 DEF DetectSource, ReopenSource, Handling
  <2> QED
    BY <1>1, <2>2, <2>3 DEF Handling, Working
<1>6. CASE NextChunk(w) \/ InsertValidRow(w) \/ ValidRowsSent(w) \/ InsertInvalidRows(w)
             \/ RecordIngestion(w)
  <2>1. pc[w] \in Streaming /\ SameFileRead(w)
    BY <1>6 DEF NextChunk, InsertValidRow, ValidRowsSent, InsertInvalidRows, RecordIngestion,
       SameFileRead, Streaming, file
  <2>2. pc'[w] # "hash"
    BY <1>6 DEF NextChunk, InsertValidRow, ValidRowsSent, InsertInvalidRows, RecordIngestion
  <2> QED
    BY <2>1, <2>2 DEF ReadsDigested, SameFileRead, Streaming, Working
<1>7. CASE RereadWinner(w) \/ Commit(w) \/ HandleStructural(w) \/ HandleOracle(w)
             \/ HandleException(w) \/ CallOnLostSession(w) \/ DeadlockVictim(w)
             \/ ConnectFails(w) \/ StatementFails(w) \/ CommitAnswerLost(w) \/ Kill(w)
  BY <1>1, <1>7 DEF RereadWinner, Commit, HandleStructural, HandleOracle, HandleException,
     CallOnLostSession, DeadlockVictim, ConnectFails, StatementFails, CommitAnswerLost, Kill,
     Return, Working
<1>8. CASE LoseSession(w)
  BY <1>8 DEF LoseSession, ReadsDigested, file
<1> QED
  BY <1>2, <1>3, <1>4, <1>5, <1>6, <1>7, <1>8 DEF Step, Fault

\* What is recorded under a checksum are the rows of its content.
LEMMA ExactStep ==
  ASSUME TypeOK, CallInv, TableInv, ExactInv, [Next]_vars
  PROVE  ExactInv'
<1> DEFINE Exact(m) == \E k \in 1 .. MaxCalls : WholeFile(m, ReadingOf(m.checksum), k)
<1> SUFFICES ASSUME changes' = 0
             PROVE  /\ \A w \in Worker : ReadsDigested(w)'
                    /\ \A m \in metadata' : Exact(m)'
  BY DEF ExactInv
<1>1. /\ changes = 0 /\ disk' = disk
      /\ \A w \in Worker : ReadsDigested(w)
      /\ \A m \in metadata : Exact(m)
  BY StillUnchanged DEF ExactInv
<1>2. \A w \in Worker : Same(w) => ReadsDigested(w)'
  BY <1>1 DEF Same, ReadsDigested
<1>3. ASSUME UNCHANGED tables
      PROVE  \A m \in metadata' : Exact(m)'
  BY <1>1, <1>3 DEF WholeFile, RowsUnder, tables
<1>4. ASSUME NEW w \in Worker, Step(w) \/ Call(w) \/ Fault(w)
      PROVE  /\ \A v \in Worker : ReadsDigested(v)'
             /\ \A m \in metadata' : Exact(m)'
  <2>1. \A v \in Worker : ReadsDigested(v)'
    BY <1>1, <1>2, <1>4, DigestedOfStep, StepOfOne DEF OthersSame
  <2>2. CASE pc[w] = "commit" /\ session[w] = "up" /\ Land(w)
    <3>1. src[w] = ReadingOf(checksum[w]) /\ OwnRecord(w).checksum = checksum[w]
      BY <1>1, <2>2 DEF ReadsDigested, Streaming, OwnRecord, RecordOf
    <3>2. ASSUME NEW m \in metadata
          PROVE  Exact(m)'
      <4>1. PICK k \in 1 .. MaxCalls : WholeFile(m, ReadingOf(m.checksum), k)
        BY <1>1
      <4>2. PICK c : c = ReadingOf(m.checksum)
        OBVIOUS
      <4>3. WholeFile(m, c, k)'
        BY <2>2, <4>1, <4>2, LandIsWhole
      <4> QED
        BY <4>2, <4>3
    <3>3. ASSUME NEW m \in {OwnRecord(w)}
          PROVE  Exact(m)'
      <4>1. PICK k \in 1 .. MaxCalls : k = call[w]
        BY <2>2, AtCommit
      <4>2. PICK c : c = src[w]
        OBVIOUS
      <4>3. WholeFile(m, c, k)'
        BY <2>2, <4>1, <4>2, LandIsWhole
      <4>4. c = ReadingOf(m.checksum)
        BY <3>1, <4>2
      <4> QED
        BY <4>3, <4>4
    <3>4. metadata' = metadata \cup {OwnRecord(w)}
      BY <2>2, LandIsWhole
    <3> QED
      BY <2>1, <3>2, <3>3, <3>4
  <2>3. InsertValidRow(w) \/ RecordIngestion(w) => UNCHANGED tables
    BY DEF InsertValidRow, RecordIngestion
  <2> QED
    BY <1>3, <1>4, <2>1, <2>2, <2>3, InsertingSteps
<1>5. ASSUME (\E p \in Path : ChangeFile(p)) \/ UNCHANGED vars
      PROVE  /\ \A w \in Worker : ReadsDigested(w)'
             /\ \A m \in metadata' : Exact(m)'
  <2>1. UNCHANGED tables /\ \A w \in Worker : Same(w)
    BY <1>5 DEF ChangeFile, vars, file, progress, tx, Same
  <2> QED
    BY <1>2, <1>3, <2>1
<1> QED
  BY <1>4, <1>5 DEF Next

-----------------------------------------------------------------------------
(***************************************************************************)
(* While in addition nothing fails.                                        *)
(***************************************************************************)
\* A file one of whose valid rows is to be sent is not Plain.
LEMMA ValidRowOfPlain ==
  ASSUME TypeOK, NEW w \in Worker, OwnInv(w), ReadsDigested(w), pc[w] = "valid",
         NEW r \in ChunkValid(w)
  PROVE  ~Plain(checksum[w])
<1>1. src[w] = ReadingOf(checksum[w])
  BY DEF ReadsDigested, Streaming
<1>2. PICK n \in ValidIndices(src[w], loaded[w], ChunkEnd(w)) : TRUE
  BY DEF ChunkValid, ValidRowsOf, TableRowsAt
<1>3. /\ loaded[w] \in Nat /\ ChunkEnd(w) \in Nat /\ ChunkEnd(w) <= Len(rows(w))
      /\ Len(rows(w)) \in Nat
  BY ChunkOfFile, LengthIsNat DEF Streaming, rows
<1>4. n \in (loaded[w] + 1) .. ChunkEnd(w) /\ Rows[src[w]][n].valid
  BY <1>2 DEF ValidIndices
<1>5. n \in 1 .. Len(rows(w))
  BY <1>3, <1>4
<1> QED
  BY <1>1, <1>4, <1>5 DEF Plain, rows

\* Oracle breaks no wait cycle at a call for a Plain file: it waits only for
\* a call with an open record, and that one has nothing left but its commit.
LEMMA VictimOfPlain ==
  ASSUME TypeOK, NEW w \in Worker, OwnInv(w), ReadsDigested(w),
         \A v \in Worker : CalmCall(v), InWaitCycle(w)
  PROVE  ~Plain(checksum[w])
<1>1. PICK S \in SUBSET Worker :
        w \in S /\ \A v \in S : \E u \in S : WaitsFor(v, u)
  BY DEF InWaitCycle
<1>2. PICK u \in S : WaitsFor(w, u)
  BY <1>1
<1>3. PICK x \in S : WaitsFor(u, x)
  BY <1>1, <1>2
<1>4. pc[u] # "commit"
  BY <1>3 DEF WaitsFor
<1>5. txMeta[u] = {}
  BY <1>1, <1>4 DEF CalmCall
<1>6. PICK r \in ChunkValid(w) : pc[w] = "valid"
  BY <1>2, <1>5 DEF WaitsFor, Matching
<1> QED
  BY <1>6, ValidRowOfPlain

\* A done call stays with the record it reported, as records stay.
LEMMA CalmSame ==
  ASSUME NEW w \in Worker, CalmCall(w), Same(w), metadata \subseteq metadata'
  PROVE  CalmCall(w)'
BY DEF CalmCall, Same, ds, Matching, Recorded

\* A call that cannot fail takes the path to a record of its file.
LEMMA CalmOfStep ==
  ASSUME TypeOK, NEW w \in Worker, OwnInv(w), FoundAt(w), ReadsDigested(w),
         \A v \in Worker : CalmCall(v), \A m \in metadata : HeaderOk[m.checksum],
         metadata \subseteq metadata', Step(w) \/ Call(w)
  PROVE  CalmCall(w)'
<1> USE DEF TypeOK, GoTo, file, tx
<1>1. /\ session[w] # "lost"
      /\ txMeta[w] # {} => pc[w] = "commit"
      /\ pc[w] \in {"reopen", "reread"} \cup Streaming => HeaderOk[checksum[w]]
      /\ pc[w] = "on_structural" => ~HeaderOk[checksum[w]]
      /\ pc[w] \in {"on_oracle", "on_exception"} => ~Plain(checksum[w])
  BY DEF CalmCall
<1>2. CASE Call(w)
  BY <1>1, <1>2 DEF Call, ReturnConfigurationError, ReturnFileNotFound, Begin, Return, CalmCall,
     Streaming
<1>3. CASE Sha256File(w)
  BY <1>1, <1>3 DEF Sha256File, Return, CalmCall, Streaming, ReadsDigested
<1>4. CASE GetConnection(w)
  BY <1>1, <1>4 DEF GetConnection, CalmCall, Streaming
<1>5. CASE FindExisting(w) \/ RereadWinner(w)
  <2>1. CASE \E m \in Matching(metadata, ds(w), checksum[w]) : Return(w, Recorded(m))
    <3>1. /\ checksum' = checksum /\ path' = path /\ txMeta' = txMeta /\ pc[w] # "commit"
      BY <1>5 DEF FindExisting, RereadWinner
    <3>2. PICK m \in Matching(metadata, ds(w), checksum[w]) : Return(w, Recorded(m))
      BY <2>1
    <3>3. m \in Matching(metadata, ds(w), checksum[w])' /\ result'[w] = Recorded(m)
      BY <3>1, <3>2 DEF Return, Matching, ds
    <3>4. Recorded(m)' = Recorded(m)
      BY DEF Recorded
    <3> QED
      BY <1>1, <3>1, <3>2, <3>3, <3>4 DEF Return, CalmCall, Streaming
  <2>2. CASE pc'[w] = "detect"
    BY <1>1, <1>5, <2>2 DEF FindExisting, RereadWinner, CalmCall, Streaming, Return
  <2> QED
    BY <1>5, <2>1, <2>2 DEF FindExisting, RereadWinner, FoundAt
<1>6. CASE DetectSource(w)
  <2>1. disk[path[w]] = checksum[w] /\ checksum[w] # None
    BY <1>6 DEF DetectSource, ReadsDigested, Working
  <2> QED
    BY <1>1, <1>6, <2>1 DEF DetectSource, CalmCall, Streaming, Plain
<1>7. CASE ReopenSource(w)
  <2>1. disk[path[w]] = checksum[w] /\ checksum[w] # None /\ HeaderOk[checksum[w]]
    BY <1>1, <1>7 DEF ReopenSource, ReadsDigested, Working
  <2>2. /\ src[w] = ReadingOf(checksum[w]) /\ checksum[w] \in Content
        /\ Opens[ReadingOf(checksum[w])]
    BY <1>7, <2>1, OpensAssumption DEF ReopenSource, ReadsDigested
  <2>3. [src[w] EXCEPT !.read = disk[path[w]]] = ReadingOf(checksum[w])
    BY <2>1, <2>2 DEF ReadingOf
  <2>4. pc'[w] = "fetch" /\ UNCHANGED <<checksum, txMeta, session>>
    BY <1>7, <2>1, <2>2, <2>3 DEF ReopenSource
  <2> QED
    BY <1>1, <1>7, <2>1, <2>4 DEF ReopenSource, CalmCall
<1>8. CASE NextChunk(w)
  <2>1. src[w] = ReadingOf(checksum[w]) /\ HeaderOk[checksum[w]]
    BY <1>1, <1>8 DEF NextChunk, ReadsDigested, Streaming
  <2>2. TornAt[src[w]] = 0 =>
          TornAt[src[w]] \notin (loaded[w] + 1) .. (loaded[w] + ChunkSize)
    BY EngineAssumption
  <2> QED
    BY <1>1, <1>8, <2>1, <2>2 DEF NextChunk, CalmCall, Plain
<1>9. CASE InsertValidRow(w)
  <2>1. PICK r \in ChunkValid(w) : pc[w] = "valid"
    BY <1>9 DEF InsertValidRow
  <2>2. ~Plain(checksum[w])
    BY <2>1, ValidRowOfPlain
  <2> QED
    BY <1>1, <1>9, <2>2 DEF InsertValidRow, CalmCall, Streaming
<1>10. CASE ValidRowsSent(w) \/ InsertInvalidRows(w)
  BY <1>1, <1>10 DEF ValidRowsSent, InsertInvalidRows, CalmCall, Streaming
<1>11. CASE RecordIngestion(w)
  BY <1>1, <1>11 DEF RecordIngestion, CalmCall, Streaming, ClearTx
<1>12. CASE Commit(w)
  <2>1. /\ txMeta[w] = {OwnRecord(w)} /\ checksum' = checksum /\ path' = path
        /\ pc'[w] = "done" /\ session'[w] = "none" /\ txMeta'[w] = {}
        /\ OwnRecord(w) \in metadata'
    BY <1>12 DEF Commit, Land, ClearTx, Return, OwnInv, TxInv, Streaming
  <2>2. result'[w] = Recorded(OwnRecord(w))
    BY <1>12 DEF Commit, Return, Recorded, OwnRecord, RecordOf, ResultOf
  <2>3. OwnRecord(w) \in Matching(metadata', ds(w)', checksum'[w])
    BY <2>1 DEF Matching, OwnRecord, RecordOf, ds
  <2>4. \E m \in Matching(metadata', ds(w)', checksum'[w]) : result'[w] = Recorded(m)
    BY <2>2, <2>3
  <2> QED
    BY <2>1, <2>4 DEF CalmCall, Streaming, Recorded
<1>13. CASE HandleStructural(w) \/ HandleOracle(w) \/ HandleException(w)
  BY <1>1, <1>13 DEF HandleStructural, HandleOracle, HandleException, ClearTx, Return,
     CalmCall, Streaming
<1>14. CASE CallOnLostSession(w)
  BY <1>1, <1>14 DEF CallOnLostSession
<1>15. CASE DeadlockVictim(w)
  <2>1. ~Plain(checksum[w])
    BY <1>15, VictimOfPlain DEF DeadlockVictim
  <2>2. pc[w] # "commit"
    BY <1>15 DEF DeadlockVictim, InWaitCycle, WaitsFor
  <2> QED
    BY <1>1, <1>15, <2>1, <2>2 DEF DeadlockVictim, CalmCall, Streaming
<1> QED
  BY <1>2, <1>3, <1>4, <1>5, <1>6, <1>7, <1>8, <1>9, <1>10, <1>11, <1>12, <1>13, <1>14, <1>15
     DEF Step

\* A failure is counted.
LEMMA StillCalm ==
  ASSUME TypeOK, [Next]_vars, faults' = 0
  PROVE  /\ faults = 0
         /\ \A w \in Worker : ~Fault(w)
<1>1. \A w \in Worker : Fault(w) => faults' = faults + 1
  BY DEF Fault, ConnectFails, StatementFails, LoseSession, CommitAnswerLost, Kill
<1>2. \A w \in Worker : Call(w) => faults' = faults
  BY DEF Call, ReturnConfigurationError, ReturnFileNotFound, Begin
<1>3. \A w \in Worker : Step(w) => faults' = faults
  BY DEF Step, Sha256File, GetConnection, FindExisting, DetectSource, ReopenSource,
     NextChunk, InsertValidRow, ValidRowsSent, InsertInvalidRows, RecordIngestion,
     RereadWinner, Commit, HandleStructural, HandleOracle, HandleException,
     CallOnLostSession, DeadlockVictim, budget
<1>4. (\E p \in Path : ChangeFile(p)) \/ UNCHANGED vars => faults' = faults
  BY DEF ChangeFile, vars, budget
<1> QED
  BY <1>1, <1>2, <1>3, <1>4 DEF Next, TypeOK

\* While nothing fails and no file changes, every step keeps every call on its path.
LEMMA CalmStep ==
  ASSUME IInv, ExactInv, CalmInv, [Next]_vars
  PROVE  CalmInv'
<1> USE DEF IInv
<1> SUFFICES ASSUME faults' = 0, changes' = 0
             PROVE  /\ \A w \in Worker : CalmCall(w)'
                    /\ \A m \in metadata' : HeaderOk[m.checksum]
  BY DEF CalmInv
<1>1. faults = 0 /\ changes = 0 /\ metadata \subseteq metadata'
  BY StillCalm, StillUnchanged, TablesGrow
<1>2. /\ \A w \in Worker : CalmCall(w) /\ ReadsDigested(w)
      /\ \A m \in metadata : HeaderOk[m.checksum]
  BY <1>1 DEF CalmInv, ExactInv
<1>3. \A w \in Worker : OwnInv(w) /\ FoundAt(w)
  BY DEF CallInv, OwnInv, WinnerIsFound, FoundAt
<1>4. ASSUME NEW w \in Worker, Step(w) \/ Call(w)
      PROVE  \A v \in Worker : CalmCall(v)'
  BY <1>1, <1>2, <1>3, <1>4, CalmOfStep, StepOfOne, CalmSame DEF OthersSame
<1>5. ASSUME NEW w \in Worker, Step(w) \/ Call(w)
      PROVE  \A m \in metadata' : HeaderOk[m.checksum]
  <2>1. CASE pc[w] = "commit" /\ session[w] = "up" /\ Land(w)
    <3>1. HeaderOk[checksum[w]] /\ txMeta[w] = {OwnRecord(w)}
      BY <1>2, <2>1, AtCommit DEF CalmCall, Streaming
    <3> QED
      BY <1>2, <2>1, <3>1 DEF Land, OwnRecord, RecordOf
  <2>2. CASE UNCHANGED tables
    BY <1>2, <2>2 DEF tables
  <2>3. InsertValidRow(w) \/ RecordIngestion(w) => UNCHANGED tables
    BY DEF InsertValidRow, RecordIngestion
  <2> QED
    BY <1>5, <2>1, <2>2, <2>3, InsertingSteps
<1>6. ASSUME (\E p \in Path : ChangeFile(p)) \/ UNCHANGED vars
      PROVE  /\ \A w \in Worker : CalmCall(w)'
             /\ \A m \in metadata' : HeaderOk[m.checksum]
  <2>1. UNCHANGED tables /\ \A w \in Worker : Same(w)
    BY <1>6 DEF ChangeFile, vars, file, progress, tx, Same
  <2> QED
    BY <1>1, <1>2, <2>1, CalmSame DEF tables
<1> QED
  BY <1>4, <1>5, <1>6, StillCalm DEF Next

\* What is known of undisturbed calls holds initially ...
LEMMA UndisturbedInit == Init => UndisturbedInv
<1> SUFFICES ASSUME Init PROVE UndisturbedInv
  OBVIOUS
<1>1. /\ \A w \in Worker : pc[w] = "idle" /\ session[w] = "none" /\ txMeta[w] = {}
      /\ validRows = {} /\ invalidRows = {} /\ metadata = {}
  BY DEF Init
<1> QED
  BY <1>1 DEF UndisturbedInv, ExactInv, CalmInv, ReadsDigested, CalmCall, Working, Streaming

\* ... and in every reachable state.
THEOREM UndisturbedHolds == Spec => []UndisturbedInv
<1>1. IInv /\ UndisturbedInv /\ [Next]_vars => UndisturbedInv'
  BY ExactStep, CalmStep DEF UndisturbedInv, IInv
<1> QED
  BY <1>1, UndisturbedInit, InvariantHolds, PTL DEF Spec

\* Whatever fails, races or is killed, the tables hold a reading of a file
\* whole or not at all: every insert of a call lies in the one transaction its
\* commit lands.  While files stay, that reading is of the recorded content.
THEOREM FilesWhole == Spec => []FilesAreWhole
<1>1. IInv /\ UndisturbedInv => FilesAreWhole
  <2> SUFFICES ASSUME IInv, UndisturbedInv PROVE FilesAreWhole
    OBVIOUS
  <2>1. RowsHaveRecords
    BY DEF IInv, TableInv, WholeInv
  <2>2. \A m \in metadata : \E r \in Reading, k \in 1 .. MaxCalls :
          WholeFile(m, r, k) /\ (changes = 0 => r = ReadingOf(m.checksum))
    <3>1. CASE changes = 0
      <4>1. \A m \in metadata : ReadingOf(m.checksum) \in Reading
        BY DEF IInv, TypeOK, Record, ReadingOf, Reading
      <4> QED
        BY <3>1, <4>1 DEF UndisturbedInv, ExactInv
    <3>2. CASE changes # 0
      BY <3>2 DEF IInv, TableInv, WholeInv
    <3> QED
      BY <3>1, <3>2
  <2> QED
    BY <2>1, <2>2 DEF RowsHaveRecords, WholeFile, FilesAreWhole
<1> QED
  BY <1>1, InvariantHolds, UndisturbedHolds, PTL

\* While nothing fails and no file changes, a call for a file without a valid
\* row that does not commit itself returns what is recorded of the file: it
\* loses the race for the record and nothing else, and is never picked as the
\* victim of a wait cycle.
THEOREM LoserReturns == Spec => []LoserReturnsWinner
<1>1. IInv /\ UndisturbedInv => LoserReturnsWinner
  <2> SUFFICES ASSUME IInv, UndisturbedInv, faults = 0, changes = 0, NEW w \in Worker,
                      pc[w] = "done", checksum[w] # None, Plain(checksum[w]),
                      NEW m \in Matching(metadata, ds(w), checksum[w])
               PROVE  result[w] = Recorded(m)
    BY DEF LoserReturnsWinner
  <2>1. HeaderOk[checksum[w]]
    BY DEF UndisturbedInv, CalmInv, Matching
  <2>2. PICK n \in Matching(metadata, ds(w), checksum[w]) : result[w] = Recorded(n)
    BY <2>1 DEF UndisturbedInv, CalmInv, CalmCall
  <2>3. n = m
    BY DEF IInv, TableInv, RecordsApart, SameFile, Matching
  <2> QED
    BY <2>2, <2>3
<1> QED
  BY <1>1, InvariantHolds, UndisturbedHolds, PTL

\* No row is in a table twice: no two valid rows with one key, whatever happens,
\* and no row of a file twice among the invalid ones as long as no file is
\* changed, since the rows of a file then carry one checksum, with one record.
THEOREM NoDuplicates == Spec => []NoDuplicateRows
<1>1. IInv => \A r, q \in validRows : SameKey(r, q) => r = q
  BY EngineAssumption DEF IInv, TableInv, KeysApart
<1>2. ASSUME IInv, UndisturbedInv, changes = 0,
             NEW r \in invalidRows, NEW q \in invalidRows,
             r.dataset = q.dataset, r.src = q.src, r.n = q.n
      PROVE  r = q
  <2>1. ASSUME NEW t \in invalidRows
        PROVE  \E m \in metadata, k \in 1 .. MaxCalls :
                 /\ m.dataset = t.dataset /\ m.checksum = t.checksum
                 /\ WholeFile(m, ReadingOf(m.checksum), k)
    BY <1>2 DEF IInv, TableInv, WholeInv, RowsHaveRecords, Matching, UndisturbedInv, ExactInv
  <2>2. ASSUME NEW t \in invalidRows, NEW m \in metadata, NEW k,
               m.dataset = t.dataset, m.checksum = t.checksum,
               WholeFile(m, ReadingOf(m.checksum), k)
        PROVE  t.src = ReadingOf(t.checksum) /\ t.call = k
    <3>1. t \in InvalidRowsOf(m.dataset, m.checksum, k, ReadingOf(m.checksum), 0,
                              Len(Rows[ReadingOf(m.checksum)]))
      BY <2>2 DEF WholeFile, RowsUnder
    <3> QED
      BY <2>2, <3>1 DEF InvalidRowsOf, TableRowsAt
  <2>3. r.checksum = q.checksum
    <3>1. r.src = ReadingOf(r.checksum) /\ q.src = ReadingOf(q.checksum)
      BY <2>1, <2>2
    <3>2. \A c : ReadingOf(c).read = c
      BY DEF ReadingOf
    <3> QED
      BY <1>2, <3>1, <3>2
  <2>4. PICK m \in metadata, k \in 1 .. MaxCalls :
          /\ m.dataset = r.dataset /\ m.checksum = r.checksum
          /\ WholeFile(m, ReadingOf(m.checksum), k)
    BY <2>1
  <2>5. r.call = q.call
    BY <1>2, <2>2, <2>3, <2>4
  <2>6. r \in TableRow /\ q \in TableRow
    BY <1>2 DEF IInv, TypeOK
  <2> QED
    BY <1>2, <2>3, <2>5, <2>6 DEF TableRow
<1>3. IInv /\ UndisturbedInv => NoDuplicateRows
  BY <1>1, <1>2 DEF NoDuplicateRows
<1> QED
  BY <1>3, InvariantHolds, UndisturbedHolds, PTL

\* As long as no file is changed, the engine loads every file under its own
\* checksum.
THEOREM EngineImplementsExactLedger == Spec /\ [](changes = 0) => ImplementsExactLedger
<1>1. Init => Ledger!Init
  BY DEF Init, Ledger!Init
<1>2. ASSUME IInv, UndisturbedInv, changes = 0, [Next]_vars
      PROVE  [Ledger!NextExact]_(Ledger!ledger)
  <2>1. ASSUME NEW w \in Worker, pc[w] = "commit", session[w] = "up", Land(w)
        PROVE  Ledger!NextExact
    <3>1. ds(w) \in Dataset /\ checksum[w] \in Content /\ call[w] \in 1 .. MaxCalls
      BY <1>2, <2>1, AtCommit DEF IInv
    <3>2. src[w] = ReadingOf(checksum[w])
      BY <1>2, <2>1 DEF UndisturbedInv, ExactInv, ReadsDigested, Streaming
    <3>3. Ledger!Load(ds(w), checksum[w], call[w], ReadingOf(checksum[w]))
      BY <1>2, <2>1, <3>2, LandIsLoad
    <3>4. Ledger!LoadExact(ds(w), checksum[w], call[w])
      BY <3>3, LedgerData, Zenon DEF Ledger!LoadExact
    <3> QED
      BY <3>1, <3>4, Zenon DEF Ledger!NextExact, Ledger!Dataset, Dataset
  <2>2. CASE UNCHANGED tables
    BY <2>2 DEF tables, Ledger!ledger
  <2>3. (\E w \in Worker : InsertValidRow(w) \/ RecordIngestion(w)) => UNCHANGED tables
    BY DEF InsertValidRow, RecordIngestion
  <2>4. (\E p \in Path : ChangeFile(p)) \/ UNCHANGED vars => UNCHANGED tables
    BY DEF ChangeFile, vars
  <2> QED
    BY <1>2, <2>1, <2>2, <2>3, <2>4, InsertingSteps DEF Next, IInv
<1> QED
  BY <1>1, <1>2, InvariantHolds, UndisturbedHolds, PTL
     DEF Spec, ImplementsExactLedger, Ledger!SpecExact
=============================================================================
