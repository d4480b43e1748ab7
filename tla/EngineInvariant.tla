--------------------------- MODULE EngineInvariant ---------------------------
(***************************************************************************)
(* The inductive invariant behind the safety properties of EngineProcess:  *)
(* what an open transaction holds at each step of its call, and how the    *)
(* transactions and the committed tables keep out of each other's way.     *)
(***************************************************************************)
EXTENDS EngineProcess

\* Where a call has read no row yet, where it has no uncommitted insert, and
\* where it streams the file.
Starting == {"hash", "connect", "lookup", "detect", "reopen"}
Quiet == Starting \cup {"idle", "done", "reread"}
Streaming == {"fetch", "valid", "invalid", "record", "commit"}

TxEmpty(w) == txValid[w] = {} /\ txInvalid[w] = {} /\ txMeta[w] = {}
ValidUpTo(w, j) == ValidRowsOf(ds(w), checksum[w], call[w], src[w], 0, j)
InvalidUpTo(w, j) == InvalidRowsOf(ds(w), checksum[w], call[w], src[w], 0, j)
OwnRecord(w) == RecordOf(ds(w), checksum[w], validCount[w], invalidCount[w])

\* The counters of a streaming call count the rows of its finished chunks.
ProgressInv(w) ==
  /\ pc[w] \in Starting => loaded[w] = 0 /\ validCount[w] = 0 /\ invalidCount[w] = 0
  /\ pc[w] \in Streaming =>
       /\ loaded[w] <= Len(rows(w))
       /\ validCount[w] = Cardinality(ValidIndices(src[w], 0, loaded[w]))
       /\ invalidCount[w] = Cardinality(InvalidIndices(src[w], 0, loaded[w]))
  /\ pc[w] \in {"record", "commit"} => loaded[w] = Len(rows(w))

\* A transaction holds exactly the rows its call has sent so far.
TxInv(w) ==
  /\ session[w] # "up" \/ pc[w] \in Quiet => TxEmpty(w)
  /\ session[w] = "up" /\ pc[w] \in Streaming =>
       /\ pc[w] \in {"fetch", "record", "commit"} => txValid[w] = ValidUpTo(w, loaded[w])
       /\ pc[w] = "valid" => /\ ValidUpTo(w, loaded[w]) \subseteq txValid[w]
                             /\ txValid[w] \subseteq ValidUpTo(w, ChunkEnd(w))
       /\ pc[w] = "invalid" => txValid[w] = ValidUpTo(w, ChunkEnd(w))
       /\ txInvalid[w] = InvalidUpTo(w, loaded[w])
       /\ txMeta[w] = IF pc[w] = "commit" THEN {OwnRecord(w)} ELSE {}

\* No two rows a transaction may commit, and no committed rows, share a key.
KeysApart ==
  /\ \A w \in Worker : \A r, q \in validRows \cup txValid[w] : SameKey(r, q) => r = q
  /\ \A w, v \in Worker : w # v =>
       \A r \in txValid[w], q \in txValid[v] : ~SameKey(r, q)

\* No two records, committed or not, share a (dataset, checksum).
SameFile(m, n) == m.dataset = n.dataset /\ m.checksum = n.checksum
RecordsApart ==
  /\ \A m, n \in metadata : SameFile(m, n) => m = n
  /\ \A w \in Worker : \A m \in txMeta[w], n \in metadata : ~SameFile(m, n)
  /\ \A w, v \in Worker : w # v => \A m \in txMeta[w], n \in txMeta[v] : ~SameFile(m, n)

\* Committed orders, and those about to be, have their customers committed.
RefsPresent == \A w \in Worker : \A r \in validRows \cup txValid[w] : ~RefMissing(r)

\* The rows under record m are those of reading r, and it counts them.
WholeFile(m, r, k) ==
  /\ RowsUnder(validRows, m.dataset, m.checksum)
       = ValidRowsOf(m.dataset, m.checksum, k, r, 0, Len(Rows[r]))
  /\ RowsUnder(invalidRows, m.dataset, m.checksum)
       = InvalidRowsOf(m.dataset, m.checksum, k, r, 0, Len(Rows[r]))
  /\ m = RecordOf(m.dataset, m.checksum, Cardinality(ValidIndices(r, 0, Len(Rows[r]))),
                  Cardinality(InvalidIndices(r, 0, Len(Rows[r]))))
RowsHaveRecords ==
  \A r \in validRows \cup invalidRows : Matching(metadata, r.dataset, r.checksum) # {}
WholeInv ==
  /\ RowsHaveRecords
  /\ \A m \in metadata : \E r \in Reading, k \in 1 .. MaxCalls : WholeFile(m, r, k)

\* A call that turned to the winner's record after ORA-00001 finds it.
WinnerIsFound ==
  \A w \in Worker : pc[w] = "reread" => Matching(metadata, ds(w), checksum[w]) # {}

CallInv == \A w \in Worker : ProgressInv(w) /\ TxInv(w)
TableInv == KeysApart /\ RecordsApart /\ RefsPresent /\ WholeInv
IInv == TypeOK /\ CallInv /\ TableInv /\ WinnerIsFound /\ ReportsAreDurable

-----------------------------------------------------------------------------
(***************************************************************************)
(* What is known besides while no file is changed, and while in addition   *)
(* no session is lost, no statement fails and no call is killed.           *)
(***************************************************************************)
\* A call finds the header of the content it has digested and streams that
\* content, and what is recorded under a checksum are the rows of its content.
ReadsDigested(w) ==
  /\ pc[w] = "hash" => checksum[w] = None
  /\ pc[w] \in Working \ {"hash"} => checksum[w] = disk[path[w]]
  /\ pc[w] \in {"reopen"} \cup Streaming => src[w] = ReadingOf(checksum[w])
ExactInv ==
  changes = 0 =>
    /\ \A w \in Worker : ReadsDigested(w)
    /\ \A m \in metadata : \E k \in 1 .. MaxCalls :
         WholeFile(m, ReadingOf(m.checksum), k)

\* Only contents with a header are streamed or recorded, a record is open only
\* until its commit, and a call for a Plain content never leaves the path that
\* ends with a record of the file: its own, an earlier or the winner's.
CalmCall(w) ==
  /\ session[w] # "lost"
  /\ txMeta[w] # {} => pc[w] = "commit"
  /\ pc[w] \in {"reopen", "reread"} \cup Streaming => HeaderOk[checksum[w]]
  /\ pc[w] = "on_structural" => ~HeaderOk[checksum[w]]
  /\ pc[w] \in {"on_oracle", "on_exception"} => ~Plain(checksum[w])
  /\ pc[w] = "done" /\ checksum[w] # None /\ Plain(checksum[w]) /\ HeaderOk[checksum[w]] =>
       \E m \in Matching(metadata, ds(w), checksum[w]) : result[w] = Recorded(m)
CalmInv ==
  faults = 0 /\ changes = 0 =>
    /\ \A w \in Worker : CalmCall(w)
    /\ \A m \in metadata : HeaderOk[m.checksum]

UndisturbedInv == ExactInv /\ CalmInv
=============================================================================
