--------------------------- MODULE IngestionLedger ---------------------------
(***************************************************************************)
(* What csv_processor promises its callers, without transactions, chunks,  *)
(* sessions or failures: a file is loaded in one indivisible step that     *)
(* adds every row of one reading of it, to its end, together with its      *)
(* ingestion_metadata record, and at most once per (dataset, checksum).    *)
(* Nothing is ever updated or deleted.                                     *)
(***************************************************************************)
EXTENDS IngestData

VARIABLES
  validRows,      \* customers_valid and orders_valid
  invalidRows,    \* customers_invalid and orders_invalid
  metadata        \* ingestion_metadata

ledger == <<validRows, invalidRows, metadata>>

Init ==
  /\ validRows = {}
  /\ invalidRows = {}
  /\ metadata = {}

\* The primary keys of the new rows are new, and distinct from each other.
FreshKeys(d, new) ==
  \A r \in new : \A q \in new \cup validRows :
    q.dataset = d /\ KeyOf(q) = KeyOf(r) => q = r

\* The customers the new orders refer to are in customers_valid.
RefsPresent(d, new) ==
  d = "orders" =>
    \A r \in new : \E q \in validRows : q.dataset = "customers" /\ KeyOf(q) = RefOf(r)

(***************************************************************************)
(* Call k loads a file whose digest is s into dataset d: all the rows of   *)
(* reading r.  r is the reading of s itself when nobody replaces the file  *)
(* while the engine works on it; LoadExact is that case.  Otherwise the    *)
(* engine promises no more than this: r may be of files of other digests,  *)
(* and of one file by the header of another.  (That metadata changes       *)
(* follows from the rest; said first, it spares TLC the stuttering steps.) *)
(***************************************************************************)
Load(d, s, k, r) ==
  LET new == ValidRowsOf(d, s, k, r, 0, Len(Rows[r]))
      bad == InvalidRowsOf(d, s, k, r, 0, Len(Rows[r]))
  IN  /\ Matching(metadata, d, s) = {}
      /\ metadata' # metadata
      /\ FreshKeys(d, new)
      /\ RefsPresent(d, new)
      /\ validRows' = validRows \cup new
      /\ invalidRows' = invalidRows \cup bad
      /\ metadata' = metadata \cup
           {RecordOf(d, s, Cardinality(ValidIndices(r, 0, Len(Rows[r]))),
                     Cardinality(InvalidIndices(r, 0, Len(Rows[r]))))}

LoadExact(d, s, k) == Load(d, s, k, ReadingOf(s))

Next ==
  \E d \in Dataset, s \in Content, k \in 1 .. MaxCalls, r \in Reading : Load(d, s, k, r)
NextExact ==
  \E d \in Dataset, s \in Content, k \in 1 .. MaxCalls : LoadExact(d, s, k)

Spec == Init /\ [][Next]_ledger
SpecExact == Init /\ [][NextExact]_ledger
=============================================================================
