----------------------------- MODULE IngestData -----------------------------
(***************************************************************************)
(* The data the ingestion engine moves: the contents a CSV file can have,  *)
(* the rows they hold and the rows and records they leave in Oracle.       *)
(*                                                                         *)
(* A content stands for the bytes of a file.  sha256_file maps each        *)
(* content to a digest of its own (no SHA-256 collision), so a content     *)
(* also stands for its checksum.                                           *)
(***************************************************************************)
EXTENDS Naturals, Sequences, FiniteSets

CONSTANTS
  Content,    \* the contents a CSV file can have; also their checksums
  Key,        \* values of customer_id and of order_id
  Rows,       \* Rows[r]: the data rows that reading r yields, in file order
  MaxCalls    \* bound on the calls made of the engine

Dataset == {"customers", "orders"}

(***************************************************************************)
(* What the rows of a load come from: prepare_source finds the header's    *)
(* position, the order of the columns, the codec and the marked rows in    *)
(* one content (sample) and streams the file it opens anew (read) by them. *)
(* Read by another file's header a content loses the rows above that       *)
(* position, or has its own header and preamble taken for rows, or the     *)
(* values of one column for those of another.                              *)
(***************************************************************************)
Reading == [sample : Content, read : Content]
\* The reading of a file that stays as it is.
ReadingOf(c) == [sample |-> c, read |-> c]

(***************************************************************************)
(* A data row as check_row leaves it: valid or not, the value of its       *)
(* table's primary key, and the customer_id an order refers to (a          *)
(* customer refers to itself).                                             *)
(***************************************************************************)
Row == [valid : BOOLEAN, key : Key, ref : Key]

ASSUME RowsAssumption == Rows \in [Reading -> Seq(Row)]
ASSUME CallsAssumption == MaxCalls \in Nat

(***************************************************************************)
(* The seven values of csv_processor.models.Status.                        *)
(***************************************************************************)
Status == {"SUCCESS", "SUCCESS_WITH_INVALID_ROWS", "FILE_NOT_FOUND",
           "INVALID_FILE", "CONFIGURATION_ERROR", "DATABASE_ERROR",
           "PROCESSING_ERROR"}

Loaded == {"SUCCESS", "SUCCESS_WITH_INVALID_ROWS"}

(***************************************************************************)
(* A row of <dataset>_valid or <dataset>_invalid.  src and n say which     *)
(* row of which reading it is, call which call inserted it and checksum    *)
(* the digest that call computed.  The tables store none of these (an      *)
(* invalid row has no key at all): they tell rows apart, also two that     *)
(* hold the same data, and let the properties follow where each came from. *)
(***************************************************************************)
TableRow == [dataset : Dataset, checksum : Content, call : 0 .. MaxCalls,
             src : Reading, n : Nat \ {0}]

KeyOf(r) == Rows[r.src][r.n].key
RefOf(r) == Rows[r.src][r.n].ref

ValidIndices(r, i, j) == {n \in (i + 1) .. j : Rows[r][n].valid}
InvalidIndices(r, i, j) == {n \in (i + 1) .. j : ~Rows[r][n].valid}

TableRowsAt(d, s, k, r, N) ==
  {[dataset |-> d, checksum |-> s, call |-> k, src |-> r, n |-> n] : n \in N}

\* What rows i+1 .. j of reading r become when call k loads them under digest s.
ValidRowsOf(d, s, k, r, i, j) == TableRowsAt(d, s, k, r, ValidIndices(r, i, j))
InvalidRowsOf(d, s, k, r, i, j) == TableRowsAt(d, s, k, r, InvalidIndices(r, i, j))

(***************************************************************************)
(* A row of ingestion_metadata (id, file_name and processed_at are left    *)
(* out: the engine never reads them).                                      *)
(***************************************************************************)
Record == [dataset : Dataset, checksum : Content, total : Nat, valid : Nat,
           invalid : Nat, status : Loaded]

RecordOf(d, s, v, i) ==
  [dataset |-> d, checksum |-> s, total |-> v + i, valid |-> v, invalid |-> i,
   status |-> IF i = 0 THEN "SUCCESS" ELSE "SUCCESS_WITH_INVALID_ROWS"]

\* The UNIQUE(dataset, checksum) key of a record, and find_existing_ingestion.
Matching(M, d, s) == {m \in M : m.dataset = d /\ m.checksum = s}
=============================================================================
