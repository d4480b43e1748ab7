----------------------------- MODULE SourceRows -----------------------------
(***************************************************************************)
(* prepare_source() and its row stream: pass 1 reads a sample of the file  *)
(* and looks for the header, a footer and repeated headers in it; pass 2   *)
(* reads the whole file and leaves out what pass 1 marked, as far as the   *)
(* real rows confirm it.                                                   *)
(*                                                                         *)
(* A row is one of a few kinds, told apart by its number of fields and by  *)
(* whether all its fields are non-empty and non-numeric. The sample of a   *)
(* larger file ends with a fragment of a row, which may be of another kind *)
(* than the row.                                                           *)
(***************************************************************************)
EXTENDS Naturals, Sequences, FiniteSets

CONSTANTS
  Kind,        \* kinds of rows
  Fields,      \* the number of fields of a row of a kind
  Shaped,      \* kinds with only non-empty, non-numeric fields
  Accepted,    \* headers with the columns of the config, without duplicates
  Fragments,   \* the kinds a row of a kind may look like when it is cut
  File,        \* the files
  Replacements \* the files that may take its place between the passes

ASSUME RowsAssumption ==
  /\ Fields \in [Kind -> Nat]
  /\ Shaped \subseteq Kind /\ Accepted \subseteq Kind
  /\ Fragments \in [Kind -> SUBSET Kind]
  /\ File \subseteq Seq(Kind) /\ Replacements \subseteq Seq(Kind)

VARIABLES
  file,        \* the rows of the file
  sample,      \* the rows of its first SAMPLE_BYTES
  truncated,   \* sample_was_truncated
  splitChar,   \* whether the sample ends inside a character
  has_footer,  \* config.csv.has_footer
  phase,       \* where prepare_source() and its stream are, or how they ended
  header,      \* header_row_index, from 1
  next,        \* the row pass 2 reads next
  passed       \* the rows it passed on

given == <<sample, truncated, splitChar, has_footer>>
input == <<file, given>>
vars == <<input, phase, header, next, passed>>

TypeOK ==
  /\ file \in Seq(Kind) /\ sample \in Seq(Kind)
  /\ truncated \in BOOLEAN /\ splitChar \in BOOLEAN /\ has_footer \in BOOLEAN
  /\ phase \in {"sample", "rejected", "undecodable", "reopen", "failed", "stream", "done"}
  /\ header \in Nat
  /\ phase \in {"reopen", "stream", "done"} => header \in 1 .. Len(sample)
  /\ next \in 1 .. Len(file) + 1
  /\ passed \subseteq 1 .. Len(file)

\* The rows a truncated sample holds: whole ones only, or a fragment at the end.
WholeSamples(f) == {SubSeq(f, 1, k) : k \in 1 .. Len(f) - 1}

CutSamples(f) ==
  UNION {{Append(SubSeq(f, 1, k), fragment) : fragment \in Fragments[f[k + 1]]} :
           k \in 0 .. Len(f) - 1}

Init ==
  /\ file \in File
  /\ \/ truncated = FALSE /\ sample = file /\ splitChar = FALSE
     \/ truncated = TRUE /\ sample \in WholeSamples(file) /\ splitChar = FALSE
     \/ truncated = TRUE /\ sample \in CutSamples(file) /\ splitChar \in BOOLEAN
  /\ has_footer \in BOOLEAN
  /\ phase = "sample" /\ header = 0
  /\ next = 1 /\ passed = {}

-----------------------------------------------------------------------------
(***************************************************************************)
(* Pass 1: detect_header()                                                 *)
(***************************************************************************)
Positions(s, n) == {i \in 1 .. Len(s) : Fields[s[i]] = n}

\* The most common number of fields, the one seen first among equals.
IsModal(s, n) ==
  \A m \in {Fields[s[i]] : i \in 1 .. Len(s)} \ {n} :
    \/ Cardinality(Positions(s, n)) > Cardinality(Positions(s, m))
    \/ /\ Cardinality(Positions(s, n)) = Cardinality(Positions(s, m))
       /\ \E i \in Positions(s, n) : \A j \in Positions(s, m) : i < j

HeaderShaped(s, i) ==
  /\ s[i] \in Shaped
  /\ i = Len(s) \/ IsModal(SubSeq(s, i + 1, Len(s)), Fields[s[i]])

\* The first row in the shape of a header.
IsHeader(s, i) == HeaderShaped(s, i) /\ \A j \in 1 .. i - 1 : ~HeaderShaped(s, j)

raw_header == sample[header]

WrongCount(k) == Fields[k] # Fields[raw_header]

\* Faulty variant: a row with a wrong count is a footer wherever it is.
FooterAnywhere == {i \in header + 1 .. Len(sample) : WrongCount(sample[i])}

\* The rows at the sample's end, up to the last with the header's count.
FooterRows ==
  {i \in header + 1 .. Len(sample) : \A j \in i .. Len(sample) : WrongCount(sample[j])}

RepeatedHeaderRows == {i \in header + 1 .. Len(sample) : sample[i] = raw_header}

\* The sample's last row when it was truncated: it cannot be trusted.
UnprovableRow == IF truncated THEN Len(sample) ELSE Len(sample) + 1

\* Faulty variant: only the last row itself is protected.
UncoverableLast(marked) == marked \cap {UnprovableRow}

\* The unbroken run of marked rows that ends at the unprovable one.
UncoverableTail(marked) == {i \in marked : \A j \in i .. UnprovableRow : j \in marked}

\* Faulty variant: the opt-in is not asked.
FooterUnasked == FooterRows

footer == IF has_footer THEN FooterRows ELSE {}
excluded == footer \cup RepeatedHeaderRows
uncoverable == UncoverableTail(footer) \cup UncoverableTail(RepeatedHeaderRows)

-----------------------------------------------------------------------------
(***************************************************************************)
(* prepare_source()                                                        *)
(***************************************************************************)
HeaderRows == {i \in 1 .. Len(sample) : IsHeader(sample, i)}

\* Faulty variant of Detect: has_header is not asked.
DetectUnfound ==
  /\ phase = "sample" /\ ~splitChar
  /\ IF HeaderRows = {} THEN header' = 0 ELSE header' \in HeaderRows
  /\ phase' = "reopen"
  /\ UNCHANGED <<input, next, passed>>

\* A sample that ends inside a character does not decode, or is taken for
\* another encoding and rejected; so is a file without an acceptable header.
Detect ==
  /\ phase = "sample"
  /\ \/ /\ splitChar
        /\ phase' \in {"undecodable", "rejected"}
        /\ UNCHANGED header
     \/ /\ ~splitChar
        /\ \A i \in HeaderRows : sample[i] \notin Accepted
        /\ phase' = "rejected"
        /\ UNCHANGED header
     \/ /\ ~splitChar
        /\ \E i \in HeaderRows : sample[i] \in Accepted /\ header' = i
        /\ phase' = "reopen"
  /\ UNCHANGED <<input, next, passed>>

\* Another file is renamed over this one.
Replace ==
  /\ phase = "reopen"
  /\ file' \in Replacements
  /\ UNCHANGED <<given, phase, header, next, passed>>

\* Pass 2 opens the file and skips preamble and header; next(reader) raises
\* when the file is now shorter.
Reopen ==
  /\ phase = "reopen"
  /\ \/ /\ header <= Len(file)
        /\ next' = header + 1
        /\ phase' = "stream"
     \/ /\ header > Len(file)
        /\ phase' = "failed"
        /\ UNCHANGED next
  /\ UNCHANGED <<input, header, passed>>

\* Faulty variant of LeftOut: the real row is not asked.
LeftOutAsMarked(i) == i \in excluded \ uncoverable

\* A marked row is left out when the real row confirms the mark.
LeftOut(i) ==
  /\ i \in excluded \ uncoverable
  /\ WrongCount(file[i]) \/ file[i] = raw_header

\* _filtered_rows() for one row of the file that pass 2 holds open.
ReadRow ==
  /\ phase = "stream"
  /\ next <= Len(file)
  /\ passed' = IF LeftOut(next) THEN passed ELSE passed \cup {next}
  /\ next' = next + 1
  /\ UNCHANGED <<input, phase, header>>

EndOfFile ==
  /\ phase = "stream"
  /\ next > Len(file)
  /\ phase' = "done"
  /\ UNCHANGED <<input, header, next, passed>>

Next == Detect \/ Replace \/ Reopen \/ ReadRow \/ EndOfFile

Spec == Init /\ [][Next]_vars

-----------------------------------------------------------------------------
(***************************************************************************)
(* Properties                                                              *)
(***************************************************************************)
Missing(i) == i \in header + 1 .. next - 1 /\ i \notin passed

\* The sample is the start of the file that pass 2 reads.
SampleShows ==
  /\ Len(sample) \in 0 .. Len(file)
  /\ IF truncated
       THEN \A i \in 1 .. Len(sample) - 1 : sample[i] = file[i]
       ELSE sample = file

\* No row with the header's number of fields is ever lost after the header,
\* wherever the sample was cut and even if the marks are another file's: only
\* copies of the header are left out.
WellFormedRowsPass ==
  \A i \in 1 .. Len(file) : Missing(i) => WrongCount(file[i]) \/ file[i] = raw_header

\* In a file larger than the sample no malformed row is lost either: a
\* footer marked there may be a run of broken rows at the cut.
CutLosesNothing ==
  truncated /\ SampleShows =>
    \A i \in 1 .. Len(file) : Missing(i) => file[i] = raw_header

\* Without has_footer, a malformed row is never lost.
FootersAreOptIn ==
  ~has_footer /\ SampleShows =>
    \A i \in 1 .. Len(file) : Missing(i) => file[i] = raw_header

\* What is left out as a footer is the end of the file.
FootersEndTheFile ==
  SampleShows =>
    \A i \in 1 .. Len(file) :
      Missing(i) => \/ file[i] = raw_header
                    \/ \A j \in i .. Len(file) : WrongCount(file[j])
=============================================================================
