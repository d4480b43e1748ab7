-------------------------- MODULE SourceRowsProofs --------------------------
(***************************************************************************)
(* For files of every length, all kinds of rows and every cut: which rows  *)
(* the stream of prepare_source() can lose.                                *)
(***************************************************************************)
EXTENDS SourceRows, TLAPS

\* Pass 2 has left out only rows that LeftOut says.
StreamInv ==
  IF phase \in {"stream", "done"}
    THEN \A i \in header + 1 .. next - 1 : i \notin passed => LeftOut(i)
    ELSE next = 1 /\ passed = {}

Inv == TypeOK /\ StreamInv

\* A sample is a sequence of rows, and shows the rows of the file but for its
\* last one.
LEMMA Samples ==
  ASSUME NEW f \in Seq(Kind), NEW s \in WholeSamples(f) \cup CutSamples(f)
  PROVE  /\ s \in Seq(Kind)
         /\ Len(s) \in 1 .. Len(f)
         /\ \A i \in 1 .. Len(s) - 1 : s[i] = f[i]
<1>1. CASE s \in WholeSamples(f)
  <2>1. PICK k \in 1 .. Len(f) - 1 : s = SubSeq(f, 1, k)
    BY <1>1 DEF WholeSamples
  <2> QED
    BY <2>1
<1>2. CASE s \in CutSamples(f)
  <2>0. PICK k \in 0 .. Len(f) - 1 :
          s \in {Append(SubSeq(f, 1, k), fragment) : fragment \in Fragments[f[k + 1]]}
    BY <1>2 DEF CutSamples
  <2>1. PICK fragment \in Fragments[f[k + 1]] : s = Append(SubSeq(f, 1, k), fragment)
    BY <2>0
  <2>2. f[k + 1] \in Kind /\ fragment \in Kind
    BY RowsAssumption
  <2>3. SubSeq(f, 1, k) \in Seq(Kind) /\ Len(SubSeq(f, 1, k)) = k
        /\ \A i \in 1 .. k : SubSeq(f, 1, k)[i] = f[i]
    BY <2>1
  <2> QED
    BY <2>1, <2>2, <2>3
<1> QED
  BY <1>1, <1>2

\* The types hold initially, and nothing is streamed yet.
LEMMA InitInv == Init => Inv
<1> SUFFICES ASSUME Init PROVE Inv
  OBVIOUS
<1>1. file \in Seq(Kind) /\ Len(file) \in Nat
  BY RowsAssumption DEF Init
<1>2. sample \in Seq(Kind)
  BY <1>1, Samples DEF Init
<1>3. truncated \in BOOLEAN /\ splitChar \in BOOLEAN /\ has_footer \in BOOLEAN
  BY Zenon DEF Init
<1>4. phase = "sample" /\ header = 0 /\ next = 1 /\ passed = {}
  BY Zenon DEF Init
<1> QED
  BY <1>1, <1>2, <1>3, <1>4 DEF Inv, TypeOK, StreamInv

\* Rows are left out one by one, and only as LeftOut says.
LEMMA StepInv == Inv /\ [Next]_vars => Inv'
<1> SUFFICES ASSUME Inv, [Next]_vars PROVE Inv'
  OBVIOUS
<1>0. Len(sample) \in Nat /\ Len(file) \in Nat
  BY DEF Inv, TypeOK
<1>1. CASE Detect
  BY <1>0, <1>1 DEF Detect, HeaderRows, Inv, TypeOK, StreamInv, input, given
<1>2. CASE Replace
  <2>1. file' \in Seq(Kind) /\ Len(file') \in Nat
    BY <1>2, RowsAssumption DEF Replace
  <2> QED
    BY <1>0, <1>2, <2>1 DEF Replace, Inv, TypeOK, StreamInv, given
<1>3. CASE Reopen
  BY <1>0, <1>3 DEF Reopen, Inv, TypeOK, StreamInv, input, given
<1>4. CASE ReadRow
  <2>1. TypeOK'
    BY <1>0, <1>4 DEF ReadRow, Inv, TypeOK, input, given
  <2>2. \A i : LeftOut(i)' = LeftOut(i)
    BY <1>4 DEF ReadRow, LeftOut, WrongCount, excluded, uncoverable, footer, FooterRows,
       RepeatedHeaderRows, UncoverableTail, UnprovableRow, raw_header, input, given
  <2>3. \A i \in header + 1 .. next' - 1 : i \notin passed' => LeftOut(i)
    BY <1>0, <1>4 DEF ReadRow, Inv, TypeOK, StreamInv
  <2> QED
    BY <1>4, <2>1, <2>2, <2>3 DEF Inv, StreamInv, ReadRow
<1>5. CASE EndOfFile
  <2>1. \A i : LeftOut(i)' = LeftOut(i)
    BY <1>5 DEF EndOfFile, LeftOut, WrongCount, excluded, uncoverable, footer, FooterRows,
       RepeatedHeaderRows, UncoverableTail, UnprovableRow, raw_header, input, given
  <2> QED
    BY <1>5, <2>1 DEF EndOfFile, Inv, TypeOK, StreamInv, input, given
<1>6. CASE UNCHANGED vars
  BY <1>6 DEF vars, input, given, Inv, TypeOK, StreamInv, LeftOut, WrongCount, excluded,
     uncoverable, footer, FooterRows, RepeatedHeaderRows, UncoverableTail, UnprovableRow,
     raw_header
<1> QED
  BY <1>1, <1>2, <1>3, <1>4, <1>5, <1>6 DEF Next

\* Every variable keeps its type, and every lost row was left out.
THEOREM StreamTypes == Spec => []Inv
  BY InitInv, StepInv, PTL DEF Spec

\* The types alone.
THEOREM StreamTypeCorrect == Spec => []TypeOK
<1>1. Inv => TypeOK
  BY DEF Inv
<1> QED
  BY <1>1, StreamTypes, PTL

\* A lost row was left out by _filtered_rows().
LEMMA MissingIsLeftOut ==
  ASSUME Inv, NEW i, Missing(i)
  PROVE  LeftOut(i)
BY DEF Inv, TypeOK, StreamInv, Missing

\* No row with the header's number of fields is lost, even if the marks of
\* pass 1 are another file's.
THEOREM WellFormedRowsNeverLost == Spec => []WellFormedRowsPass
<1>1. Inv => WellFormedRowsPass
  BY MissingIsLeftOut DEF WellFormedRowsPass, LeftOut
<1> QED
  BY <1>1, StreamTypes, PTL
-----------------------------------------------------------------------------
\* A run that does not replace the file reads what the sample shows, so the
\* theorems below say what they say of every such run.
THEOREM SampleStays ==
  ASSUME Replacements = {}
  PROVE  Spec => []SampleShows
<1>1. Init => SampleShows
  <2> SUFFICES ASSUME Init PROVE SampleShows
    OBVIOUS
  <2>1. file \in Seq(Kind)
    BY RowsAssumption DEF Init
  <2> QED
    BY <2>1, Samples DEF Init, SampleShows
<1>2. SampleShows /\ [Next]_vars => SampleShows'
  <2>1. ~Replace
    BY DEF Replace
  <2> QED
    BY <2>1 DEF Next, Detect, Reopen, ReadRow, EndOfFile, vars, input, given, SampleShows
<1> QED
  BY <1>1, <1>2, PTL DEF Spec

\* All footer marks of a truncated sample reach its last row, so none of them
\* counts; a repeated header that counts is shown whole.
LEMMA LeftOutOfTruncated ==
  ASSUME Inv, SampleShows, truncated, NEW i, Missing(i)
  PROVE  file[i] = raw_header
<1>1. LeftOut(i) /\ header \in Nat /\ i \in header + 1 .. Len(sample) /\ Len(sample) \in Nat
  <2>1. LeftOut(i)
    BY MissingIsLeftOut
  <2> QED
    BY <2>1 DEF Inv, TypeOK, LeftOut, excluded, footer, FooterRows, RepeatedHeaderRows
<1>2. i \notin footer
  <2> SUFFICES ASSUME i \in footer PROVE FALSE
    OBVIOUS
  <2>1. \A j \in i .. Len(sample) : j \in footer
    BY <1>1 DEF footer, FooterRows
  <2>2. i \in UncoverableTail(footer)
    BY <2>1 DEF UncoverableTail, UnprovableRow
  <2> QED
    BY <1>1, <2>2 DEF LeftOut, uncoverable
<1>3. i \in RepeatedHeaderRows
  BY <1>1, <1>2 DEF LeftOut, excluded
<1>4. i # Len(sample)
  <2> SUFFICES ASSUME i = Len(sample) PROVE FALSE
    OBVIOUS
  <2>1. i \in UncoverableTail(RepeatedHeaderRows)
    BY <1>1, <1>3 DEF UncoverableTail, UnprovableRow
  <2> QED
    BY <1>1, <2>1 DEF LeftOut, uncoverable
<1> QED
  BY <1>1, <1>3, <1>4 DEF RepeatedHeaderRows, SampleShows

\* In a file larger than the sample only repeated headers are lost.
THEOREM CutLoses == Spec => []CutLosesNothing
<1>1. Inv => CutLosesNothing
  BY LeftOutOfTruncated DEF CutLosesNothing
<1> QED
  BY <1>1, StreamTypes, PTL

\* Without has_footer only repeated headers are lost.
THEOREM FootersOptIn == Spec => []FootersAreOptIn
<1>1. Inv => FootersAreOptIn
  <2> SUFFICES ASSUME Inv, SampleShows, ~has_footer, ~truncated, NEW i, Missing(i)
               PROVE  file[i] = raw_header
    BY LeftOutOfTruncated DEF FootersAreOptIn
  <2>1. i \in RepeatedHeaderRows
    BY MissingIsLeftOut DEF LeftOut, excluded, footer
  <2> QED
    BY <2>1 DEF RepeatedHeaderRows, SampleShows
<1> QED
  BY <1>1, StreamTypes, PTL

\* What is lost as a footer reaches to the end of the file.
THEOREM FootersEnd == Spec => []FootersEndTheFile
<1>1. Inv => FootersEndTheFile
  <2> SUFFICES ASSUME Inv, SampleShows, ~truncated, NEW i, Missing(i), file[i] # raw_header
               PROVE  \A j \in i .. Len(file) : WrongCount(file[j])
    BY LeftOutOfTruncated DEF FootersEndTheFile
  <2>1. sample = file
    BY DEF SampleShows
  <2>2. i \in FooterRows
    BY <2>1, MissingIsLeftOut DEF LeftOut, excluded, footer, RepeatedHeaderRows
  <2> QED
    BY <2>1, <2>2 DEF FooterRows
<1> QED
  BY <1>1, StreamTypes, PTL
=============================================================================
