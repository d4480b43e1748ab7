--------------------------- MODULE MCEngineProcess ---------------------------
(***************************************************************************)
(* Small instances of EngineProcess.                                       *)
(***************************************************************************)
EXTENDS EngineInvariant, TLC

CONSTANTS w1, w2, customersCsv, ordersCsv, customersCopy,
          cMixed, cSwapped, cBad, cBad2, cTorn, cNoHeader, cPreamble, oFile, oOther, k1, k2

Valid(k, r) == [valid |-> TRUE, key |-> k, ref |-> r]
Bad == [valid |-> FALSE, key |-> k1, ref |-> k1]

Symmetry == Permutations({w1, w2})

\* Customers with an invalid row between two valid ones, the same keys in the
\* other order, customers with no valid row, a file with its columns in another
\* order that cannot be read past its second row, one without a header, one
\* below two lines of preamble, and orders for the first of the customers.
Data ==
  (cMixed :> <<Valid(k1, k1), Bad, Valid(k2, k2)>>) @@
  (cSwapped :> <<Valid(k2, k2), Valid(k1, k1)>>) @@
  (cBad :> <<Bad, Bad>>) @@
  (cBad2 :> <<Bad>>) @@
  (cTorn :> <<Valid(k1, k1), Valid(k2, k2), Bad>>) @@
  (cNoHeader :> <<Valid(k2, k2), Valid(k1, k1)>>) @@
  (cPreamble :> <<Valid(k1, k1), Valid(k2, k2)>>) @@
  (oFile :> <<Valid(k1, k1), Bad>>) @@
  (oOther :> <<Valid(k2, k1), Valid(k1, k2)>>)

\* The line of the header, the line that raises, and the order of the columns.
HeaderLine == [c \in Content |-> IF c = cNoHeader THEN 0 ELSE IF c = cPreamble THEN 3 ELSE 1]
TornLine == [c \in Content |-> IF c = cTorn THEN 4 ELSE 0]
Reordered == [c \in Content |-> c = cTorn]

\* A file by the header of a sample: its lines below that position, where its
\* own preamble and header are no valid rows, nor is a row in another order.
Lines(c) == [n \in 1 .. HeaderLine[c] |-> Bad] \o Data[c]
LinesAs(p, c) ==
  IF Reordered[p] = Reordered[c] THEN Lines(c) ELSE [n \in DOMAIN Lines(c) |-> Bad]

MCRows == [r \in Reading |->
  SubSeq(LinesAs(r.sample, r.read), HeaderLine[r.sample] + 1, Len(Lines(r.read)))]
MCOpens == [r \in Reading |->
  /\ Len(Lines(r.read)) >= HeaderLine[r.sample]
  /\ TornLine[r.read] \notin 1 .. HeaderLine[r.sample]]
MCTornAt == [r \in Reading |->
  IF TornLine[r.read] > HeaderLine[r.sample] THEN TornLine[r.read] - HeaderLine[r.sample] ELSE 0]
MCHeaderOk == [c \in Content |-> c # cNoHeader]
MCAppears == [p \in Path |->
  Content \cap IF p = ordersCsv THEN {oFile, oOther, cNoHeader}
               ELSE {cMixed, cSwapped, cBad, cBad2, cTorn, cNoHeader, cPreamble}]
MCDatasetOf == [p \in Path |-> IF p = ordersCsv THEN "orders" ELSE "customers"]
=============================================================================
