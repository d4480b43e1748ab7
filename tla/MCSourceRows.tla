---------------------------- MODULE MCSourceRows ----------------------------
(***************************************************************************)
(* Files of up to MaxRows rows of two fields and of fewer, and the ones    *)
(* that may replace them.                                                  *)
(***************************************************************************)
EXTENDS SourceRows, SequencesExt

CONSTANTS names, text, data, note, short, blank, MaxRows

MCKind == {names, text, data, note, short, blank}

\* names is the header; text is a row of two words that are not the columns';
\* note is a word, short a number.
MCFields == [k \in MCKind |->
  CASE k \in {names, text, data} -> 2 [] k \in {note, short} -> 1 [] k = blank -> 0]

\* Cut in its first field a row has one field; cut in its last it has all of
\* them, the last one shorter or empty.
MCFragments == [k \in MCKind |->
  CASE k = names -> {note, data, text, names}
    [] k = text -> {note, data, text, names}
    [] k = data -> {note, short, text, data}
    [] k = note -> {note, short}
    [] k = short -> {note, short}
    [] k = blank -> {blank}]

MCFile == BoundedSeq(MCKind, MaxRows)
MCReplacements == BoundedSeq({names, data}, 3)
=============================================================================
