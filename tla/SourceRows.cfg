\* All files of up to five rows, cut anywhere, and replaced between the passes.
CONSTANTS
  names = names  text = text  data = data  note = note  short = short  blank = blank
  MaxRows = 5
  Kind <- MCKind
  Fields <- MCFields
  Shaped = {names, text, note}
  Accepted = {names}
  Fragments <- MCFragments
  File <- MCFile
  Replacements <- MCReplacements
SPECIFICATION Spec
CHECK_DEADLOCK FALSE
INVARIANTS
  TypeOK
  WellFormedRowsPass
  CutLosesNothing
  FootersAreOptIn
  FootersEndTheFile
