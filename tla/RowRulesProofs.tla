--------------------------- MODULE RowRulesProofs ---------------------------
(* Proofs about RowRules, for every set of configs and every field. *)
EXTENDS RowRules, FiniteSetTheorems, WellFoundedInduction, TLAPS

----------------------------------------------------------------------------
(* First(), the first declared column *)

(* A nonempty set of positions has a least one: among the intervals that   *)
(* end in the set, one contains no other. *)
LEMMA HasLeast ==
    ASSUME NEW n \in Nat, NEW S \in SUBSET (1 .. n), S # {}
    PROVE  \E i \in S : \A j \in S : i <= j
<1> DEFINE I == 1 .. n
           T == {1 .. i : i \in S}
<1>1. T \subseteq FiniteSubsetsOf(I)
  <2>1. \A i \in S : IsFiniteSet(1 .. i)
    BY FS_Interval
  <2> QED
    BY <2>1 DEF FiniteSubsetsOf
<1>2. T # {}
  OBVIOUS
<1>3. IsWellFoundedOn(StrictSubsetOrdering(I), FiniteSubsetsOf(I))
  BY FS_Interval, FS_StrictSubsetOrderingWellFounded
<1> HIDE DEF T
<1>4. PICK x \in T : \A y \in T : ~(<<y, x>> \in StrictSubsetOrdering(I))
  BY <1>1, <1>2, <1>3, WFMin
<1>5. PICK i \in S : x = 1 .. i
  BY DEF T
<1>6. \A j \in S : 1 .. j \in T
  BY DEF T
<1>7. ASSUME NEW j \in S, ~(i <= j)
      PROVE  FALSE
  <2>1. 1 .. j \subseteq 1 .. i /\ 1 .. j # 1 .. i /\ 1 .. i \subseteq I
    BY <1>7
  <2>2. <<1 .. j, x>> \in StrictSubsetOrdering(I)
    BY <2>1, <1>5 DEF StrictSubsetOrdering
  <2> QED
    BY <2>2, <1>4, <1>6
<1> QED
  BY <1>7

LEMMA FirstIn ==
    ASSUME NEW n \in Nat, NEW S \in SUBSET (1 .. n), S # {}
    PROVE  First(S) \in S
  BY HasLeast DEF First

----------------------------------------------------------------------------
(* One field *)

LEMMA Distinct ==
    /\ None \notin Int
    /\ None \notin Formats /\ None \notin Codes
    /\ \A c \in Categories \cup Origins : c # None
  BY RowRulesAssumption

(* parse_decimal_strict() counts the digits of the number as it is written *)
(* out. *)
LEMMA DecimalWrittenOut ==
    ASSUME NEW v \in Field, NEW p \in Nat, NEW s \in Nat
    PROVE  parse_decimal_strict(v, p, s) = None <=>
             /\ v.kind \in {"number", "bit"}
             /\ Decimals(v) <= s /\ WholeDigits(v) + Decimals(v) <= p
<1>1. v.digits \in Nat /\ v.exponent \in Int
  BY DEF Field
<1>2. "TYPE_MISMATCH" # None /\ "DECIMAL_PRECISION_EXCEEDED" # None
  BY Distinct DEF Codes
<1> QED
  BY <1>1, <1>2 DEF parse_decimal_strict, Decimals, WholeDigits, Greatest

LEMMA AcceptedColumn ==
    ASSUME NEW c \in Column, Accepted(c)
    PROVE  /\ c.type \in Types
           /\ c.type \in DateTypes => c.format \in Formats /\ c.format # None
           /\ c.type = "decimal" =>
                /\ c.precision \in Nat /\ c.scale \in Nat
                /\ 0 < c.scale /\ c.scale <= c.precision
                /\ None \notin {c.precision, c.scale}
  BY Distinct DEF Accepted, Positive, Column, DateTypes

FieldCodes == Codes \ {"WRONG_COLUMN_COUNT", "NULL_VIOLATION", "AssertionError"}

(* Under an accepted column the conversion fails on no assertion, and      *)
(* gives a value to a field that means one. *)
LEMMA ConversionFollowsTheContract ==
    ASSUME NEW c \in Column, Accepted(c), NEW v \in Field
    PROVE  /\ convert_value(v, c) = None <=> Means(v, c)
           /\ convert_value(v, c) \in FieldCodes \cup {None}
<1> USE AcceptedColumn, Distinct
<1>1. CASE c.type = "string"
  BY <1>1 DEF convert_value, Means, Codes, FieldCodes, DateTypes
<1>2. CASE c.type = "integer"
  BY <1>2 DEF convert_value, Means, Codes, FieldCodes, DateTypes
<1>3. CASE c.type = "boolean"
  BY <1>3 DEF convert_value, Means, Codes, FieldCodes, DateTypes
<1>4. CASE c.type = "decimal"
  <2>1. convert_value(v, c) = parse_decimal_strict(v, c.precision, c.scale)
    BY <1>4 DEF convert_value, DateTypes
  <2>2. parse_decimal_strict(v, c.precision, c.scale)
          \in {"TYPE_MISMATCH", "DECIMAL_PRECISION_EXCEEDED", None}
    BY DEF parse_decimal_strict
  <2>3. Means(v, c) <=> /\ v.kind \in {"number", "bit"}
                        /\ Decimals(v) <= c.scale
                        /\ WholeDigits(v) + Decimals(v) <= c.precision
    BY <1>4 DEF Means
  <2> QED
    BY <1>4, <2>1, <2>2, <2>3, DecimalWrittenOut DEF Codes, FieldCodes
<1>5. CASE c.type \in DateTypes
  <2>1. convert_value(v, c) = parse_date_strict(v, c.format, c.type = "timestamp")
    BY <1>5 DEF convert_value, DateTypes
  <2>2. Means(v, c) <=> v.kind = "time" /\ v.format = c.format
    BY <1>5 DEF Means, DateTypes
  <2> QED
    BY <2>1, <2>2 DEF parse_date_strict, Codes, FieldCodes, DateTypes
<1> QED
  BY <1>1, <1>2, <1>3, <1>4, <1>5 DEF Types, DateTypes

(* A field as the generator writes it for a column. *)
Good(v, c) == v \in Field /\ v.kind # "empty" /\ convert_value(v, c) = None

LEMMA TextIsField ==
    ASSUME NEW n \in Nat
    PROVE  Text(n) \in Field /\ Text(n).kind = "text" /\ Text(n).id = n
  BY DEF Text, Value, Field

LEMMA EmptyIsField == Empty \in Field /\ Empty.kind = "empty"
  BY DEF Empty, Value, Field

LEMMA GeneratedFieldIsGood ==
    ASSUME NEW c \in Column, Accepted(c), NEW v \in valid_value(c)
    PROVE  Good(v, c)
<1> USE AcceptedColumn, Distinct
<1>1. CASE c.type = "string"
  BY <1>1, TextIsField DEF valid_value, Good, convert_value, DateTypes
<1>2. CASE c.type = "integer"
  BY <1>2 DEF valid_value, Good, convert_value, Bit, Number, Value, Field, DateTypes
<1>3. CASE c.type = "boolean"
  BY <1>3 DEF valid_value, Good, convert_value, Truth, Value, Field, DateTypes
<1>4. CASE c.type = "decimal"
  <2>1. PICK n \in {1, c.scale, c.precision} : v = Number(n, 0 - c.scale)
    BY <1>4 DEF valid_value, format_decimal, DateTypes
  <2>2. n \in Nat /\ n <= c.precision
    BY <1>4
  <2>3. /\ v \in Field /\ v.kind = "number"
        /\ v.digits = n /\ v.exponent = 0 - c.scale
    BY <1>4, <2>1, <2>2 DEF Number, Value, Field
  <2>4. Decimals(v) <= c.scale /\ WholeDigits(v) + Decimals(v) <= c.precision
    BY <1>4, <2>2, <2>3 DEF Decimals, WholeDigits
  <2>5. parse_decimal_strict(v, c.precision, c.scale) = None
    BY <1>4, <2>3, <2>4, DecimalWrittenOut
  <2> QED
    BY <1>4, <2>3, <2>5 DEF Good, convert_value, DateTypes
<1>5. CASE c.type \in DateTypes
  <2>1. v = Time(c.format)
    BY <1>5 DEF valid_value, DateTypes
  <2>2. v \in Field /\ v.kind = "time" /\ v.format = c.format
    BY <1>5, <2>1 DEF Time, Value, Field
  <2> QED
    BY <1>5, <2>2 DEF Good, convert_value, parse_date_strict, DateTypes
<1> QED
  BY <1>1, <1>2, <1>3, <1>4, <1>5 DEF Types, DateTypes

(* "not-a-number" and "not-a-date" *)
LEMMA NotANumber ==
    ASSUME NEW c \in Column, Accepted(c), c.type \in NumericTypes
    PROVE  convert_value(Text(0), c) = "TYPE_MISMATCH"
<1> USE AcceptedColumn, TextIsField
<1>1. CASE c.type \in {"integer", "boolean"}
  BY <1>1 DEF convert_value, DateTypes
<1>2. CASE c.type = "decimal"
  BY <1>2 DEF convert_value, parse_decimal_strict, DateTypes
<1> QED
  BY <1>1, <1>2 DEF NumericTypes

LEMMA NotADate ==
    ASSUME NEW c \in Column, Accepted(c), c.type \in DateTypes
    PROVE  convert_value(Text(0), c) \in {"INVALID_DATE_FORMAT", "INVALID_TIMESTAMP_FORMAT"}
  BY AcceptedColumn, TextIsField DEF convert_value, parse_date_strict, DateTypes

----------------------------------------------------------------------------
(* One row *)

Contracts(columns) ==
    columns \in Seq(Column) /\ \A i \in DOMAIN columns : Accepted(columns[i])

Blank(columns, value) ==
    {i \in DOMAIN columns : value[i].kind = "empty" /\ ~columns[i].nullable}
Wrong(columns, value) ==
    {i \in DOMAIN columns : value[i].kind # "empty" /\ convert_value(value[i], columns[i]) # None}

LEMMA RowChecked ==
    ASSUME NEW columns, Contracts(columns), NEW value \in [DOMAIN columns -> Field]
    PROVE  LET v == check_row(columns, value) IN
           /\ Blank(columns, value) # {} =>
                 v.code = "NULL_VIOLATION" /\ v.column \in Blank(columns, value)
           /\ Blank(columns, value) = {} /\ Wrong(columns, value) # {} =>
                 /\ v.column \in Wrong(columns, value)
                 /\ v.code = convert_value(value[v.column], columns[v.column])
           /\ v.code = None <=> Blank(columns, value) = {} /\ Wrong(columns, value) = {}
           /\ v.code \in FieldCodes \cup {"NULL_VIOLATION", None}
<1> DEFINE B == Blank(columns, value)
           W == Wrong(columns, value)
<1>1. DOMAIN columns = 1 .. Len(columns) /\ Len(columns) \in Nat
  BY DEF Contracts
<1>2. B \in SUBSET (1 .. Len(columns)) /\ W \in SUBSET (1 .. Len(columns))
  BY <1>1 DEF Blank, Wrong
<1>3. B # {} => First(B) \in B
  BY <1>1, <1>2, FirstIn
<1>4. W # {} => First(W) \in W
  BY <1>1, <1>2, FirstIn
<1>5. "NULL_VIOLATION" # None
  BY Distinct DEF Codes
<1>6. ASSUME NEW i \in W
      PROVE  /\ convert_value(value[i], columns[i]) # None
             /\ convert_value(value[i], columns[i]) \in FieldCodes
  <2>1. i \in DOMAIN columns /\ convert_value(value[i], columns[i]) # None
    BY DEF Wrong
  <2>2. columns[i] \in Column /\ Accepted(columns[i]) /\ value[i] \in Field
    BY <2>1 DEF Contracts
  <2> QED
    BY <2>1, <2>2, ConversionFollowsTheContract
<1>7. check_row(columns, value) =
        IF B # {} THEN [code |-> "NULL_VIOLATION", column |-> First(B)]
        ELSE IF W # {}
          THEN [code |-> convert_value(value[First(W)], columns[First(W)]), column |-> First(W)]
        ELSE [code |-> None, column |-> 0]
  BY DEF check_row, Blank, Wrong
<1> HIDE DEF B, W
<1>8. CASE B # {}
  BY <1>8, <1>3, <1>5, <1>7 DEF B, W
<1>9. CASE B = {} /\ W # {}
  BY <1>9, <1>4, <1>6, <1>7 DEF B, W
<1>10. CASE B = {} /\ W = {}
  BY <1>10, <1>7 DEF B, W
<1> QED
  BY <1>8, <1>9, <1>10

LEMMA RowDictIsRow ==
    ASSUME NEW columns \in Seq(Column), NEW names \in Seq(STRING),
           NEW fields \in Seq(Field), Len(fields) = Len(names)
    PROVE  RowDict(columns, names, fields) \in [DOMAIN columns -> Field]
<1>1. DOMAIN names = DOMAIN fields /\ \A j \in DOMAIN fields : fields[j] \in Field
  OBVIOUS
<1>2. ASSUME NEW i \in DOMAIN columns, \E j \in DOMAIN names : names[j] = columns[i].name
      PROVE  fields[CHOOSE j \in DOMAIN names : names[j] = columns[i].name] \in Field
  BY <1>1, <1>2
<1> QED
  BY <1>2, EmptyIsField DEF RowDict

(* Under the generator's own header a row is its fields. *)
LEMMA RowDictIsFields ==
    ASSUME NEW columns \in Seq(Column), AcceptedConfig(columns),
           NEW fields \in [DOMAIN columns -> Field]
    PROVE  RowDict(columns, Names(columns), fields) = fields
<1>1. DOMAIN Names(columns) = DOMAIN columns
      /\ \A i \in DOMAIN columns : Names(columns)[i] = columns[i].name
  BY DEF Names
<1>2. ASSUME NEW i \in DOMAIN columns
      PROVE  /\ \E j \in DOMAIN columns : Names(columns)[j] = columns[i].name
             /\ (CHOOSE j \in DOMAIN columns : Names(columns)[j] = columns[i].name) = i
  BY <1>1 DEF AcceptedConfig
<1> QED
  BY <1>1, <1>2 DEF RowDict

LEMMA NamesTyped ==
    ASSUME NEW columns \in Seq(Column)
    PROVE  /\ DOMAIN columns = 1 .. Len(columns) /\ Len(columns) \in Nat
           /\ Names(columns) \in Seq(STRING) /\ Len(Names(columns)) = Len(columns)
<1> DEFINE names == Names(columns)
<1>1. DOMAIN columns = 1 .. Len(columns) /\ Len(columns) \in Nat
      /\ \A i \in DOMAIN columns : columns[i] \in Column
  OBVIOUS
<1>2. \A i \in DOMAIN columns : columns[i].name \in STRING
  BY <1>1 DEF Column
<1>3. names \in [1 .. Len(columns) -> STRING]
  BY <1>1, <1>2 DEF Names
<1> HIDE DEF names
<1>4. names \in Seq(STRING) /\ Len(names) = Len(columns)
  BY <1>1, <1>3
<1> QED
  BY <1>1, <1>4 DEF names

(* What the theorem on contracts says of one row. *)
Follows(columns, value, verdict) ==
    verdict.code # "WRONG_COLUMN_COUNT" =>
      /\ verdict.code = None <=> \A i \in DOMAIN columns : Conforms(value[i], columns[i])
      /\ verdict.code = None =>
             verdict.empty = {i \in DOMAIN columns : value[i].kind = "empty" /\ columns[i].nullable}
      /\ verdict.code # None =>
             /\ ~Conforms(value[verdict.column], columns[verdict.column])
             /\ verdict.code # "AssertionError"

LEMMA JudgeFollowsTheContract ==
    ASSUME NEW columns, Contracts(columns), NEW names \in Seq(STRING), NEW fields \in Seq(Field)
    PROVE  Follows(columns, RowDict(columns, names, fields), Judge(columns, names, fields))
<1> DEFINE value == RowDict(columns, names, fields)
           checked == check_row(columns, value)
           verdict == Judge(columns, names, fields)
<1>1. CASE Len(fields) # Len(names)
  BY <1>1 DEF Judge, Follows
<1>2. CASE Len(fields) = Len(names)
  <2>1. value \in [DOMAIN columns -> Field]
    BY <1>2, RowDictIsRow DEF Contracts
  <2>2. /\ verdict.code = checked.code /\ verdict.column = checked.column
        /\ verdict.empty = IF checked.code = None THEN normalize_row(columns, value) ELSE {}
    BY <1>2 DEF Judge
  <2> HIDE DEF value
  <2>3. ASSUME NEW i \in DOMAIN columns
        PROVE  /\ convert_value(value[i], columns[i]) = None <=> Means(value[i], columns[i])
               /\ Conforms(value[i], columns[i]) <=>
                    i \notin Blank(columns, value) /\ i \notin Wrong(columns, value)
    <3>1. columns[i] \in Column /\ Accepted(columns[i]) /\ value[i] \in Field
      BY <2>1 DEF Contracts
    <3>2. convert_value(value[i], columns[i]) = None <=> Means(value[i], columns[i])
      BY <3>1, ConversionFollowsTheContract
    <3>3. columns[i].nullable \in BOOLEAN
      BY <3>1 DEF Column
    <3> QED
      BY <3>2, <3>3 DEF Conforms, Blank, Wrong
  <2>4. /\ Blank(columns, value) # {} =>
              checked.code = "NULL_VIOLATION" /\ checked.column \in Blank(columns, value)
        /\ Blank(columns, value) = {} /\ Wrong(columns, value) # {} =>
              checked.column \in Wrong(columns, value)
        /\ checked.code = None <=> Blank(columns, value) = {} /\ Wrong(columns, value) = {}
        /\ checked.code \in FieldCodes \cup {"NULL_VIOLATION", None}
    BY <2>1, RowChecked
  <2>5. Blank(columns, value) \subseteq DOMAIN columns /\ Wrong(columns, value) \subseteq DOMAIN columns
    BY DEF Blank, Wrong
  <2> HIDE DEF checked, verdict
  <2>6. checked.code = None <=> \A i \in DOMAIN columns : Conforms(value[i], columns[i])
    BY <2>3, <2>4, <2>5
  <2>7. ASSUME checked.code = None
        PROVE  normalize_row(columns, value) =
                 {i \in DOMAIN columns : value[i].kind = "empty" /\ columns[i].nullable}
    <3>1. Wrong(columns, value) = {} /\ Blank(columns, value) = {}
      BY <2>4, <2>7
    <3>2. \A i \in DOMAIN columns :
             convert_value(value[i], columns[i]) # None =>
               value[i].kind = "empty" /\ columns[i].nullable
      BY <3>1 DEF Wrong, Blank
    <3> QED
      BY <3>2 DEF normalize_row
  <2>8. checked.code # None => ~Conforms(value[checked.column], columns[checked.column])
    BY <2>3, <2>4, <2>5
  <2>9. checked.code # "AssertionError"
    BY <2>4, Distinct DEF FieldCodes, Codes
  <2> QED
    <3>1. Follows(columns, value, verdict)
      BY <2>2, <2>6, <2>7, <2>8, <2>9 DEF Follows
    <3> QED
      BY <3>1 DEF value, verdict
<1> QED
  BY <1>1, <1>2

----------------------------------------------------------------------------
(* Generated rows *)

(* A row is what its category says. *)
AsMeant(columns, row) ==
    /\ row.category # "wrong_column_count" => row.fields \in [DOMAIN columns -> Field]
    /\ row.category = None => \A i \in DOMAIN columns : Good(row.fields[i], columns[i])
    /\ row.category \in FieldCategories =>
         \E t \in Targets(columns, row.category) :
            /\ row.fields[t] = IF row.category = "missing_required" THEN Empty ELSE Text(0)
            /\ \A i \in DOMAIN columns \ {t} : Good(row.fields[i], columns[i])
    /\ row.category = "wrong_column_count" => Len(row.fields) = Len(columns) - 1

KeyIs(columns, fields, n) ==
    \A i \in DOMAIN columns : columns[i].name = "customer_id" => fields[i] = Text(n)

LEMMA ValidRowIsGood ==
    ASSUME NEW columns \in RawConfigs, Contracts(columns),
           NEW ids \in [{"order_id", "customer_id"} -> Nat], NEW row \in ValidRows(columns, ids)
    PROVE  /\ row \in [DOMAIN columns -> Field]
           /\ \A i \in DOMAIN columns : Good(row[i], columns[i])
           /\ KeyIs(columns, row, ids["customer_id"])
<1>1. row = [i \in DOMAIN columns |-> row[i]]
  BY DEF ValidRows
<1>2. ASSUME NEW i \in DOMAIN columns
      PROVE  /\ Good(row[i], columns[i])
             /\ columns[i].name = "customer_id" => row[i] = Text(ids["customer_id"])
  <2>1. columns[i] \in Column /\ Accepted(columns[i])
    BY DEF Contracts
  <2>2. IF columns[i].name \in {"order_id", "customer_id"}
          THEN row[i] = Text(ids[columns[i].name])
          ELSE row[i] \in valid_value(columns[i])
    BY DEF ValidRows
  <2>3. CASE columns[i].name \in {"order_id", "customer_id"}
    <3>1. columns[i].type = "string"
      BY <2>3, RowRulesAssumption
    <3>2. row[i] = Text(ids[columns[i].name]) /\ ids[columns[i].name] \in Nat
      BY <2>2, <2>3
    <3> QED
      BY <3>1, <3>2, TextIsField DEF Good, convert_value, DateTypes
  <2>4. CASE columns[i].name \notin {"order_id", "customer_id"}
    BY <2>1, <2>2, <2>4, GeneratedFieldIsGood
  <2> QED
    BY <2>3, <2>4
<1>3. \A i \in DOMAIN columns : row[i] \in Field
  BY <1>2 DEF Good
<1>4. row \in [DOMAIN columns -> Field]
  BY <1>1, <1>3
<1> QED
  BY <1>2, <1>4 DEF KeyIs

LEMMA SpoiltAsMeant ==
    ASSUME NEW columns, Contracts(columns), columns # <<>>, NEW row \in [DOMAIN columns -> Field],
           \A i \in DOMAIN columns : Good(row[i], columns[i]),
           NEW category \in Categories, NEW fields \in Spoilt(columns, row, category)
    PROVE  /\ fields \in Seq(Field)
           /\ AsMeant(columns, [fields |-> fields, category |-> category])
<1>1. /\ DOMAIN columns = 1 .. Len(columns) /\ Len(columns) \in Nat
      /\ row \in Seq(Field) /\ Len(row) = Len(columns)
  <2>1. DOMAIN columns = 1 .. Len(columns) /\ Len(columns) \in Nat
    BY DEF Contracts
  <2> QED
    BY <2>1
<1>2. CASE category = "wrong_column_count"
  <2>1. fields = SubSeq(row, 1, Len(row) - 1)
    BY <1>2 DEF Spoilt
  <2>2. fields \in Seq(Field) /\ Len(fields) = Len(columns) - 1
    <3>1. Len(columns) > 0
      BY <1>1 DEF Contracts
    <3> QED
      BY <1>1, <2>1, <3>1
  <2>3. AsMeant(columns, [fields |-> fields, category |-> category])
    BY <1>2, <2>2, Distinct DEF AsMeant, FieldCategories, Categories
  <2> QED
    BY <2>2, <2>3
<1>3. CASE category \in FieldCategories
  <2> DEFINE mark == IF category = "missing_required" THEN Empty ELSE Text(0)
  <2>1. PICK t \in Targets(columns, category) : fields = [row EXCEPT ![t] = mark]
    BY <1>3 DEF Spoilt, FieldCategories
  <2>2. t \in DOMAIN columns
    BY DEF Targets
  <2>3. mark \in Field
    BY TextIsField, EmptyIsField
  <2> HIDE DEF mark
  <2>4. fields \in [DOMAIN columns -> Field] /\ fields[t] = mark
        /\ \A i \in DOMAIN columns \ {t} : fields[i] = row[i]
    BY <2>1, <2>2, <2>3
  <2>5. fields \in Seq(Field)
    BY <1>1, <2>4
  <2>6. category # "wrong_column_count" /\ category # None
    BY <1>3, Distinct DEF FieldCategories
  <2> QED
    BY <2>4, <2>5, <2>6 DEF AsMeant, mark
<1> QED
  BY <1>2, <1>3 DEF Categories

LEMMA JudgeFindsCategory ==
    ASSUME NEW columns, Contracts(columns), AcceptedConfig(columns),
           NEW row \in Row(Field), AsMeant(columns, row)
    PROVE  Judge(columns, Names(columns), row.fields).code \in CodesOf(row.category)
<1> DEFINE fields == row.fields
           names == Names(columns)
           checked == check_row(columns, fields)
<1>1. /\ DOMAIN columns = 1 .. Len(columns) /\ Len(columns) \in Nat
      /\ names \in Seq(STRING) /\ Len(names) = Len(columns)
  BY NamesTyped DEF Contracts
<1>2. CASE row.category = "wrong_column_count"
  <2>1. Len(fields) = Len(columns) - 1
    BY <1>2 DEF AsMeant
  <2>2. Len(fields) # Len(names)
    <3> DEFINE n == Len(columns)
    <3>1. Len(names) = n /\ Len(fields) = n - 1 /\ n \in Nat
      BY <1>1, <2>1
    <3> HIDE DEF n, names, fields
    <3> QED
      BY <3>1
  <2> QED
    BY <1>2, <2>2 DEF Judge, CodesOf
<1>3. CASE row.category # "wrong_column_count"
  <2>1. fields \in [DOMAIN columns -> Field] /\ Len(fields) = Len(names)
    <3>1. fields \in [DOMAIN columns -> Field]
      BY <1>3 DEF AsMeant
    <3>2. Len(fields) = Len(columns)
      BY <1>1, <3>1
    <3> QED
      BY <1>1, <3>1, <3>2
  <2>2. RowDict(columns, names, fields) = fields
    BY <2>1, RowDictIsFields DEF Contracts
  <2>3. Judge(columns, names, fields).code = checked.code
    BY <2>1, <2>2 DEF Judge
  <2>4. \A i \in DOMAIN columns : columns[i] \in Column /\ Accepted(columns[i])
    BY DEF Contracts
  <2>5. CASE row.category = None
    <3>1. Blank(columns, fields) = {} /\ Wrong(columns, fields) = {}
      BY <2>5 DEF AsMeant, Good, Blank, Wrong
    <3>2. checked.code = None
      BY <2>1, <3>1, RowChecked
    <3> QED
      BY <2>3, <2>5, <3>2, Distinct DEF CodesOf, Categories, FieldCategories
  <2>6. CASE row.category \in FieldCategories
    <3>1. PICK t \in Targets(columns, row.category) :
            /\ fields[t] = IF row.category = "missing_required" THEN Empty ELSE Text(0)
            /\ \A i \in DOMAIN columns \ {t} : Good(fields[i], columns[i])
      BY <2>6 DEF AsMeant
    <3>2. t \in DOMAIN columns
      BY DEF Targets
    <3>3. CASE row.category = "missing_required"
      <4>1. t \in Blank(columns, fields)
        BY <3>1, <3>2, <3>3, EmptyIsField DEF Targets, Blank
      <4>2. checked.code = "NULL_VIOLATION"
        BY <2>1, <4>1, RowChecked
      <4> QED
        BY <2>3, <3>3, <4>2 DEF CodesOf
    <3>4. CASE row.category \in {"wrong_type", "invalid_date"}
      <4>1. fields[t] = Text(0) /\ Text(0).kind # "empty"
        BY <3>1, <3>4, TextIsField
      <4>2. convert_value(Text(0), columns[t]) \in CodesOf(row.category)
        <5>1. CASE row.category = "wrong_type"
          BY <2>4, <3>2, <5>1, NotANumber DEF Targets, CodesOf
        <5>2. CASE row.category = "invalid_date"
          BY <2>4, <3>2, <5>2, NotADate DEF Targets, CodesOf
        <5> QED
          BY <3>4, <5>1, <5>2
      <4>3. convert_value(Text(0), columns[t]) # None
        BY <3>4, <4>2, Distinct DEF CodesOf, Codes
      <4>4. Blank(columns, fields) = {}
        BY <3>1, <4>1 DEF Good, Blank
      <4>5. Wrong(columns, fields) = {t}
        BY <3>1, <3>2, <4>1, <4>3 DEF Good, Wrong
      <4>6. /\ checked.column \in Wrong(columns, fields)
            /\ checked.code = convert_value(fields[checked.column], columns[checked.column])
        BY <2>1, <4>4, <4>5, RowChecked
      <4> QED
        BY <2>3, <4>1, <4>2, <4>5, <4>6
    <3> QED
      BY <2>6, <3>3, <3>4 DEF FieldCategories
  <2> QED
    BY <1>3, <2>5, <2>6 DEF Row, Categories
<1> QED
  BY <1>2, <1>3

----------------------------------------------------------------------------
(* The inductive invariant *)

Generated == origin \in {"correlated", "customers"}
Valid(d, k) == k \in DOMAIN file[d] /\ file[d][k].category = None

(* Configs are accepted ones. *)
Configs ==
    /\ config \in [Datasets -> RawConfigs \cup {<<>>}]
    /\ \A d \in Datasets : config[d] # <<>> =>
          /\ AcceptedConfig(config[d])
          /\ \E i \in DOMAIN config[d] : config[d][i].name = "customer_id"
    /\ phase \notin {"load", "ConfigurationError"} => \A d \in Datasets : config[d] # <<>>

(* Nothing is written before the configs are there, and nothing is judged  *)
(* before the files are. *)
Stages ==
    /\ phase \in {"load", "plan", "ConfigurationError"} =>
          origin = None /\ file = [d \in Datasets |-> <<>>]
    /\ phase \in {"customers", "orders"} => Generated
    /\ phase # "judged" => verdicts = [d \in Datasets |-> <<>>]
    /\ phase = "judged" =>
          verdicts = [d \in Datasets |-> [k \in DOMAIN file[d] |->
                         Judge(config[d], header[d], file[d][k].fields)]]

Files == header \in [Datasets -> Seq(STRING)] /\ file \in [Datasets -> Seq(Row(Field))]

(* Generated rows are what their categories say, under the header of their *)
(* config; the valid ones have the number of their row, or of a valid      *)
(* customer's, for customer id. *)
RowsAsMeant ==
    Generated => \A d \in Datasets :
        /\ header[d] = Names(config[d])
        /\ \A k \in DOMAIN file[d] : AsMeant(config[d], file[d][k])

KeysAsMeant ==
    Generated =>
        /\ \A k \in DOMAIN file["customers"] : Valid("customers", k) =>
              KeyIs(config["customers"], file["customers"][k].fields, k)
        /\ \A k \in DOMAIN file["orders"] : Valid("orders", k) =>
              \E j \in Nat : /\ Valid("customers", j)
                            /\ KeyIs(config["orders"], file["orders"][k].fields, j)

IInv == Configs /\ Stages /\ Files /\ RowsAsMeant /\ KeysAsMeant

LEMMA ConfigsAreContracts ==
    ASSUME Configs, NEW d \in Datasets
    PROVE  /\ Contracts(config[d]) /\ config[d] \in Seq(Column)
           /\ config[d] # <<>> => config[d] \in RawConfigs
<1>1. config[d] \in RawConfigs \cup {<<>>}
  BY DEF Configs
<1>2. CASE config[d] = <<>>
  BY <1>2 DEF Contracts
<1>3. CASE config[d] # <<>>
  <2>1. config[d] \in RawConfigs /\ config[d] \in Seq(Column)
    BY <1>1, <1>3, RowRulesAssumption
  <2>2. \A i \in DOMAIN config[d] : Accepted(config[d][i])
    BY <1>3 DEF Configs, AcceptedConfig
  <2> QED
    BY <2>1, <2>2 DEF Contracts
<1> QED
  BY <1>2, <1>3

LEMMA InitInvariant == Init => IInv
<1> SUFFICES ASSUME Init PROVE IInv
  OBVIOUS
<1>1. origin = None /\ ~Generated
  BY Distinct DEF Init, Generated, Origins
<1> QED
  BY <1>1 DEF Init, IInv, Configs, Stages, Files, RowsAsMeant, KeysAsMeant, Datasets

LEMMA LoadConfigStep ==
    ASSUME IInv, NEW d \in Datasets, LoadConfig(d)
    PROVE  IInv'
<1>1. /\ origin = None /\ file = [e \in Datasets |-> <<>>] /\ verdicts = file
      /\ origin' = origin /\ file' = file /\ verdicts' = verdicts /\ header' = header
  BY DEF IInv, Stages, LoadConfig
<1>2. ~Generated'
  BY <1>1, Distinct DEF Generated, Origins
<1>3. PICK columns \in RawConfigs :
        /\ \E i \in DOMAIN columns : columns[i].name = "customer_id"
        /\ IF AcceptedConfig(columns)
             THEN /\ config' = [config EXCEPT ![d] = columns]
                  /\ phase' = IF d = "orders" THEN "plan" ELSE phase
             ELSE config' = config /\ phase' = "ConfigurationError"
  BY DEF LoadConfig
<1>4. phase = "load" /\ (d = "orders" => config["customers"] # <<>>)
  BY DEF LoadConfig
<1>5. Configs'
  <2>1. CASE ~AcceptedConfig(columns)
    BY <1>3, <2>1 DEF IInv, Configs
  <2>2. CASE AcceptedConfig(columns)
    <3>1. columns # <<>>
      BY <2>2 DEF AcceptedConfig
    <3>2. config' = [config EXCEPT ![d] = columns]
      BY <1>3, <2>2
    <3>3. config' \in [Datasets -> RawConfigs \cup {<<>>}]
      BY <3>2 DEF IInv, Configs
    <3>4. \A e \in Datasets : config'[e] = IF e = d THEN columns ELSE config[e]
      BY <3>2 DEF IInv, Configs
    <3>5. phase' = IF d = "orders" THEN "plan" ELSE "load"
      BY <1>3, <1>4, <2>2
    <3> QED
      BY <1>3, <1>4, <2>2, <3>1, <3>3, <3>4, <3>5 DEF IInv, Configs, Datasets
  <2> QED
    BY <2>1, <2>2
<1>6. phase' \in {"load", "plan", "ConfigurationError"}
  BY <1>3, <1>4
<1>7. Stages' /\ Files'
  BY <1>1, <1>6 DEF IInv, Stages, Files
<1> QED
  BY <1>2, <1>5, <1>7 DEF IInv, RowsAsMeant, KeysAsMeant

LEMMA PlanStep ==
    ASSUME IInv, Plan
    PROVE  IInv'
<1>1. /\ phase = "plan" /\ phase' = "customers" /\ file = [e \in Datasets |-> <<>>]
      /\ config' = config /\ file' = file /\ verdicts' = verdicts
      /\ header' = [e \in Datasets |-> Names(config[e])]
      /\ verdicts = [e \in Datasets |-> <<>>]
  BY DEF IInv, Stages, Plan
<1>2. Configs'
  BY <1>1 DEF IInv, Configs
<1>3. Stages'
  BY <1>1 DEF Stages, Generated, Plan
<1>4. Files'
  <2>1. \A e \in Datasets : Names(config[e]) \in Seq(STRING)
    BY ConfigsAreContracts, NamesTyped DEF IInv
  <2> QED
    BY <1>1, <2>1 DEF IInv, Files
<1>5. RowsAsMeant' /\ KeysAsMeant'
  <2>1. \A e \in Datasets : header'[e] = Names(config'[e]) /\ DOMAIN file'[e] = {}
    BY <1>1
  <2>2. "customers" \in Datasets /\ "orders" \in Datasets
    BY DEF Datasets
  <2> QED
    BY <2>1, <2>2 DEF RowsAsMeant, KeysAsMeant
<1> QED
  BY <1>2, <1>3, <1>4, <1>5 DEF IInv

LEMMA DoneStep ==
    ASSUME IInv, CustomersDone \/ OrdersDone
    PROVE  IInv'
<1>1. /\ phase \in {"customers", "orders"} /\ phase' \in {"judge", "ValueError", "orders"}
      /\ config' = config /\ origin' = origin /\ header' = header
      /\ file' = file /\ verdicts' = verdicts
  BY DEF CustomersDone, OrdersDone
<1>2. Configs' /\ Stages' /\ Files'
  BY <1>1 DEF IInv, Configs, Stages, Files, Generated
<1>3. RowsAsMeant' /\ KeysAsMeant'
  BY <1>1 DEF IInv, RowsAsMeant, KeysAsMeant, Generated, Valid
<1> QED
  BY <1>2, <1>3 DEF IInv

LEMMA UploadStep ==
    ASSUME IInv, Upload
    PROVE  IInv'
<1>1. /\ phase = "plan" /\ phase' = "judge" /\ origin' = "elsewhere"
      /\ config' = config /\ verdicts' = verdicts /\ verdicts = [e \in Datasets |-> <<>>]
  BY DEF IInv, Stages, Upload
<1>2. PICK d \in Datasets :
      \E names \in UNION {[1 .. n -> NamesOf(config[d])] : n \in 1 .. Len(config[d])} :
      \E width \in {Len(names) - 1, Len(names), Len(names) + 1} :
      \E fields \in [1 .. width -> IF width = Len(names) THEN Fields ELSE {Empty}] :
         /\ header' = [header EXCEPT ![d] = names]
         /\ file' = [file EXCEPT ![d] = <<[fields |-> fields, category |-> None]>>]
  BY DEF Upload
<1>3. PICK names \in UNION {[1 .. n -> NamesOf(config[d])] : n \in 1 .. Len(config[d])} :
      \E width \in {Len(names) - 1, Len(names), Len(names) + 1} :
      \E fields \in [1 .. width -> IF width = Len(names) THEN Fields ELSE {Empty}] :
         /\ header' = [header EXCEPT ![d] = names]
         /\ file' = [file EXCEPT ![d] = <<[fields |-> fields, category |-> None]>>]
  BY <1>2
<1>4. PICK n \in 1 .. Len(config[d]) : names \in [1 .. n -> NamesOf(config[d])]
  OBVIOUS
<1>5. config[d] \in Seq(Column) /\ n \in Nat /\ 0 < n
  BY <1>4, ConfigsAreContracts DEF IInv
<1>6. names \in Seq(STRING) /\ Len(names) = n
  <2>1. \A i \in DOMAIN config[d] : config[d][i] \in Column
    BY <1>5
  <2>2. NamesOf(config[d]) \subseteq STRING
    BY <2>1 DEF NamesOf, Column
  <2>3. names \in [1 .. n -> STRING]
    BY <1>4, <2>2
  <2> QED
    BY <1>5, <2>3
<1>7. PICK width \in {n - 1, n, n + 1} :
      \E fields \in [1 .. width -> IF width = n THEN Fields ELSE {Empty}] :
         /\ header' = [header EXCEPT ![d] = names]
         /\ file' = [file EXCEPT ![d] = <<[fields |-> fields, category |-> None]>>]
  BY <1>3, <1>6
<1>8. PICK fields \in [1 .. width -> IF width = n THEN Fields ELSE {Empty}] :
         /\ header' = [header EXCEPT ![d] = names]
         /\ file' = [file EXCEPT ![d] = <<[fields |-> fields, category |-> None]>>]
  BY <1>7
<1>9. fields \in Seq(Field)
  <2>1. fields \in [1 .. width -> Field] /\ width \in Nat
    BY <1>5, <1>7, <1>8, EmptyIsField, RowRulesAssumption
  <2> QED
    BY <2>1
<1>10. <<[fields |-> fields, category |-> None]>> \in Seq(Row(Field))
  <2>1. [fields |-> fields, category |-> None] \in Row(Field)
    BY <1>9 DEF Row
  <2> QED
    BY <2>1
<1>11. Files'
  BY <1>6, <1>8, <1>10 DEF IInv, Files
<1>12. ~Generated'
  BY <1>1 DEF Generated
<1>13. Configs' /\ Stages'
  BY <1>1 DEF IInv, Configs, Stages
<1> QED
  BY <1>11, <1>12, <1>13 DEF IInv, RowsAsMeant, KeysAsMeant

LEMMA JudgeStep ==
    ASSUME IInv, process_chunks
    PROVE  IInv'
<1>1. /\ phase = "judge" /\ phase' = "judged"
      /\ config' = config /\ origin' = origin /\ header' = header /\ file' = file
      /\ verdicts' = [d \in Datasets |-> [k \in DOMAIN file[d] |->
                         Judge(config[d], header[d], file[d][k].fields)]]
  BY DEF process_chunks
<1>2. Configs' /\ Stages' /\ Files'
  BY <1>1 DEF IInv, Configs, Stages, Files
<1>3. RowsAsMeant' /\ KeysAsMeant'
  BY <1>1 DEF IInv, RowsAsMeant, KeysAsMeant, Generated, Valid
<1> QED
  BY <1>2, <1>3 DEF IInv

(* The pool holds the numbers of valid customers. *)
LEMMA IdOfValid ==
    ASSUME IInv, Generated, config["customers"] # <<>>, NEW k \in Nat, Valid("customers", k)
    PROVE  IdOf(file["customers"][k]) = k
<1> DEFINE columns == config["customers"]
           i == CHOOSE n \in DOMAIN columns : columns[n].name = "customer_id"
<1>1. \E n \in DOMAIN columns : columns[n].name = "customer_id"
  BY DEF IInv, Configs, Datasets
<1>2. i \in DOMAIN columns /\ columns[i].name = "customer_id"
  BY <1>1
<1>3. KeyIs(columns, file["customers"][k].fields, k)
  BY DEF IInv, KeysAsMeant, Valid
<1>4. file["customers"][k].fields[i] = Text(k)
  BY <1>2, <1>3 DEF KeyIs
<1> QED
  BY <1>4, TextIsField DEF IdOf

LEMMA GenerateRowStep ==
    ASSUME IInv, NEW d \in Datasets, GenerateRow(d)
    PROVE  IInv'
<1> DEFINE i == Len(file[d]) + 1
           columns == config[d]
<1>1. /\ phase = d /\ phase \in {"customers", "orders"} /\ Generated
      /\ phase' = phase /\ config' = config /\ origin' = origin
      /\ header' = header /\ verdicts' = verdicts
  BY DEF IInv, Stages, GenerateRow, Datasets
<1>2. /\ columns # <<>> /\ columns \in RawConfigs /\ Contracts(columns)
      /\ config["customers"] # <<>>
  BY <1>1, ConfigsAreContracts DEF IInv, Configs, Datasets
<1>3. /\ file[d] \in Seq(Row(Field)) /\ Len(file[d]) \in Nat /\ i \in Nat
      /\ DOMAIN file[d] = 1 .. Len(file[d]) /\ i \notin DOMAIN file[d]
  <2>1. file[d] \in Seq(Row(Field))
    BY DEF IInv, Files
  <2> QED
    BY <2>1
<1>4. PICK ids \in Overrides(d, i) : \E row \in ValidRows(columns, ids) :
        IF i \in invalid[d]
          THEN \E category \in applicable_categories(columns) :
               \E fields \in Spoilt(columns, row, category) :
                 file' = [file EXCEPT ![d] = Append(@, [fields |-> fields, category |-> category])]
          ELSE file' = [file EXCEPT ![d] = Append(@, [fields |-> row, category |-> None])]
  BY DEF GenerateRow
<1>5. /\ ids \in [{"order_id", "customer_id"} -> Nat]
      /\ d = "customers" => ids["customer_id"] = i
      /\ d = "orders" => Valid("customers", ids["customer_id"])
  <2>1. PICK customer \in IF d = "customers" THEN {i}
                          ELSE {IdOf(file["customers"][k]) : k \in ValidCustomers} :
          ids = [n \in {"order_id", "customer_id"} |-> IF n = "order_id" THEN i ELSE customer]
    BY <1>4 DEF Overrides
  <2>2. CASE d = "customers"
    BY <1>3, <2>1, <2>2
  <2>3. CASE d = "orders"
    <3>1. PICK k \in ValidCustomers : customer = IdOf(file["customers"][k])
      BY <2>1, <2>3
    <3>2. file["customers"] \in Seq(Row(Field))
      BY DEF IInv, Files, Datasets
    <3>3. k \in Nat /\ Valid("customers", k)
      BY <3>1, <3>2 DEF ValidCustomers, Valid
    <3>4. customer = k
      BY <1>1, <1>2, <3>1, <3>3, IdOfValid
    <3> QED
      BY <1>3, <2>1, <2>3, <3>3, <3>4
  <2> QED
    BY <2>2, <2>3 DEF Datasets
<1> HIDE DEF i, columns
<1>6. PICK row \in ValidRows(columns, ids) :
        IF i \in invalid[d]
          THEN \E category \in applicable_categories(columns) :
               \E fields \in Spoilt(columns, row, category) :
                 file' = [file EXCEPT ![d] = Append(@, [fields |-> fields, category |-> category])]
          ELSE file' = [file EXCEPT ![d] = Append(@, [fields |-> row, category |-> None])]
  BY <1>4
<1>7. /\ row \in [DOMAIN columns -> Field]
      /\ \A n \in DOMAIN columns : Good(row[n], columns[n])
      /\ KeyIs(columns, row, ids["customer_id"])
  BY <1>2, <1>5, ValidRowIsGood
<1>8. \E new \in Row(Field) :
        /\ file' = [file EXCEPT ![d] = Append(@, new)]
        /\ AsMeant(columns, new)
        /\ new.category = None => KeyIs(columns, new.fields, ids["customer_id"])
  <2>1. CASE i \in invalid[d]
    <3>1. PICK category \in applicable_categories(columns) :
            \E fields \in Spoilt(columns, row, category) :
               file' = [file EXCEPT ![d] = Append(@, [fields |-> fields, category |-> category])]
      BY <1>6, <2>1
    <3>2. PICK fields \in Spoilt(columns, row, category) :
            file' = [file EXCEPT ![d] = Append(@, [fields |-> fields, category |-> category])]
      BY <3>1
    <3>3. category \in Categories /\ category # None
      BY Distinct DEF applicable_categories, Categories
    <3>4. fields \in Seq(Field) /\ AsMeant(columns, [fields |-> fields, category |-> category])
      BY <1>2, <1>7, <3>3, SpoiltAsMeant
    <3>5. [fields |-> fields, category |-> category] \in Row(Field)
      BY <3>3, <3>4 DEF Row
    <3> QED
      BY <3>2, <3>3, <3>4, <3>5
  <2>2. CASE i \notin invalid[d]
    <3>1. file' = [file EXCEPT ![d] = Append(@, [fields |-> row, category |-> None])]
      BY <1>6, <2>2
    <3>2. DOMAIN columns = 1 .. Len(columns) /\ Len(columns) \in Nat
      BY <1>2 DEF Contracts
    <3>3. row \in Seq(Field)
      BY <1>7, <3>2
    <3>4. [fields |-> row, category |-> None] \in Row(Field)
      BY <3>3 DEF Row
    <3>5. AsMeant(columns, [fields |-> row, category |-> None])
      BY <1>7, Distinct DEF AsMeant, FieldCategories, Categories
    <3> QED
      BY <1>7, <3>1, <3>4, <3>5
  <2> QED
    BY <2>1, <2>2
<1>9. PICK new \in Row(Field) :
        /\ file' = [file EXCEPT ![d] = Append(@, new)]
        /\ AsMeant(columns, new)
        /\ new.category = None => KeyIs(columns, new.fields, ids["customer_id"])
  BY <1>8
<1>10. /\ file' \in [Datasets -> Seq(Row(Field))]
       /\ \A e \in Datasets : e # d => file'[e] = file[e]
       /\ file'[d] = Append(file[d], new)
  BY <1>3, <1>9 DEF IInv, Files
<1>11. /\ DOMAIN file'[d] = DOMAIN file[d] \cup {i} /\ file'[d][i] = new
       /\ \A k \in DOMAIN file[d] : file'[d][k] = file[d][k]
  BY <1>3, <1>10 DEF i
<1>12. Configs' /\ Stages' /\ Files'
  BY <1>1, <1>10 DEF IInv, Configs, Stages, Files, Generated
<1>13. RowsAsMeant'
  <2>1. ASSUME NEW e \in Datasets, NEW k \in DOMAIN file'[e]
        PROVE  AsMeant(config[e], file'[e][k])
    <3>1. \A n \in DOMAIN file[e] : AsMeant(config[e], file[e][n])
      BY <1>1 DEF IInv, RowsAsMeant
    <3> QED
      BY <1>9, <1>10, <1>11, <2>1, <3>1 DEF columns
  <2> QED
    BY <1>1, <2>1 DEF IInv, RowsAsMeant
<1>14. \A k : Valid("customers", k) => Valid("customers", k)'
  BY <1>10, <1>11 DEF Valid, Datasets
<1>15. KeysAsMeant'
  <2>1. ASSUME NEW k \in DOMAIN file'["customers"], Valid("customers", k)'
        PROVE  KeyIs(config["customers"], file'["customers"][k].fields, k)
    <3>1. CASE d = "customers" /\ k = i
      BY <1>5, <1>9, <1>11, <2>1, <3>1 DEF Valid, columns
    <3>2. CASE ~(d = "customers" /\ k = i)
      <4>1. Valid("customers", k) /\ file'["customers"][k] = file["customers"][k]
        BY <1>10, <1>11, <2>1, <3>2 DEF Valid, Datasets
      <4> QED
        BY <1>1, <4>1 DEF IInv, KeysAsMeant, Valid
    <3> QED
      BY <3>1, <3>2
  <2>2. ASSUME NEW k \in DOMAIN file'["orders"], Valid("orders", k)'
        PROVE  \E j \in Nat : /\ Valid("customers", j)'
                             /\ KeyIs(config["orders"], file'["orders"][k].fields, j)
    <3>1. CASE d = "orders" /\ k = i
      BY <1>5, <1>9, <1>11, <1>14, <2>2, <3>1 DEF Valid, columns
    <3>2. CASE ~(d = "orders" /\ k = i)
      <4>1. Valid("orders", k) /\ file'["orders"][k] = file["orders"][k]
        BY <1>10, <1>11, <2>2, <3>2 DEF Valid, Datasets
      <4> QED
        BY <1>1, <1>14, <4>1 DEF IInv, KeysAsMeant, Valid
    <3> QED
      BY <3>1, <3>2
  <2> QED
    BY <1>1, <2>1, <2>2 DEF KeysAsMeant
<1> QED
  BY <1>12, <1>13, <1>15 DEF IInv

LEMMA StepInvariant == IInv /\ [Next]_vars => IInv'
<1> SUFFICES ASSUME IInv, [Next]_vars PROVE IInv'
  OBVIOUS
<1>1. CASE \E d \in Datasets : LoadConfig(d)
  BY <1>1, LoadConfigStep
<1>2. CASE \E d \in Datasets : GenerateRow(d)
  BY <1>2, GenerateRowStep
<1>3. CASE Plan
  BY <1>3, PlanStep
<1>4. CASE CustomersDone \/ OrdersDone
  BY <1>4, DoneStep
<1>5. CASE Upload
  BY <1>5, UploadStep
<1>6. CASE process_chunks
  BY <1>6, JudgeStep
<1>7. CASE UNCHANGED vars
  <2>1. /\ phase' = phase /\ config' = config /\ origin' = origin /\ header' = header
        /\ file' = file /\ verdicts' = verdicts
    BY <1>7 DEF vars
  <2> QED
    BY <2>1 DEF IInv, Configs, Stages, Files, RowsAsMeant, KeysAsMeant, Generated, Valid
<1> QED
  BY <1>1, <1>2, <1>3, <1>4, <1>5, <1>6, <1>7 DEF Next

(* Accepted configs, files of rows that are what their categories say, and *)
(* verdicts that are process_chunks()'s: the invariant behind the others.  *)
THEOREM RowsInvariant == Spec => []IInv
  BY InitInvariant, StepInvariant, PTL DEF Spec

LEMMA JudgedRow ==
    ASSUME IInv, NEW d \in Datasets, NEW k \in Judged(d)
    PROVE  /\ phase = "judged" /\ config[d] # <<>> /\ AcceptedConfig(config[d])
           /\ k \in DOMAIN file[d] /\ k \in Nat /\ file[d][k] \in Row(Field)
           /\ Verdict(d, k) = Judge(config[d], header[d], file[d][k].fields)
<1>1. phase = "judged"
  <2>1. CASE phase # "judged"
    BY <2>1 DEF IInv, Stages, Judged
  <2> QED
    BY <2>1
<1>2. verdicts[d] = [n \in DOMAIN file[d] |-> Judge(config[d], header[d], file[d][n].fields)]
  BY <1>1 DEF IInv, Stages
<1>3. file[d] \in Seq(Row(Field))
  BY DEF IInv, Files
<1> QED
  BY <1>1, <1>2, <1>3 DEF Judged, Verdict, IInv, Configs

LEMMA ContractsHold == IInv => VerdictsFollowTheContract
<1> SUFFICES ASSUME IInv, NEW d \in Datasets, NEW k \in Judged(d)
             PROVE  Follows(config[d], RowDict(config[d], header[d], file[d][k].fields), Verdict(d, k))
  BY DEF VerdictsFollowTheContract, Follows
<1>1. Verdict(d, k) = Judge(config[d], header[d], file[d][k].fields) /\ file[d][k].fields \in Seq(Field)
  BY JudgedRow DEF Row
<1>2. Contracts(config[d]) /\ header[d] \in Seq(STRING)
  BY ConfigsAreContracts DEF IInv, Files
<1> QED
  BY <1>1, <1>2, JudgeFollowsTheContract

(* For every config that is accepted and every file: an accepted row       *)
(* conforms to its contract and keeps its values, a rejected one does not, *)
(* at the column named (check_row(), normalize_row(), convert_value()).    *)
THEOREM VerdictsAreRight == Spec => []VerdictsFollowTheContract
  BY RowsInvariant, ContractsHold, PTL

LEMMA CategoryFound ==
    ASSUME IInv, Generated, NEW d \in Datasets, NEW k \in Judged(d)
    PROVE  Verdict(d, k).code \in CodesOf(file[d][k].category)
<1>1. AsMeant(config[d], file[d][k]) /\ header[d] = Names(config[d])
  BY JudgedRow DEF IInv, RowsAsMeant
<1>2. Contracts(config[d])
  BY ConfigsAreContracts DEF IInv
<1> QED
  BY <1>1, <1>2, JudgedRow, JudgeFindsCategory

LEMMA CategoriesHold == IInv => CategoriesAreFound
<1>1. origin \in {"correlated", "customers"} <=> Generated
  BY DEF Generated
<1> QED
  BY <1>1, CategoryFound DEF CategoriesAreFound

(* Generator and engine agree on every row, for every config that is       *)
(* accepted (generate_rows() against check_row()).                         *)
THEOREM CategoriesFound == Spec => []CategoriesAreFound
  BY RowsInvariant, CategoriesHold, PTL

LEMMA AcceptedIsValid ==
    ASSUME IInv, Generated, NEW d \in Datasets, NEW k \in Judged(d)
    PROVE  Verdict(d, k).code = None <=> Valid(d, k)
<1>1. Verdict(d, k).code \in CodesOf(file[d][k].category)
  BY CategoryFound
<1>2. k \in DOMAIN file[d] /\ file[d][k].category \in Categories \cup {None}
  BY JudgedRow DEF Row
<1>3. CASE file[d][k].category = None
  BY <1>1, <1>2, <1>3, Distinct DEF CodesOf, Valid, Categories, FieldCategories
<1>4. CASE file[d][k].category \in Categories
  <2>1. CodesOf(file[d][k].category) \subseteq Codes
    BY <1>4 DEF CodesOf, Codes, Categories, FieldCategories
  <2> QED
    BY <1>1, <1>4, <2>1, Distinct DEF Valid
<1> QED
  BY <1>2, <1>3, <1>4

(* The customer id of a valid row is the text it was given. *)
LEMMA IdOfRow ==
    ASSUME IInv, Generated, NEW d \in Datasets, NEW k \in Judged(d), Valid(d, k),
           NEW n \in Nat, KeyIs(config[d], file[d][k].fields, n)
    PROVE  IdIn(d, "customer_id", k) = n
<1> DEFINE i == CHOOSE m \in DOMAIN config[d] : config[d][m].name = "customer_id"
<1>1. \E m \in DOMAIN config[d] : config[d][m].name = "customer_id"
  BY JudgedRow DEF IInv, Configs
<1>2. i \in DOMAIN config[d] /\ config[d][i].name = "customer_id"
  BY <1>1
<1>3. file[d][k].fields \in [DOMAIN config[d] -> Field] /\ header[d] = Names(config[d])
  BY JudgedRow, Distinct DEF IInv, RowsAsMeant, AsMeant, Valid, Categories
<1>4. RowDict(config[d], header[d], file[d][k].fields) = file[d][k].fields
  BY <1>3, JudgedRow, ConfigsAreContracts, RowDictIsFields DEF IInv
<1>5. file[d][k].fields[i] = Text(n)
  BY <1>2 DEF KeyIs
<1> QED
  BY <1>4, <1>5, TextIsField DEF IdIn

LEMMA ConstraintsHold == IInv => PairsMeetTheConstraints
<1> SUFFICES ASSUME IInv, origin = "correlated" PROVE PairsMeetTheConstraints
  BY DEF PairsMeetTheConstraints
<1>1. Generated /\ "customers" \in Datasets /\ "orders" \in Datasets
  BY DEF Generated, Datasets
<1>2. ASSUME NEW k \in Judged("customers"), Valid("customers", k)
      PROVE  IdIn("customers", "customer_id", k) = k
  <2>1. k \in Nat /\ k \in DOMAIN file["customers"]
    BY <1>1, JudgedRow
  <2>2. KeyIs(config["customers"], file["customers"][k].fields, k)
    BY <1>1, <1>2, <2>1 DEF IInv, KeysAsMeant
  <2> QED
    BY <1>1, <1>2, <2>1, <2>2, IdOfRow
<1>3. \A k \in Judged("customers") : Verdict("customers", k).code = None <=> Valid("customers", k)
  BY <1>1, AcceptedIsValid
<1>4. ASSUME NEW k \in Judged("orders"), Verdict("orders", k).code = None
      PROVE  IdIn("orders", "customer_id", k) \in AcceptedIds("customers", "customer_id")
  <2>1. Valid("orders", k) /\ k \in DOMAIN file["orders"] /\ phase = "judged"
    BY <1>1, <1>4, AcceptedIsValid, JudgedRow
  <2>2. PICK j \in Nat : /\ Valid("customers", j)
                        /\ KeyIs(config["orders"], file["orders"][k].fields, j)
    BY <1>1, <2>1 DEF IInv, KeysAsMeant
  <2>3. IdIn("orders", "customer_id", k) = j
    BY <1>1, <2>1, <2>2, IdOfRow
  <2>4. j \in Judged("customers")
    BY <1>1, <2>1, <2>2 DEF IInv, Stages, Judged, Valid
  <2>5. IdIn("customers", "customer_id", j) = j /\ Verdict("customers", j).code = None
    BY <1>2, <1>3, <2>2, <2>4
  <2> QED
    BY <2>3, <2>4, <2>5 DEF AcceptedIds
<1>5. AcceptedIds("orders", "customer_id") \subseteq AcceptedIds("customers", "customer_id")
  BY <1>4 DEF AcceptedIds
<1>6. \A j, k \in {i \in Judged("customers") : Verdict("customers", i).code = None} :
         IdIn("customers", "customer_id", j) = IdIn("customers", "customer_id", k) => j = k
  BY <1>2, <1>3
<1> QED
  BY <1>5, <1>6 DEF PairsMeetTheConstraints

(* A generated pair never breaks a constraint of the tables: customer ids  *)
(* are unique, and every accepted order's customer is an accepted one      *)
(* (generate_correlated_datasets()). *)
THEOREM PairsFit == Spec => []PairsMeetTheConstraints
  BY RowsInvariant, ConstraintsHold, PTL

Controls == /\ phase \in {"load", "plan", "customers", "orders", "judge", "judged",
                          "ConfigurationError", "ValueError"}
            /\ origin \in Origins \cup {None}
            /\ rows \in 0 .. MaxRows /\ invalid \in [Datasets -> SUBSET (1 .. MaxRows)]

LEMMA ControlsStep == Controls /\ [Next]_vars => Controls'
<1> SUFFICES ASSUME Controls, [Next]_vars PROVE Controls'
  OBVIOUS
<1>1. ASSUME NEW d \in Datasets, LoadConfig(d)
      PROVE  Controls'
  BY <1>1 DEF LoadConfig, Controls
<1>2. ASSUME NEW d \in Datasets, GenerateRow(d)
      PROVE  Controls'
  BY <1>2 DEF GenerateRow, Controls
<1>3. CASE Plan
  <2>1. rows' \in 0 .. MaxRows /\ invalid' \in [Datasets -> SUBSET (1 .. rows')]
    BY <1>3 DEF Plan
  <2>2. 1 .. rows' \subseteq 1 .. MaxRows
    BY <2>1, RowRulesAssumption
  <2>3. invalid' \in [Datasets -> SUBSET (1 .. MaxRows)]
    BY <2>1, <2>2
  <2> QED
    BY <1>3, <2>1, <2>3 DEF Plan, Controls, Origins
<1>4. CASE CustomersDone \/ OrdersDone
  BY <1>4 DEF CustomersDone, OrdersDone, Controls
<1>5. CASE Upload
  BY <1>5 DEF Upload, Controls, Origins
<1>6. CASE process_chunks
  BY <1>6 DEF process_chunks, Controls
<1>7. CASE UNCHANGED vars
  BY <1>7 DEF vars, Controls
<1> QED
  BY <1>1, <1>2, <1>3, <1>4, <1>5, <1>6, <1>7 DEF Next

(* Every variable keeps its type, whatever configs and files come.  *)
THEOREM RowTypes == Spec => []TypeOK
<1>1. Init => Controls
  BY RowRulesAssumption DEF Init, Controls, Datasets
<1>2. IInv /\ Controls => TypeOK
  <2> SUFFICES ASSUME IInv, Controls PROVE TypeOK
    OBVIOUS
  <2>1. config \in [Datasets -> Seq(Column)]
    BY ConfigsAreContracts DEF IInv, Configs
  <2> QED
    BY <2>1 DEF IInv, Files, Controls, TypeOK
<1> QED
  BY <1>1, <1>2, ControlsStep, RowsInvariant, PTL DEF Spec
=============================================================================
