------------------------------ MODULE RowRules ------------------------------
(***************************************************************************)
(* Three programs read one dataset config: the loader that accepts it, the *)
(* generator that writes rows by it, good and deliberately bad ones, and   *)
(* process_chunks() that judges every row by it.  Customers and orders are *)
(* generated together, customers alone, or a file comes from elsewhere.    *)
(*                                                                         *)
(* A field is the little its converters look at: whether it is empty, a    *)
(* number by its digits and exponent, a moment by the format it is written *)
(* in.  A config is the columns of the merged document; the checks on its  *)
(* csv block, tables, chunk size and identifiers are left out, and so is   *)
(* how a row is quoted and split again.                                    *)
(***************************************************************************)
EXTENDS Integers, Sequences, FiniteSets

CONSTANTS
    RawConfigs,  \* documents a dataset's config is loaded from
    MaxRows,     \* bound: --rows
    Fields,      \* bound: the fields of a file from elsewhere
    None         \* an attribute that is not given

Datasets == {"customers", "orders"}
Types == {"string", "integer", "decimal", "boolean", "date", "timestamp"}
Formats == {"ymd", "iso"}
FieldCategories == {"wrong_type", "invalid_date", "missing_required"}
Categories == FieldCategories \cup {"wrong_column_count"}
Codes == {"WRONG_COLUMN_COUNT", "NULL_VIOLATION", "TYPE_MISMATCH", "INVALID_DATE_FORMAT",
          "INVALID_TIMESTAMP_FORMAT", "DECIMAL_PRECISION_EXCEEDED", "AssertionError"}
Origins == {"correlated", "customers", "elsewhere"}

Column == [name : STRING, type : Types, nullable : BOOLEAN, required : BOOLEAN,
           format : Formats \cup {None}, precision : Int \cup {None}, scale : Int \cup {None}]
Row(S) == [fields : Seq(S), category : Categories \cup {None}]
Field == [kind : {"empty", "text", "number", "bit", "NaN", "truth", "time"},
          digits : Nat, exponent : Int, format : Formats \cup {None}, id : Nat]

(* The keys are strings, as in the shipped configs: the generator writes   *)
(* its structured ids whatever their type.                                 *)
ASSUME RowRulesAssumption ==
    /\ RawConfigs \subseteq Seq(Column) /\ MaxRows \in Nat /\ Fields \subseteq Field
    /\ None \notin Int \cup Formats \cup Categories \cup Codes \cup Origins
    /\ \A columns \in RawConfigs : \A i \in DOMAIN columns :
           columns[i].name \in {"customer_id", "order_id"} => columns[i].type = "string"

VARIABLES
    phase,     \* "load", "plan", "customers", "orders", "judge", or how it ended
    config,    \* the accepted columns of each dataset
    origin,    \* "correlated", "customers" or "elsewhere": how the files are made
    rows,      \* --rows
    invalid,   \* invalid_indices of each dataset
    header,    \* the names in the first row of each file
    file,      \* the rows of each file, with the category of a generated one
    verdicts   \* what process_chunks() makes of each row

vars == <<phase, config, origin, rows, invalid, header, file, verdicts>>

Init ==
    /\ phase = "load" /\ origin = None /\ rows = 0
    /\ config = [d \in Datasets |-> <<>>] /\ invalid = [d \in Datasets |-> {}]
    /\ header = config /\ file = config /\ verdicts = config

----------------------------------------------------------------------------
(* Configs *)

Names(columns) == [i \in DOMAIN columns |-> columns[i].name]
Positive(n) == n = None \/ n > 0

(* ColumnSpec and its validators. *)
Accepted(c) ==
    /\ Positive(c.precision) /\ Positive(c.scale)
    /\ c.type \in {"date", "timestamp"} => c.format # None
    /\ IF c.type = "decimal"
         THEN None \notin {c.precision, c.scale} /\ c.scale <= c.precision
         ELSE {c.precision, c.scale} = {None}

AcceptedConfig(columns) ==
    /\ columns # <<>>
    /\ \A i \in DOMAIN columns : Accepted(columns[i])
    /\ \A i, j \in DOMAIN columns : columns[i].name = columns[j].name => i = j

LoadConfig(d) ==
    /\ phase = "load" /\ config[d] = <<>>
    /\ d = "orders" => config["customers"] # <<>>
    /\ \E columns \in RawConfigs :
           /\ \E i \in DOMAIN columns : columns[i].name = "customer_id"
           /\ IF AcceptedConfig(columns)
                THEN /\ config' = [config EXCEPT ![d] = columns]
                     /\ phase' = IF d = "orders" THEN "plan" ELSE phase
                ELSE config' = config /\ phase' = "ConfigurationError"
    /\ UNCHANGED <<origin, rows, invalid, header, file, verdicts>>

----------------------------------------------------------------------------
(* The generator *)

Value(kind, digits, exponent, format, id) ==
    [kind |-> kind, digits |-> digits, exponent |-> exponent, format |-> format, id |-> id]
Empty == Value("empty", 0, 0, None, 0)
Text(id) == Value("text", 0, 0, None, id)
Bit == Value("bit", 1, 0, None, 0)       \* "0" or "1"
Truth == Value("truth", 0, 0, None, 0)   \* "true" or "false"
Number(digits, exponent) == Value("number", digits, exponent, None, 0)
Time(format) == Value("time", 0, 0, format, 0)

NumericTypes == {"integer", "decimal", "boolean"}
DateTypes == {"date", "timestamp"}

(* An integer below 10^precision, shifted right: leading zeros do not      *)
(* count, so it has one to precision digits.                               *)
format_decimal(precision, scale) == {Number(n, 0 - scale) : n \in {1, scale, precision}}

valid_value(c) ==
    CASE c.type = "string" -> {Text(0)}
      [] c.type = "integer" -> {Bit, Number(7, 0)}
      [] c.type = "decimal" -> format_decimal(c.precision, c.scale)
      [] c.type = "boolean" -> {Truth}
      [] c.type \in DateTypes -> {Time(c.format)}

(* The rows _generate_valid_row() can make; ids holds the overrides. *)
ValidRows(columns, ids) ==
    {row \in [DOMAIN columns -> UNION {valid_value(columns[i]) : i \in DOMAIN columns}
                                \cup {Text(ids[n]) : n \in DOMAIN ids}] :
        \A i \in DOMAIN columns :
            IF columns[i].name \in DOMAIN ids
              THEN row[i] = Text(ids[columns[i].name])
              ELSE row[i] \in valid_value(columns[i])}

\* Faulty variant: any column is blanked for missing_required.
TargetsAny(columns, category) ==
    {i \in DOMAIN columns :
        CASE category = "wrong_type" -> columns[i].type \in NumericTypes
          [] category = "invalid_date" -> columns[i].type \in DateTypes
          [] category = "missing_required" -> TRUE}

(* The columns a category may spoil. *)
Targets(columns, category) ==
    {i \in DOMAIN columns :
        CASE category = "wrong_type" -> columns[i].type \in NumericTypes
          [] category = "invalid_date" -> columns[i].type \in DateTypes
          [] category = "missing_required" -> ~columns[i].nullable}

applicable_categories(columns) ==
    {c \in FieldCategories : Targets(columns, c) # {}} \cup {"wrong_column_count"}

Spoilt(columns, row, category) ==
    IF category = "wrong_column_count"
      THEN {SubSeq(row, 1, Len(row) - 1)}
      ELSE {[row EXCEPT ![i] = IF category = "missing_required" THEN Empty ELSE Text(0)] :
                i \in Targets(columns, category)}

Plan ==
    /\ phase = "plan"
    /\ origin' \in {"correlated", "customers"}
    /\ rows' \in 0 .. MaxRows
    /\ invalid' \in [Datasets -> SUBSET (1 .. rows')]
    /\ Cardinality(invalid'["customers"]) = Cardinality(invalid'["orders"])
    /\ header' = [d \in Datasets |-> Names(config[d])]
    /\ phase' = "customers"
    /\ UNCHANGED <<config, file, verdicts>>

IdOf(row) == row.fields[CHOOSE i \in DOMAIN config["customers"] :
                           config["customers"][i].name = "customer_id"].id

\* Faulty variant: the orders may be of any generated customer.
AnyCustomer == {k \in DOMAIN file["customers"] : file["customers"][k].category # "wrong_column_count"}

(* valid_customer_pool, as the rows its ids are taken from. *)
ValidCustomers == {k \in DOMAIN file["customers"] : file["customers"][k].category = None}

(* The overrides of row i; a file's ids are numbered by its rows. *)
Overrides(d, i) ==
    {[n \in {"order_id", "customer_id"} |-> IF n = "order_id" THEN i ELSE customer] :
        customer \in IF d = "customers" THEN {i}
                     ELSE {IdOf(file["customers"][k]) : k \in ValidCustomers}}

GenerateRow(d) ==
    LET i == Len(file[d]) + 1
        columns == config[d]
    IN  /\ phase = d /\ i <= rows
        /\ \E ids \in Overrides(d, i) : \E row \in ValidRows(columns, ids) :
             IF i \in invalid[d]
               THEN \E category \in applicable_categories(columns) :
                    \E fields \in Spoilt(columns, row, category) :
                      file' = [file EXCEPT ![d] =
                                  Append(@, [fields |-> fields, category |-> category])]
               ELSE file' = [file EXCEPT ![d] = Append(@, [fields |-> row, category |-> None])]
        /\ UNCHANGED <<phase, config, origin, rows, invalid, header, verdicts>>

(* generate_correlated_datasets() refuses an empty pool before it writes   *)
(* anything.                                                               *)
CustomersDone ==
    /\ phase = "customers" /\ Len(file["customers"]) = rows
    /\ phase' = CASE origin = "customers" -> "judge"
                  [] origin = "correlated" /\ ValidCustomers = {} -> "ValueError"
                  [] OTHER -> "orders"
    /\ UNCHANGED <<config, origin, rows, invalid, header, file, verdicts>>

OrdersDone ==
    /\ phase = "orders" /\ Len(file["orders"]) = rows
    /\ phase' = "judge"
    /\ UNCHANGED <<config, origin, rows, invalid, header, file, verdicts>>

(* A file from elsewhere: a header prepare_source() lets pass, that is,    *)
(* the required columns and any others in any order, and one row.  Nobody  *)
(* looks at the fields of a row of another width.                          *)
Required(columns) == {columns[i].name : i \in {j \in DOMAIN columns : columns[j].required}}
NamesOf(columns) == {columns[i].name : i \in DOMAIN columns}

Upload ==
    /\ phase = "plan"
    /\ \E d \in Datasets :
       \E names \in UNION {[1 .. n -> NamesOf(config[d])] : n \in 1 .. Len(config[d])} :
       \E width \in {Len(names) - 1, Len(names), Len(names) + 1} :
       \E fields \in [1 .. width -> IF width = Len(names) THEN Fields ELSE {Empty}] :
         /\ \A i, j \in DOMAIN names : names[i] = names[j] => i = j
         /\ Required(config[d]) \subseteq {names[i] : i \in DOMAIN names}
         /\ header' = [header EXCEPT ![d] = names]
         /\ file' = [file EXCEPT ![d] = <<[fields |-> fields, category |-> None]>>]
    /\ origin' = "elsewhere" /\ phase' = "judge"
    /\ UNCHANGED <<config, rows, invalid, verdicts>>

----------------------------------------------------------------------------
(* process_chunks(), check_row() and normalize_row() *)

Greatest(a, b) == IF a > b THEN a ELSE b

\* Faulty variant: the digits as they are written, without zeros behind the point.
parse_decimal_by_digits(v, precision, scale) ==
    IF v.kind \notin {"number", "bit"} THEN "TYPE_MISMATCH"
    ELSE IF 0 - v.exponent > scale \/ v.digits > precision
           THEN "DECIMAL_PRECISION_EXCEEDED" ELSE None

parse_decimal_strict(v, precision, scale) ==
    LET value_scale == IF v.exponent >= 0 THEN 0 ELSE 0 - v.exponent
        value_precision == IF v.exponent >= 0 THEN v.digits + v.exponent
                           ELSE Greatest(v.digits, 0 - v.exponent)
    IN  IF v.kind \notin {"number", "bit"} THEN "TYPE_MISMATCH"
        ELSE IF value_scale > scale \/ value_precision > precision
               THEN "DECIMAL_PRECISION_EXCEEDED" ELSE None

parse_date_strict(v, format, is_timestamp) ==
    IF v.kind = "time" /\ v.format = format THEN None
    ELSE IF is_timestamp THEN "INVALID_TIMESTAMP_FORMAT" ELSE "INVALID_DATE_FORMAT"

(* The error of a conversion, None for a value; the assertions on the      *)
(* config are errors of their own.                                         *)
convert_value(v, c) ==
    CASE c.type = "string" -> None
      [] c.type = "integer" ->
             IF (v.kind = "bit" \/ (v.kind = "number" /\ v.exponent = 0)) THEN None ELSE "TYPE_MISMATCH"
      [] c.type = "decimal" ->
             IF None \in {c.precision, c.scale} THEN "AssertionError"
             ELSE parse_decimal_strict(v, c.precision, c.scale)
      [] c.type \in DateTypes ->
             IF c.format = None THEN "AssertionError"
             ELSE parse_date_strict(v, c.format, c.type = "timestamp")
      [] c.type = "boolean" ->
             IF v.kind \in {"truth", "bit"} THEN None ELSE "TYPE_MISMATCH"

First(s) == CHOOSE i \in s : \A j \in s : i <= j

check_row(columns, value) ==
    LET null == {i \in DOMAIN columns : value[i].kind = "empty" /\ ~columns[i].nullable}
        wrong == {i \in DOMAIN columns : /\ value[i].kind # "empty"
                                         /\ convert_value(value[i], columns[i]) # None}
    IN  IF null # {} THEN [code |-> "NULL_VIOLATION", column |-> First(null)]
        ELSE IF wrong # {}
          THEN [code |-> convert_value(value[First(wrong)], columns[First(wrong)]), column |-> First(wrong)]
        ELSE [code |-> None, column |-> 0]

(* The columns normalize_row() leaves without a value: it does not look at *)
(* the errors of the conversions.                                          *)
normalize_row(columns, value) ==
    {i \in DOMAIN columns :
        \/ (value[i].kind = "empty" /\ columns[i].nullable)
        \/ convert_value(value[i], columns[i]) # None}

(* row_dict: fields by name, and a column the file lacks is empty. *)
RowDict(columns, names, fields) ==
    [i \in DOMAIN columns |->
        IF \E j \in DOMAIN names : names[j] = columns[i].name
          THEN fields[CHOOSE j \in DOMAIN names : names[j] = columns[i].name]
          ELSE Empty]

Judge(columns, names, fields) ==
    IF Len(fields) # Len(names)
      THEN [code |-> "WRONG_COLUMN_COUNT", column |-> 0, empty |-> {}]
      ELSE LET value == RowDict(columns, names, fields)
               checked == check_row(columns, value)
           IN  [code |-> checked.code, column |-> checked.column,
                empty |-> IF checked.code = None THEN normalize_row(columns, value) ELSE {}]

process_chunks ==
    /\ phase = "judge" /\ phase' = "judged"
    /\ verdicts' = [d \in Datasets |-> [k \in DOMAIN file[d] |->
                       Judge(config[d], header[d], file[d][k].fields)]]
    /\ UNCHANGED <<config, origin, rows, invalid, header, file>>

Next ==
    \/ \E d \in Datasets : LoadConfig(d) \/ GenerateRow(d)
    \/ Plan \/ CustomersDone \/ OrdersDone \/ Upload \/ process_chunks

Spec == Init /\ [][Next]_vars

----------------------------------------------------------------------------
(* What should hold *)

(* Every variable keeps its type. *)
TypeOK ==
    /\ phase \in {"load", "plan", "customers", "orders", "judge", "judged",
                  "ConfigurationError", "ValueError"}
    /\ config \in [Datasets -> Seq(Column)]
    /\ origin \in Origins \cup {None}
    /\ rows \in 0 .. MaxRows /\ invalid \in [Datasets -> SUBSET (1 .. MaxRows)]
    /\ header \in [Datasets -> Seq(STRING)] /\ file \in [Datasets -> Seq(Row(Field))]

Verdict(d, k) == verdicts[d][k]
Judged(d) == DOMAIN verdicts[d]

(* What the generator calls a row is what the engine finds: a row without  *)
(* a category is accepted, and a spoilt one is rejected for the reason it  *)
(* was spoilt for (generate_rows() against check_row()).                   *)
CodesOf(category) ==
    CASE category = "wrong_type" -> {"TYPE_MISMATCH"}
      [] category = "invalid_date" -> {"INVALID_DATE_FORMAT", "INVALID_TIMESTAMP_FORMAT"}
      [] category = "missing_required" -> {"NULL_VIOLATION"}
      [] category = "wrong_column_count" -> {"WRONG_COLUMN_COUNT"}
      [] OTHER -> {None}

CategoriesAreFound ==
    origin \in {"correlated", "customers"} =>
        \A d \in Datasets : \A k \in Judged(d) :
            Verdict(d, k).code \in CodesOf(file[d][k].category)

(* The rows the engine accepts of a generated pair violate no constraint   *)
(* of the tables: customer ids are unique, every order has its customer    *)
(* (generate_correlated_datasets() against 05_correlation_constraints.sql).*)
IdIn(d, name, k) == RowDict(config[d], header[d], file[d][k].fields)[
                        CHOOSE i \in DOMAIN config[d] : config[d][i].name = name].id
AcceptedIds(d, name) ==
    {IdIn(d, name, k) : k \in {j \in Judged(d) : Verdict(d, j).code = None}}

PairsMeetTheConstraints ==
    origin = "correlated" =>
        /\ AcceptedIds("orders", "customer_id") \subseteq AcceptedIds("customers", "customer_id")
        /\ \A j, k \in {i \in Judged("customers") : Verdict("customers", i).code = None} :
               IdIn("customers", "customer_id", j) = IdIn("customers", "customer_id", k) => j = k

(* Whatever a file holds, an accepted row conforms to its contract and     *)
(* keeps all its values, and a rejected one does not, at the column named, *)
(* and no accepted config fails an assertion (check_row(), normalize_row() *)
(* and parse_decimal_strict() against the decimal as it is written out).   *)
WholeDigits(v) == IF v.digits + v.exponent > 0 THEN v.digits + v.exponent ELSE 0
Decimals(v) == IF v.exponent < 0 THEN 0 - v.exponent ELSE 0

Means(v, c) ==
    CASE c.type = "string" -> TRUE
      [] c.type = "integer" -> (v.kind = "bit" \/ (v.kind = "number" /\ v.exponent = 0))
      [] c.type = "boolean" -> v.kind \in {"truth", "bit"}
      [] c.type = "decimal" -> /\ v.kind \in {"number", "bit"}
                               /\ Decimals(v) <= c.scale
                               /\ WholeDigits(v) + Decimals(v) <= c.precision
      [] OTHER -> v.kind = "time" /\ v.format = c.format

Conforms(v, c) == IF v.kind = "empty" THEN c.nullable ELSE Means(v, c)

VerdictsFollowTheContract ==
    \A d \in Datasets : \A k \in Judged(d) :
        LET columns == config[d]
            value == RowDict(columns, header[d], file[d][k].fields)
            verdict == Verdict(d, k)
        IN  verdict.code # "WRONG_COLUMN_COUNT" =>
              /\ verdict.code = None <=> \A i \in DOMAIN columns : Conforms(value[i], columns[i])
              /\ verdict.code = None =>
                     verdict.empty = {i \in DOMAIN columns : value[i].kind = "empty" /\ columns[i].nullable}
              /\ verdict.code # None =>
                     /\ ~Conforms(value[verdict.column], columns[verdict.column])
                     /\ verdict.code # "AssertionError"
=============================================================================
