---------------------------- MODULE TableSchema ----------------------------
(***************************************************************************)
(* openapi/data/db.py: the dataclass of a table; and the rows that the     *)
(* queries of openapi/db/dbmodel.py make of validated data.  SQLAlchemy    *)
(* and PostgreSQL are external: a column that an INSERT does not name gets *)
(* its default, and NOT NULL is checked.                                   *)
(***************************************************************************)
EXTENDS Fields

CONSTANTS
    Int32,          \* the amounts of the integers of 32 bits
    WithNul,        \* the texts with a character that PostgreSQL has not
    Serializes(_)   \* whether SQLAlchemy can write a value as JSON: JsonDumps

(* A column: its default is Null when it has none.  Whether that is a      *)
(* value, a callable or a container makes no difference to the field.      *)
(* A NUMERIC with a precision has a limit to its amounts.                  *)
Column(name, kind) ==
    [name |-> name, kind |-> kind, nullable |-> TRUE, default |-> Null, length |-> 0, round |-> FALSE,
     limit |-> {}, timezone |-> FALSE, members |-> {}, min |-> {}, described |-> TRUE, ops |-> <<>>]
NotNull(col) == [col EXCEPT !.nullable = FALSE]

(* The converters. *)
Converted(col) ==
    CASE col.kind = "String" -> StrField(col.name, col.min, {col.length})
      [] col.kind = "Integer" -> NumberField(col.name, {}, {}, TRUE)
      [] col.kind = "Numeric" -> DecimalField(col.name, {}, {}, col.round)
      [] col.kind = "Boolean" -> BoolField(col.name)
      [] col.kind = "DateTime" -> DateTimeField(col.name, col.timezone)
      [] col.kind = "Date" -> DateField(col.name)
      [] col.kind = "Enum" -> EnumField(col.name, col.members)
      [] col.kind = "UUID" -> UUIDField(col.name)
      [] col.kind = "JSON" ->
            JSONField(col.name, <<IF col.default[1] = "list" THEN "list" ELSE "dict", <<"any", 0>>>>)

(* info: required when the table is asked for it, and neither null nor the *)
(* default that is used will do.                                           *)
RequiredOf(col, required, useDefault) ==
    required /\ ~col.nullable /\ (useDefault => col.default = Null)

FieldOf(col, required, useDefault) ==
    [Converted(col) EXCEPT
        !.required = IF RequiredOf(col, required, useDefault) THEN "yes" ELSE "no",
        !.default = IF useDefault THEN col.default ELSE Null,
        !.described = col.described, !.ops = col.ops]

(* dataclass_from_table. *)
DataclassFromTable(table, required, useDefault) ==
    [i \in DOMAIN table |-> FieldOf(table[i], required, useDefault)]

(* A value that the field of a column returns, and a default of it.        *)
Holds(col, x) ==
    \/ x = Null
    \/ /\ ~IsNull(x)
       /\ CASE col.kind = "String" ->
                /\ x = <<"str", x[2]>> /\ x[2] \in DOMAIN Reads
                /\ ~Below(col.min \ {0}, Reads[x[2]].length)
                /\ ~Above({col.length} \ {0}, Reads[x[2]].length)
            [] col.kind = "Integer" -> x = <<"int", x[2]>> /\ x[2] \in Int
            [] col.kind = "Numeric" ->
                \/ x = NaN
                \/ x = <<"dec", x[2]>> /\ x[2] \in Int /\ (col.round => HalfEven(x[2]) = x[2])
            [] col.kind = "Boolean" -> x = <<"bool", x[2]>> /\ x[2] \in BOOLEAN
            [] col.kind = "DateTime" ->
                x = <<"datetime", x[2]>> /\ IsMoment(x[2]) /\ (col.timezone => x[2] \in Zoned)
            [] col.kind = "Date" -> x = <<"date", x[2]>> /\ IsDay(x[2])
            [] col.kind = "Enum" -> x = <<"enum", x[2]>> /\ x[2] \in col.members
            [] col.kind = "UUID" -> x = <<"str", x[2]>> /\ x[2] \in DOMAIN Reads /\ Reads[x[2]].uuid = x
            [] col.kind = "JSON" ->
                /\ x = <<IF col.default[1] = "list" THEN "list" ELSE "obj", [k \in DOMAIN x[2] |-> x[2][k]]>>
                /\ \A k \in DOMAIN x[2] : IsNull(x[2][k]) => x[2][k] = Null

(* The columns that have a converter. *)
Kinds == {"String", "Integer", "Numeric", "Boolean", "DateTime", "Date", "Enum", "UUID", "JSON"}

(* A table: its columns have names of their own, no enum has a member that *)
(* is read as null, and a default is a value of its column.                *)
IsTable(table) ==
    /\ table \in Seq(Range(table))
    /\ \A i, j \in DOMAIN table : table[i].name = table[j].name => i = j
    /\ \A i, j \in DOMAIN table : table[i].name \notin Range(table[j].ops)
    /\ \A i \in DOMAIN table :
        /\ table[i].kind \in Kinds /\ "NULL" \notin table[i].members
        /\ table[i].ops \in Seq(Range(table[i].ops))
        /\ table[i].timezone => table[i].kind = "DateTime"
        /\ Holds(table[i], table[i].default)

-----------------------------------------------------------------------------
ColumnNames(table) == {table[i].name : i \in DOMAIN table}
ColumnOf(table, n) == table[CHOOSE i \in DOMAIN table : table[i].name = n]

(* insert_query of one record. *)
InsertOne(table, data) ==
    [n \in ColumnNames(table) |-> IF n \in DOMAIN data THEN data[n] ELSE ColumnOf(table, n).default]

\* Mutant: only the columns of the first record are written.
InsertColumnsOfFirst(table, records) ==
    LET cols == DOMAIN records[1] IN
    [i \in DOMAIN records |->
        InsertOne(table, [n \in cols |-> IF n \in DOMAIN records[i] THEN records[i][n] ELSE Null])]

(* insert_query of several: a record without a column that another has     *)
(* writes null to it.                                                      *)
InsertMany(table, records) ==
    LET cols == UNION {DOMAIN records[i] : i \in DOMAIN records} IN
    [i \in DOMAIN records |->
        InsertOne(table, [n \in cols |-> IF n \in DOMAIN records[i] THEN records[i][n] ELSE Null])]

UpdateOne(row, data) == Both([n \in DOMAIN data \cap DOMAIN row |-> data[n]], row)

(* What SQLAlchemy, the driver or PostgreSQL refuse: a text with NUL, a    *)
(* number that is too large, a moment with a zone where there is none, in  *)
(* JSON what SQLAlchemy cannot write; and NULL, which None is not in JSON. *)
Unfit(col, x) ==
    CASE col.kind = "String" -> x[2] \in WithNul
      [] col.kind = "Integer" -> Amount(x) \notin Int32
      [] col.kind = "Numeric" -> IsNumber(x) /\ \E m \in col.limit : Amount(x) > m \/ Amount(x) < -m
      [] col.kind = "DateTime" -> ~col.timezone /\ x[2] \in Zoned
      [] col.kind = "JSON" -> ~Serializes(x)
      [] OTHER -> FALSE
Refused(col, x) ==
    IF x = Null THEN ~col.nullable /\ col.kind # "JSON" ELSE Unfit(col, x)
Violates(table, row) == \E i \in DOMAIN table : Refused(table[i], row[table[i].name])

(* What a SELECT gives back: moments in UTC, and Numeric as Decimal. *)
ReadBack(col, x) ==
    CASE x[1] = "datetime" /\ col.timezone -> <<"datetime", AsUtc[x[2]]>>
      [] col.kind = "Numeric" /\ IsNumber(x) -> <<"dec", Amount(x)>>
      [] OTHER -> x
Stored(table, row) == [n \in DOMAIN row |-> ReadBack(ColumnOf(table, n), row[n])]
=============================================================================
