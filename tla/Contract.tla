------------------------------ MODULE Contract ------------------------------
(***************************************************************************)
(* What the OpenAPI document tells a client: the JSON schema of each class *)
(* (openapi/spec/spec.py), what JSON Schema makes of it, which is          *)
(* external, and whether the document, the validators and the table of a   *)
(* service say the same.                                                   *)
(***************************************************************************)
EXTENDS Client, FiniteSets

-----------------------------------------------------------------------------
(* The JSON schema of a type, a field, a class: a function from keywords. *)
Optional(T) == T[1] = "union" /\ \E i \in DOMAIN T[2] : T[2][i] = Prim("none")

PrimitiveTypes ==
    [str |-> [type |-> "string"], bytes |-> [type |-> "string", format |-> "binary"],
     int |-> [type |-> "integer", format |-> "int32"], float |-> [type |-> "number", format |-> "float"],
     bool |-> [type |-> "boolean"],
     date |-> [type |-> "string", format |-> "date"],
     datetime |-> [type |-> "string", format |-> "date-time"], decimal |-> [type |-> "number"]]

(* add_default. *)
DefaultJson(f) ==
    IF f.default \in {Null, <<"str", "">>} \/ f.required = "yes" \/ f.type[1] \notin {"prim", "enum"}
    THEN Nothing ELSE [default |-> IF f.default[1] = "enum" THEN <<"str", f.default[2]>> ELSE f.default]

RECURSIVE TypeJson(_, _)

(* field2json: what comes later replaces what was there. *)
FieldJson(f) ==
    LET format == IF f.format = "none" THEN Nothing ELSE [format |-> f.format]
        info == Both(DefaultJson(f), Both(format, TypeJson(f.type, f.items))) IN
    FoldLeft(LAMBDA json, v : Both(OpenApi(v), json), info, f.validators)

TypeJson(T, items) ==
    CASE T[1] \in {"list", "dict"} ->
            IF T[2] = <<"any", 0>>
            THEN IF T[1] = "list" THEN [type |-> "array", items |-> [type |-> "object"]] ELSE [type |-> "object"]
            ELSE LET of == FieldJson(AsField(T[2], items)) IN
                 IF T[1] = "list" THEN [type |-> "array", items |-> of] ELSE [type |-> "object", each |-> of]
      [] T[1] = "union" ->
            LET some == SelectSeq(T[2], LAMBDA U : U # Prim("none")) IN
            IF Len(some) = 1 THEN TypeJson(some[1], <<>>)
            ELSE [oneOf |-> {TypeJson(some[i], <<>>) : i \in DOMAIN some}]
      [] T[1] = "class" -> [ref |-> NameOf[T[2]]]
      [] T[1] = "enum" -> [type |-> "string", enum |-> T[2]]
      [] OTHER -> PrimitiveTypes[T[2]]

ClassJson(c) ==
    [type |-> "object",
     properties |-> [n \in UNION {ToSet(FieldOps(f)) : f \in Shown(c)} |->
                        FieldJson(CHOOSE f \in Shown(c) : n \in ToSet(FieldOps(f)))],
     required |-> {f.name : f \in {g \in Shown(c) :
                        g.required = "yes" \/ (g.required = "unset" /\ ~Optional(g.type))}}]

(* The schemas, as parsed_schemas returns them for the names. *)
Schemas == [c \in Classes |-> ClassJson(c)]

-----------------------------------------------------------------------------
(* JSON Schema: x is valid for the schema s of the document.  An integer   *)
(* is written as one, and "float" is what OpenAPI leaves to the reader.    *)
Limited(s, low, high, n) ==
    (low \in DOMAIN s => n >= s[low]) /\ (high \in DOMAIN s => n <= s[high])

WellFormed(format, text) ==
    CASE format = "date-time" -> Reads[text].moment[1] = "datetime" /\ text \in Zoned
      [] format = "date" -> Reads[text].moment[1] = "datetime" /\ DayOf[Reads[text].moment[2]] = text
      [] format = "uuid" -> Reads[text].uuid # Unread
      [] OTHER -> TRUE

RECURSIVE Conforms(_, _)
Conforms(s, x) ==
    IF "ref" \in DOMAIN s THEN Conforms(Schemas[parsed[s.ref]], x)
    ELSE IF "oneOf" \in DOMAIN s THEN Cardinality({o \in s.oneOf : Conforms(o, x)}) = 1
    ELSE CASE s.type = "string" ->
                /\ IsText(x)
                /\ Limited(s, "minLength", "maxLength", Reads[x[2]].length)
                /\ "enum" \in DOMAIN s => x[2] \in s.enum
                /\ "format" \in DOMAIN s => WellFormed(s.format, x[2])
           [] s.type = "integer" ->
                /\ x[1] = "int" /\ Limited(s, "minimum", "maximum", x[2])
                /\ "format" \in DOMAIN s /\ s.format = "int32" => x[2] \in Int32
           [] s.type = "number" ->
                x[1] \in {"int", "float", "dec"} /\ Limited(s, "minimum", "maximum", x[2])
           [] s.type = "boolean" -> x[1] = "bool"
           [] s.type = "array" -> x[1] = "list" /\ \A i \in DOMAIN x[2] : Conforms(s.items, x[2][i])
           [] s.type = "object" ->
                /\ x[1] = "obj"
                /\ "each" \in DOMAIN s => \A k \in DOMAIN x[2] : Conforms(s.each, x[2][k])
                /\ "properties" \in DOMAIN s =>
                    /\ s.required \subseteq DOMAIN x[2]
                    /\ \A k \in DOMAIN x[2] :
                        k \in DOMAIN s.properties /\ Conforms(s.properties[k], x[2][k])

-----------------------------------------------------------------------------
(* The serializer of a JSON column, which is that of the standard library: *)
(* it does not know the Decimals that the body was read with.              *)
RECURSIVE JsonDumps(_)
JsonDumps(x) == x[1] # "dec" /\ (x[1] \in {"list", "obj"} => \A k \in DOMAIN x[2] : JsonDumps(x[2][k]))

Sends(i, n) == n \in DOMAIN last.sent[i][2]

(* What a client can send for a column that no validator refuses, and that *)
(* is not stored: null, or the text NULL; a text with NUL; a number that   *)
(* is too large; a fraction inside JSON; a moment with a zone for a column *)
(* without; digits that make no date (OverflowError).                      *)
Breaks(col, x) ==
    \/ IsNull(x) /\ ~col.nullable /\ col.kind # "JSON"
    \/ CASE col.kind = "Numeric" -> Unfit(col, ToNumber(x))
         [] col.kind = "Integer" -> IsInt(ToNumber(x)) /\ Unfit(col, ToNumber(x))
         [] col.kind = "JSON" -> Unfit(col, JSONValue(x))
         [] col.kind \in {"Date", "DateTime"} ->
                IsText(x) /\ (Moment(x) = TooLarge \/ Unfit(col, Moment(x)))
         [] OTHER -> IsText(x) /\ Unfit(col, x)
SendsWhatBreaks ==
    \E k \in DOMAIN Table, i \in DOMAIN last.sent :
        Sends(i, Table[k].name) /\ Breaks(Table[k], last.sent[i][2][Table[k].name])

(* A client that sends what the document allows is not refused, and what   *)
(* it sends is stored: the document, the validators and the table say the  *)
(* same (spec.py:119, fields.py:262, data/db.py:181).  Whatever else it    *)
(* sends is stored or refused with the reason, in an update too: nothing   *)
(* breaks down later, also when create_list fills up the columns of each   *)
(* body with those of the others (dbmodel.py:206).  To both there are the  *)
(* exceptions of Breaks, and no others: they can be answered 500, also     *)
(* when the document allows them, as a fraction inside JSON                *)
(* (fields.py:506, db/container.py:54) or a moment with a zone.            *)
StoredOrRefused ==
    last.does \in {"create", "update"} /\ ~SendsWhatBreaks =>
        /\ last.outcome # "failed"
        /\ (\A i \in DOMAIN last.sent : Conforms([ref |-> NameOf[Body]], last.sent[i]))
            => last.outcome = "done"

(* A moment of a column without time zones has no date-time of RFC 3339,   *)
(* which the document promises for it: such tables are left out below.     *)
ZonesKept == \A i \in DOMAIN Table : Table[i].kind = "DateTime" => Table[i].timezone

RECURSIVE HasNull(_)
HasNull(x) == x = Null \/ (x[1] \in {"list", "obj"} /\ \E k \in DOMAIN x[2] : HasNull(x[2][k]))

(* What is sent back is what the document says: a value that is there is   *)
(* of its schema, and one that is missing was left out as empty            *)
(* (dump.py:46).  Left out here are the NaN that a Decimal reads, and the  *)
(* null that a list or a dict lets through (validate.py:274).              *)
ResponseIsPublished ==
    rows # <<>> /\ ZonesKept =>
        LET schema == Schemas[parsed[NameOf[Response]]] IN
        /\ \A n \in schema.required : n \in DOMAIN response \/ IsNothing(rows[1][n])
        /\ \A n \in DOMAIN response :
            response[n] = NaN \/ HasNull(response[n]) \/ Conforms(schema.properties[n], response[n])

(* A default in the document is what is stored for a field that is left    *)
(* out, alone or in a list of bodies that have it (spec.py:249,            *)
(* validate.py:232).                                                       *)
DefaultIsKept ==
    Created =>
        LET schema == Schemas[parsed[NameOf[Body]]] IN
        \A i \in DOMAIN rows, n \in DOMAIN schema.properties :
            ~Sends(i, n) /\ "default" \in DOMAIN schema.properties[n] =>
                Same(rows[i][n], schema.properties[n].default)
=============================================================================
