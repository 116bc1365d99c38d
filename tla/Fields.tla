------------------------------- MODULE Fields -------------------------------
(***************************************************************************)
(* openapi/data/fields.py: the validators of the fields of a dataclass,    *)
(* what they add to the OpenAPI document, and how they dump a value.       *)
(*                                                                         *)
(* A value is a pair of its kind and what it holds: <<"str", text>>,       *)
(* <<"int", n>>, <<"float", n>> and <<"dec", n>> with n counted in halves, *)
(* <<"bool", b>>, <<"enum", text>>, <<"datetime", text>>, <<"date", text>>,*)
(* <<"list", values>>, <<"obj", function to values>>, and Null.  A UUID is *)
(* written as the text of its hexadecimal form.  What Python reads in a    *)
(* text is external.                                                       *)
(***************************************************************************)
EXTENDS Integers, SequencesExt

CONSTANTS
    Reads,      \* for each text: its length; what int, Decimal, dateutil and
                \* json read in it; its UUID; whether it is an email, a yes
    Texts,      \* the text that str makes of a value that is none
    Zoned,      \* the texts of moments with a time zone
    Midnight,   \* the texts of moments at midnight
    AsUtc,      \* the text of such a moment in UTC
    DayOf       \* the text of the day of a moment

Null == <<"null", 0>>
Unread == <<"unread", 0>>
TooLarge == <<"toolarge", 0>>           \* dateutil raises OverflowError
NaN == <<"nan", 0>>

(* A day, and a moment, as isoformat writes them: dateutil reads them.     *)
IsDay(t) ==
    /\ t \in DOMAIN Reads /\ t # "NULL"
    /\ Reads[t].moment[1] = "datetime" /\ DayOf[Reads[t].moment[2]] = t
IsMoment(t) ==
    /\ t \in DOMAIN Reads /\ t # "NULL"
    /\ Reads[t].moment = <<"datetime", t>> /\ IsDay(DayOf[t])

IsAmount(x) ==
    /\ x[1] \in {"int", "float", "dec"} => x[2] \in Int
    /\ x[1] = "nan" => x = NaN

(* What is read in a text, and what that is in UTC, is written so that it  *)
(* reads the same.                                                         *)
ASSUME ReadsAssumption ==
    /\ \A t \in DOMAIN Reads : LET read == Reads[t] IN
        /\ \/ read.moment \in {Unread, TooLarge}
           \/ read.moment = <<"datetime", read.moment[2]>> /\ IsMoment(read.moment[2])
        /\ read.uuid = Unread \/ (/\ read.uuid = <<"str", read.uuid[2]>> /\ read.uuid[2] \in DOMAIN Reads \ {"NULL"}
                                  /\ Reads[read.uuid[2]].uuid = read.uuid)
        /\ IsAmount(read.number)
    /\ \A t \in Zoned \cup Midnight :
        AsUtc[t] \in Zoned /\ AsUtc[AsUtc[t]] = AsUtc[t] /\ IsMoment(AsUtc[t])

(* What a call comes to: a value, a ValidationError with the name of its   *)
(* field, a ValidationErrors with the fields it reports, or another        *)
(* exception.                                                              *)
Ok(x) == <<"ok", x>>
Invalid(name) == <<"invalid", name>>
Wrong(names) == <<"wrong", names>>
Crash == <<"crash", 0>>

(* What comes after a call, unless it raises. *)
IfOk(outcome, Then(_)) == IF outcome[1] = "ok" THEN Then(outcome[2]) ELSE outcome

IsText(x) == x[1] = "str"
IsNull(x) == x = Null \/ x = <<"str", "NULL">>                    \* validate.is_null

\* Mutant: a limit is not a value one may have.
AboveStrictly(limits, n) == \E m \in limits : n >= m

(* A limit is a set: empty when there is none. *)
Below(limits, n) == \E m \in limits : n < m
Above(limits, n) == \E m \in limits : n > m

StrValidator(v, f, x) ==
    IF ~IsText(x) \/ Below(v.min, Reads[x[2]].length) \/ Above(v.max, Reads[x[2]].length)
    THEN Invalid(f.name) ELSE Ok(x)

EmailValidator(v, f, x) ==
    LET r == StrValidator(v, f, x) IN
    IF r[1] = "ok" /\ ~Reads[x[2]].email THEN Invalid(f.name) ELSE r

HasText(x) == IsText(x) \/ x \in DOMAIN Texts
TextOf(x) == IF IsText(x) THEN x[2] ELSE Texts[x]

(* UUID(str(value)): a number of 32 digits is one too.  What is kept of it *)
(* is its hexadecimal form.                                                *)
UUIDValidator(v, f, x) ==
    IF HasText(x) /\ Reads[TextOf(x)].uuid # Unread THEN Ok(Reads[TextOf(x)].uuid) ELSE Invalid(f.name)

(* By name: what comes out is the member, or its name for a field of       *)
(* another type.                                                           *)
EnumValidator(v, f, x) ==
    IF x[1] \in {"str", "enum"} /\ x[2] \in v.choices
    THEN Ok(<<IF f.type[1] = "enum" THEN "enum" ELSE "str", x[2]>>) ELSE Invalid(f.name)

(* The choices are a sequence, like those the code itself gives            *)
(* (cursor.py:80, offset.py:45): a set would raise TypeError for a list.   *)
Choice(v, f, x) == IF IsText(x) /\ x[2] \in v.choices THEN Ok(x) ELSE Invalid(f.name)

Moment(x) == IF IsText(x) THEN Reads[x[2]].moment ELSE x
DateValidator(v, f, x) ==
    CASE IsText(x) /\ Moment(x)[1] = "datetime" -> Ok(<<"date", DayOf[Moment(x)[2]]>>)
      [] Moment(x) = TooLarge -> Crash
      [] x[1] \in {"date", "datetime"} -> Ok(x)
      [] OTHER -> Invalid(f.name)

(* A moment without a zone is accepted for a column with one at midnight.  *)
DateTimeValidator(v, f, x) ==
    LET m == Moment(x) IN
    IF m = TooLarge THEN Crash
    ELSE IF m[1] # "datetime" THEN Invalid(f.name)
    ELSE IF ~v.timezone \/ m[2] \in Zoned THEN Ok(m)
    ELSE IF m[2] \in Midnight THEN Ok(<<"datetime", AsUtc[m[2]]>>)
    ELSE Invalid(f.name)

(* Numbers. *)
ToNumber(x) == IF IsText(x) THEN Reads[x[2]].number ELSE x
IsInt(x) == x[1] \in {"int", "bool"}
IsNumber(x) == x[1] \in {"int", "bool", "float", "dec"}
Amount(x) == IF x[1] = "bool" THEN IF x[2] THEN 2 ELSE 0 ELSE x[2]

(* A comparison with what is not a number raises TypeError, and one with a *)
(* Decimal NaN InvalidOperation: neither is caught.                        *)
BoundedNumberValidator(v, f, x) ==
    IF v.min \cup v.max = {} THEN Ok(x)
    ELSE IF ~IsNumber(x) THEN Crash
    ELSE IF Below(v.min, Amount(x)) \/ Above(v.max, Amount(x)) THEN Invalid(f.name) ELSE Ok(x)

(* round(x, 0): half to even. *)
HalfEven(n) ==
    IF n % 2 = 0 THEN n ELSE IF ((n - 1) \div 2) % 2 = 0 THEN n - 1 ELSE n + 1
Round(x) == IF IsInt(x) THEN <<"int", Amount(x)>> ELSE <<x[1], HalfEven(x[2])>>

\* Mutant: nothing is rounded.
NumberAsRead(v, f, x) ==
    IF ToNumber(x) = Unread THEN Invalid(f.name) ELSE BoundedNumberValidator(v, f, ToNumber(x))

NumberValidator(v, f, x) ==
    LET n == ToNumber(x) IN
    IF n = Unread \/ (v.round /\ ~IsNumber(n) /\ n # NaN) THEN Invalid(f.name)
    ELSE BoundedNumberValidator(v, f, IF v.round /\ n # NaN THEN Round(n) ELSE n)

IntegerValidator(v, f, x) ==
    IF IsInt(ToNumber(x)) THEN BoundedNumberValidator(v, f, ToNumber(x)) ELSE Invalid(f.name)

(* Decimal(str(x)) of what is no Decimal. *)
DecimalValidator(v, f, x) ==
    LET n == ToNumber(x) IN
    IF n[1] \notin {"int", "float", "dec", "nan"} THEN Invalid(f.name)
    ELSE NumberValidator(v, f, IF n = NaN THEN n ELSE <<"dec", n[2]>>)

(* str2bool: whatever is not one of the yes values is False. *)
Str2Bool(x) ==
    <<"bool", x \in {<<"bool", TRUE>>, <<"int", 2>>} \/ (IsText(x) /\ Reads[x[2]].yes)>>

JSONValue(x) == IF IsText(x) /\ Reads[x[2]].json # Unread THEN Reads[x[2]].json ELSE x

Call(v, f, x) ==
    CASE v.is = "str" -> StrValidator(v, f, x)
      [] v.is = "email" -> EmailValidator(v, f, x)
      [] v.is = "uuid" -> UUIDValidator(v, f, x)
      [] v.is = "enum" -> EnumValidator(v, f, x)
      [] v.is = "choice" -> Choice(v, f, x)
      [] v.is = "date" -> DateValidator(v, f, x)
      [] v.is = "datetime" -> DateTimeValidator(v, f, x)
      [] v.is = "number" -> NumberValidator(v, f, x)
      [] v.is = "integer" -> IntegerValidator(v, f, x)
      [] v.is = "decimal" -> DecimalValidator(v, f, x)
      [] v.is = "bool" -> Ok(Str2Bool(x))
      [] v.is = "json" -> Ok(JSONValue(x))

(* A field has a sequence of validators: none, one, or those of a          *)
(* ListValidator, each of which is given what the one before it returned.  *)
Validated(f, x) ==
    FoldLeft(LAMBDA outcome, v : IfOk(outcome, LAMBDA y : Call(v, f, y)), Ok(x), f.validators)

-----------------------------------------------------------------------------
(* Validator.dump: what of a value is sent in a response. *)
DumpEnum(x) == IF x[1] = "enum" THEN <<"str", x[2]>> ELSE x
DumpDate(x) ==
    CASE x[1] = "datetime" -> <<"str", DayOf[x[2]]>>
      [] x[1] = "date" -> <<"str", x[2]>>
      [] OTHER -> x
DumpDateTime(x) == IF x[1] = "datetime" THEN <<"str", x[2]>> ELSE x
DumpNumber(v, x) == IF v.round THEN Round(ToNumber(x)) ELSE ToNumber(x)

\* Mutant: a member is dumped as it is.
DumpButEnums(v, x) ==
    CASE v.is = "date" -> DumpDate(x)
      [] v.is = "datetime" -> DumpDateTime(x)
      [] v.is \in {"number", "integer", "decimal"} -> DumpNumber(v, x)
      [] v.is = "bool" -> Str2Bool(x)
      [] OTHER -> x

DumpBy(v, x) ==
    CASE v.is = "enum" -> DumpEnum(x)
      [] v.is = "date" -> DumpDate(x)
      [] v.is = "datetime" -> DumpDateTime(x)
      [] v.is \in {"number", "integer", "decimal"} -> DumpNumber(v, x)
      [] v.is = "bool" -> Str2Bool(x)
      [] v.is = "json" -> JSONValue(x)
      [] OTHER -> x            \* of a UUID, its hexadecimal form

DumpField(f, x) == FoldLeft(LAMBDA y, v : DumpBy(v, y), x, f.validators)

(* Validator.openapi: the limits in the document. *)
Limit(key, limits) == [k \in {key : m \in limits} |-> CHOOSE m \in limits : TRUE]
Both(a, b) == [k \in DOMAIN a \cup DOMAIN b |-> IF k \in DOMAIN a THEN a[k] ELSE b[k]]
StrLimits(v) == Both(Limit("minLength", v.min), Limit("maxLength", v.max))
NumberLimits(v) == Both(Limit("minimum", v.min), Limit("maximum", v.max))
ChoiceEnum(v) == [k \in {"enum"} |-> v.choices]
OpenApi(v) ==
    CASE v.is \in {"str", "email"} -> StrLimits(v)
      [] v.is \in {"number", "integer", "decimal"} -> NumberLimits(v)
      [] v.is = "choice" -> ChoiceEnum(v)
      [] OTHER -> [k \in {} |-> {}]

-----------------------------------------------------------------------------
(* data_field and its specializations.  required is "unset" for a field    *)
(* that was not made by data_field.                                        *)
Validator(is) ==
    [is |-> is, min |-> {}, max |-> {}, round |-> FALSE, choices |-> {}, timezone |-> FALSE]
Plain(name, type) ==
    [name |-> name, type |-> type, required |-> "unset", default |-> Null, validators |-> <<>>,
     items |-> <<>>, ops |-> <<>>, hidden |-> FALSE, described |-> TRUE, format |-> "none"]
DataField(name, type, validators) ==
    [Plain(name, type) EXCEPT !.required = "no", !.validators = validators]

Prim(p) == <<"prim", p>>
StrField(name, min, max) ==
    DataField(name, Prim("str"), <<[Validator("str") EXCEPT !.min = min \ {0}, !.max = max \ {0}]>>)
NumberField(name, min, max, round) ==
    DataField(name, Prim("int"),
              <<[Validator("number") EXCEPT !.min = min, !.max = max, !.round = round]>>)
IntegerField(name, min, max) ==
    DataField(name, Prim("int"), <<[Validator("integer") EXCEPT !.min = min, !.max = max]>>)
DecimalField(name, min, max, round) ==
    DataField(name, Prim("decimal"),
              <<[Validator("decimal") EXCEPT !.min = min, !.max = max, !.round = round]>>)
BoolField(name) == DataField(name, Prim("bool"), <<Validator("bool")>>)
UUIDField(name) ==
    [DataField(name, Prim("str"), <<Validator("uuid")>>) EXCEPT !.format = "uuid"]
EnumField(name, members) ==
    DataField(name, <<"enum", members>>, <<[Validator("enum") EXCEPT !.choices = members]>>)
DateField(name) == DataField(name, Prim("date"), <<Validator("date")>>)
DateTimeField(name, timezone) ==
    DataField(name, Prim("datetime"), <<[Validator("datetime") EXCEPT !.timezone = timezone]>>)
JSONField(name, type) == DataField(name, type, <<Validator("json")>>)

(* as_field: the field of the items of a list or a dict, which has no name. *)
AsField(type, items) ==
    IF items = <<>> THEN DataField("", type, <<>>) ELSE [items[1] EXCEPT !.name = "", !.type = type]
=============================================================================
