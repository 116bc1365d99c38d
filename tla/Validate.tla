------------------------------ MODULE Validate ------------------------------
(***************************************************************************)
(* openapi/data/validate.py, and the dump of openapi/data/dump.py: a type  *)
(* is a pair of its kind and what it is of, <<"list", type>>,              *)
(* <<"dict", type>>, <<"class", class>>, <<"union", types>>,               *)
(* <<"enum", members>>, <<"prim", name>>, or <<"any", 0>>.                 *)
(***************************************************************************)
EXTENDS Fields, Dataclasses

CONSTANTS
    Validate(_, _, _, _, _),   \* validate of any type: ValidateType
    Dump(_, _)                 \* dump of any type: DumpType

(* isinstance, with float or int for a float. *)
IsInstance(x, p) ==
    CASE p = "int" -> IsInt(x)
      [] p = "float" -> x[1] = "float" \/ IsInt(x)
      [] p = "decimal" -> x[1] \in {"dec", "nan"}
      [] p = "date" -> x[1] \in {"date", "datetime"}
      [] OTHER -> x[1] = p

FieldOps(f) == <<f.name>> \o f.ops

(* MultiDict(data): the values of each name.  A list of pairs of a name    *)
(* and a value will do; what a text does here is not modelled.             *)
IsPair(x) == x[1] = "list" /\ Len(x[2]) = 2 /\ IsText(x[2][1])
IsMapping(x) ==
    x[1] \in {"obj", "multi"} \/ (x[1] = "list" /\ \A i \in DOMAIN x[2] : IsPair(x[2][i]))
PairsOf(x, n) == SelectSeq(x[2], LAMBDA pair : pair[2][1][2] = n)
Entries(x) ==
    CASE x[1] = "multi" -> x[2]
      [] x[1] = "list" ->
            [n \in {x[2][i][2][1][2] : i \in DOMAIN x[2]} |->
                [i \in DOMAIN PairsOf(x, n) |-> PairsOf(x, n)[i][2][2]]]
      [] OTHER -> [n \in DOMAIN x[2] |-> <<x[2][n]>>]

\* Mutant: a default is filled in whether the validation is strict or not.
WithDefaultAlways(f, data, strict) ==
    IF f.default # Null /\ (f.name \in DOMAIN data => data[f.name][1] = Null)
    THEN Both([n \in {f.name} |-> <<f.default>>], data) ELSE data

\* Mutant: a default is only filled in for null.
WithDefaultForNull(f, data, strict) ==
    IF strict /\ f.default # Null /\ f.name \in DOMAIN data /\ data[f.name][1] = Null
    THEN Both([n \in {f.name} |-> <<f.default>>], data) ELSE data

(* The default is filled in for a value that is missing or null. *)
WithDefault(f, data, strict) ==
    IF strict /\ f.default # Null /\ (f.name \in DOMAIN data => data[f.name][1] = Null)
    THEN Both([n \in {f.name} |-> <<f.default>>], data) ELSE data

Required(f) == f.required \in {"yes", "unset"}

(* The outcome of several calls in order: the first that is not Ok, or all *)
(* their values.                                                           *)
InOrder(outcomes) ==
    LET bad == {i \in DOMAIN outcomes : outcomes[i][1] # "ok"} IN
    IF bad = {} THEN Ok([i \in DOMAIN outcomes |-> outcomes[i][2]])
    ELSE outcomes[CHOOSE i \in bad : \A j \in bad : i <= j]

(* The same for calls whose errors are collected: only a crash ends them. *)
Collected(outcomes) ==
    LET bad == {k \in DOMAIN outcomes : outcomes[k][1] # "ok"} IN
    IF \E k \in bad : outcomes[k] = Crash THEN Crash
    ELSE IF bad # {} THEN Wrong({IF outcomes[k][1] = "invalid" THEN outcomes[k][2] ELSE k : k \in bad})
    ELSE Ok([k \in DOMAIN outcomes |-> outcomes[k][2]])

(* collect_value: null is not looked at, a validator comes before the type. *)
CollectValue(f, x, strict, multiple) ==
    IF IsNull(x) THEN Ok(Null)
    ELSE IfOk(Validated(f, x), LAMBDA y : Validate(f.type, y, strict, multiple, f.items))

WithoutNulls(all) == FoldLeft(LAMBDA kept, x : IF x = Null THEN kept ELSE Append(kept, x), <<>>, all)

(* One parameter of a query, or one entry of a body.  Values after the     *)
(* first count for a query only, and nulls among them are dropped.         *)
Parameter(f, values, multiple) ==
    LET given == IF multiple THEN values ELSE <<values[1]>> IN
    IfOk(InOrder([i \in DOMAIN given |-> CollectValue(f, given[i], TRUE, FALSE)]),
         LAMBDA all : Ok(IF Len(given) = 1 THEN all[1]
                         ELSE IF WithoutNulls(all) = <<>> THEN Null ELSE <<"list", WithoutNulls(all)>>))

(* What validate_dataclass collects for a field: the values of its name    *)
(* and of the names with an operation.                                     *)
FieldValues(f, given, strict, multiple) ==
    LET data == WithDefault(f, given, strict)
        ops == {i \in DOMAIN FieldOps(f) : FieldOps(f)[i] \in DOMAIN data} IN
    IF f.name \notin DOMAIN data /\ Required(f) /\ strict THEN Invalid(f.name)
    ELSE IfOk(InOrder([i \in ops |-> Parameter(f, data[FieldOps(f)[i]], multiple)]),
              LAMBDA all : Ok([n \in {FieldOps(f)[i] : i \in ops} |->
                                  all[CHOOSE i \in ops : FieldOps(f)[i] = n]]))

ValidateClass(c, x, strict, multiple) ==
    LET fields == Range(FieldsOf[c])
        values(n) == FieldValues(CHOOSE f \in fields : f.name = n, Entries(x), strict, multiple) IN
    IF ~IsMapping(x) THEN Wrong({})
    ELSE IfOk(Collected([n \in {f.name : f \in fields} |-> values(n)]),
              LAMBDA all : Ok(<<"obj", [n \in UNION {DOMAIN all[m] : m \in DOMAIN all} |->
                                  all[CHOOSE m \in DOMAIN all : n \in DOMAIN all[m]][n]]>>))

FirstThatFits(tried) ==
    LET done == {i \in DOMAIN tried : tried[i][1] # "wrong"} IN
    IF done = {} THEN Wrong({}) ELSE tried[CHOOSE i \in done : \A j \in done : i <= j]

(* A list stops at its first bad item, a dict reports them all, except     *)
(* that a validator of its items stops it too.                             *)
AllOfDict(each) ==
    LET stop == {k \in DOMAIN each : each[k][1] \in {"invalid", "crash"}} IN
    IF stop # {} THEN each[CHOOSE k \in stop : TRUE] ELSE Collected(each)

ValidateType(T, x, strict, multiple, items) ==
    LET item(y) == CollectValue(AsField(T[2], items), y, strict, multiple) IN
    CASE T[1] = "list" /\ x[1] = "list" ->
            IfOk(InOrder([i \in DOMAIN x[2] |-> item(x[2][i])]), LAMBDA all : Ok(<<"list", all>>))
      [] T[1] = "dict" /\ x[1] = "obj" ->
            IfOk(AllOfDict([k \in DOMAIN x[2] |-> item(x[2][k])]), LAMBDA all : Ok(<<"obj", all>>))
      [] T[1] = "class" -> ValidateClass(T[2], x, strict, multiple)
      [] T[1] = "union" ->
            FirstThatFits([i \in DOMAIN T[2] |-> Validate(T[2][i], x, TRUE, FALSE, <<>>)])
      [] T[1] = "any" -> Ok(x)
      [] T[1] = "enum" /\ x[1] = "enum" -> Ok(x)
      [] T[1] = "prim" /\ IsInstance(x, T[2]) -> Ok(x)
      [] OTHER -> Wrong({})

-----------------------------------------------------------------------------
(* is_nothing: what is left out of a response. *)
IsNothing(x) ==
    x = Null \/ x = <<"str", "">> \/ (x[1] = "list" /\ x[2] = <<>>) \/ (x[1] = "obj" /\ DOMAIN x[2] = {})

(* dump_dataclass, with a field's validator before its type. *)
DumpClass(c, x) ==
    LET fields == {f \in Range(FieldsOf[c]) : f.name \in DOMAIN x[2] /\ ~IsNothing(x[2][f.name])}
        field(n) == CHOOSE f \in fields : f.name = n IN
    <<"obj", [n \in {f.name : f \in fields} |->
                LET f == field(n) IN Dump(f.type, DumpField(f, x[2][n]))]>>

DumpType(T, x) ==
    LET each == [k \in DOMAIN x[2] |-> Dump(T[2], x[2][k])] IN
    CASE T[1] = "list" -> <<"list", each>>
      [] T[1] = "dict" -> <<"obj", each>>
      [] T[1] = "class" -> DumpClass(T[2], x)
      [] OTHER -> x
=============================================================================
