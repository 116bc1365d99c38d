---------------------------- MODULE Client_proofs ---------------------------
(***************************************************************************)
(* Proofs about SpecDoc and Client, for all services, tables and classes:  *)
(* the references of a document that is served lead somewhere; a list is   *)
(* stored as its bodies one by one; an update touches what was sent, and   *)
(* nothing when what was sent is a part of what was answered; and what was *)
(* answered is found again.                                                *)
(*                                                                         *)
(* The argument of the last three: whatever a column's field accepts is a  *)
(* value of the column (AcceptedHolds), which can be stored and read back  *)
(* (ReadBackHolds), and whose dump is accepted as that value (Resent), in  *)
(* a query too, where it is a text (TextIsRead).                           *)
(***************************************************************************)
EXTENDS Client, TLAPS, WellFoundedInduction

(* What is known of a class before its round: its name is waiting.         *)
Found == DOMAIN parsed \cup DOMAIN batch \cup DOMAIN toParse

(* The inductive invariant: every class that was referred to is parsed or  *)
(* waits, under its name; and nothing waits once the document is served.   *)
SchemasReferred ==
    /\ DocTypeOK
    /\ built \in Nat
    /\ \A c \in ReferredTo : NameOf[c] \in Found
    /\ phase = "served" => batch = Nothing /\ toParse = Nothing

-----------------------------------------------------------------------------
(* add_schema_to_parse keeps the work list in order, and loses no name.    *)
LEMMA SchemasAdded ==
    ASSUME NEW pending, IsSchemas(pending), NEW S \in SUBSET Classes
    PROVE  /\ IsSchemas(AddSchemas(pending, S))
           /\ DOMAIN AddSchemas(pending, S) = DOMAIN pending \cup Names_(S)
<1> DEFINE new == AddSchemas(pending, S)
<1>1. DOMAIN new = DOMAIN pending \cup Names_(S)
    BY DEF AddSchemas
<1>2. ASSUME NEW n \in DOMAIN new PROVE new[n] \in Classes /\ NameOf[new[n]] = n
    <2>1. CASE n \in Names_(S)
        <3>1. \E c \in S : NameOf[c] = n
            BY <2>1 DEF Names_
        <3>2. new[n] = CHOOSE c \in S : NameOf[c] = n
            BY <1>1, <1>2, <2>1 DEF AddSchemas
        <3>3. new[n] \in S /\ NameOf[new[n]] = n
            BY <3>1, <3>2
        <3> QED BY <3>3
    <2>2. CASE n \notin Names_(S)
        <3>1. n \in DOMAIN pending /\ new[n] = pending[n]
            BY <1>1, <1>2, <2>2 DEF AddSchemas
        <3> QED BY <3>1 DEF IsSchemas
    <2> QED BY <2>1, <2>2
<1>3. new \in [DOMAIN new -> Classes]
    BY <1>2, <1>1 DEF AddSchemas
<1> QED BY <1>1, <1>2, <1>3 DEF IsSchemas

(* The empty map, with which a document begins. *)
LEMMA NothingIsSchemas == IsSchemas(Nothing) /\ DOMAIN Nothing = {}
BY DEF IsSchemas, Nothing

(* What is left of a map of schemas when one name is taken out. *)
LEMMA WithoutIsSchemas ==
    ASSUME NEW f, IsSchemas(f), NEW n
    PROVE  IsSchemas(Without(f, n)) /\ DOMAIN Without(f, n) = DOMAIN f \ {n}
BY DEF IsSchemas, Without

-----------------------------------------------------------------------------
(* The invariant of the references holds before the first path. *)
LEMMA ReferredAtFirst == Init => SchemasReferred
<1> SUFFICES ASSUME Init PROVE SchemasReferred
    OBVIOUS
<1>1. IsSchemas(toParse)
    BY SchemasAdded, NothingIsSchemas, SpecDocAssumption DEF Init
<1>2. DocTypeOK
    BY <1>1, NothingIsSchemas DEF Init, DocTypeOK
<1>3. ReferredTo = {}
    BY NothingIsSchemas DEF Init, ReferredTo
<1> QED BY <1>2, <1>3 DEF SchemasReferred, Init

(* A path that is added to the document. *)
LEMMA ReferredByPath == SchemasReferred /\ BuildPath => SchemasReferred'
<1> SUFFICES ASSUME SchemasReferred, BuildPath PROVE SchemasReferred'
    OBVIOUS
<1> DEFINE path == Paths[built + 1]
<1> DEFINE refers == IF path.private THEN {} ELSE PathRefers(path)
<1>1. CASE path.private \/ (ValidateDocs => PathDescribed(path))
    <2>1. /\ built' = built + 1 /\ used' = used \cup refers
          /\ toParse' = AddSchemas(toParse, refers)
          /\ UNCHANGED <<service, batch, parsed, phase>>
        BY <1>1 DEF BuildPath
    <2>2. refers \in SUBSET Classes
        <3>1. service \in DOMAIN Services /\ built \in Nat /\ built < Len(Services[service].paths)
            BY DEF SchemasReferred, DocTypeOK, BuildPath, Paths
        <3>2. built + 1 \in 1..Len(Services[service].paths)
            BY <3>1, SpecDocTypes
        <3>3. PathRefers(path) \subseteq Classes
            BY <3>1, <3>2, SpecDocTypes DEF Paths
        <3> QED BY <3>3
    <2>3. IsSchemas(toParse') /\ DOMAIN toParse' = DOMAIN toParse \cup Names_(refers)
        <3>1. IsSchemas(toParse)
            BY DEF SchemasReferred, DocTypeOK
        <3> QED BY <2>1, <2>2, <3>1, SchemasAdded
    <2>4. DocTypeOK'
        BY <2>1, <2>2, <2>3 DEF SchemasReferred, DocTypeOK, IsSchemas
    <2>5. ReferredTo' = ReferredTo \cup refers
        BY <2>1 DEF ReferredTo
    <2>6. \A c \in ReferredTo' : NameOf[c] \in Found'
        BY <2>1, <2>3, <2>5 DEF SchemasReferred, Found, Names_
    <2>7. phase' # "served"
        BY <2>1 DEF BuildPath
    <2> QED BY <2>1, <2>4, <2>6, <2>7 DEF SchemasReferred
<1>2. CASE ~(path.private \/ (ValidateDocs => PathDescribed(path)))
    <2>1. Fail
        BY <1>2 DEF BuildPath
    <2> QED BY <2>1 DEF Fail, SchemasReferred, DocTypeOK, IsSchemas, ReferredTo, Found
<1> QED BY <1>1, <1>2

(* The head of the loop: what waits becomes the round. *)
LEMMA ReferredByRound == SchemasReferred /\ NextRound => SchemasReferred'
<1> SUFFICES ASSUME SchemasReferred, NextRound PROVE SchemasReferred'
    OBVIOUS
<1>1. DocTypeOK'
    BY NothingIsSchemas DEF NextRound, SchemasReferred, DocTypeOK, IsSchemas
<1>2. ReferredTo' = ReferredTo /\ Found \subseteq Found'
    BY NothingIsSchemas DEF NextRound, ReferredTo, Found
<1>3. phase' = "served" => batch' = Nothing /\ toParse' = Nothing
    BY DEF NextRound
<1> QED BY <1>1, <1>2, <1>3 DEF SchemasReferred, NextRound

(* A class that is parsed: its name is no longer waiting, and what it      *)
(* refers to is.                                                           *)
LEMMA ReferredByParse ==
    ASSUME NEW n, SchemasReferred, phase \in {"paths", "schemas"}, Parse(n)
    PROVE  SchemasReferred'
<1>1. n \in DOMAIN batch /\ batch[n] \in Classes /\ NameOf[batch[n]] = n
    BY DEF Parse, SchemasReferred, DocTypeOK, IsSchemas
<1>2. CASE ValidateDocs => Described(batch[n])
    <2>1. /\ parsed' = [m \in DOMAIN parsed \cup {n} |-> IF m = n THEN batch[n] ELSE parsed[m]]
          /\ toParse' = AddSchemas(toParse, Refers(batch[n]))
          /\ batch' = Without(batch, n)
          /\ UNCHANGED <<service, built, used, phase>>
        BY <1>2 DEF Parse
    <2>2. Refers(batch[n]) \in SUBSET Classes
        BY <1>1, SpecDocTypes
    <2>3. /\ IsSchemas(toParse') /\ DOMAIN toParse' = DOMAIN toParse \cup Names_(Refers(batch[n]))
          /\ IsSchemas(batch') /\ DOMAIN batch' = DOMAIN batch \ {n}
        <3>1. IsSchemas(toParse) /\ IsSchemas(batch)
            BY DEF SchemasReferred, DocTypeOK
        <3> QED BY <2>1, <2>2, <3>1, SchemasAdded, WithoutIsSchemas
    <2>4. IsSchemas(parsed') /\ DOMAIN parsed' = DOMAIN parsed \cup {n}
        <3>1. IsSchemas(parsed)
            BY DEF SchemasReferred, DocTypeOK
        <3> QED BY <1>1, <2>1, <3>1 DEF IsSchemas
    <2>5. DocTypeOK'
        BY <2>1, <2>3, <2>4 DEF SchemasReferred, DocTypeOK, IsSchemas
    <2>6. ReferredTo' \subseteq ReferredTo \cup Refers(batch[n])
        <3>1. \A m \in DOMAIN parsed' : m = n \/ (m \in DOMAIN parsed /\ parsed'[m] = parsed[m])
            BY <2>1
        <3>2. parsed'[n] = batch[n]
            BY <2>1
        <3> QED BY <2>1, <3>1, <3>2 DEF ReferredTo
    <2>7. \A c \in ReferredTo' : NameOf[c] \in Found'
        <3>1. Found \subseteq Found' /\ Names_(Refers(batch[n])) \subseteq Found'
            BY <2>3, <2>4 DEF Found
        <3> QED BY <2>6, <3>1 DEF SchemasReferred, Names_
    <2> QED BY <2>1, <2>5, <2>7 DEF SchemasReferred
<1>3. CASE ~(ValidateDocs => Described(batch[n]))
    <2>1. Fail
        BY <1>3 DEF Parse
    <2> QED BY <2>1 DEF Fail, SchemasReferred, DocTypeOK, IsSchemas, ReferredTo, Found
<1> QED BY <1>2, <1>3

(* Every step keeps it: a path, a new round, a class parsed. *)
LEMMA ReferredByAny == SchemasReferred /\ [Build]_docVars => SchemasReferred'
<1> SUFFICES ASSUME SchemasReferred, [Build]_docVars PROVE SchemasReferred'
    OBVIOUS
<1>1. CASE Build
    <2>1. CASE BuildPath
        BY <2>1, ReferredByPath
    <2>2. CASE NextRound
        BY <2>2, ReferredByRound
    <2>3. CASE \E n \in Names : Parse(n)
        <3>1. PICK n \in Names : Parse(n)
            BY <2>3
        <3>2. phase \in {"paths", "schemas"}
            BY <1>1 DEF Build
        <3> QED BY <3>1, <3>2, ReferredByParse
    <2> QED BY <1>1, <2>1, <2>2, <2>3 DEF Build
<1>2. CASE UNCHANGED docVars
    BY <1>2 DEF docVars, SchemasReferred, DocTypeOK, IsSchemas, ReferredTo, Found
<1> QED BY <1>1, <1>2

(* So it holds in every state of every build. *)
LEMMA AlwaysReferred == DocSpec => []SchemasReferred
<1> QED BY ReferredAtFirst, ReferredByAny, PTL DEF DocSpec

-----------------------------------------------------------------------------
(* Schemas are kept under the names of their classes, in every round       *)
(* (spec.py:229).                                                          *)
THEOREM DocTypeCorrect == DocSpec => []DocTypeOK
<1>1. SchemasReferred => DocTypeOK
    BY DEF SchemasReferred
<1> QED BY <1>1, AlwaysReferred, PTL

(* The loop of parsed_schemas stops with nothing left out: a document that *)
(* is served has a schema for every $ref in it, and the right one when the *)
(* class has its name to itself (spec.py:236).                             *)
THEOREM EveryReferenceResolves == DocSpec => []ReferencesResolve
<1>1. SchemasReferred => ReferencesResolve
    <2> SUFFICES ASSUME SchemasReferred, phase = "served", NEW c \in ReferredTo
                 PROVE  /\ NameOf[c] \in DOMAIN parsed
                        /\ (\A d \in Classes : NameOf[d] = NameOf[c] => d = c)
                            => parsed[NameOf[c]] = c
        BY DEF ReferencesResolve
    <2>1. NameOf[c] \in DOMAIN parsed
        <3>1. DOMAIN batch = {} /\ DOMAIN toParse = {}
            BY NothingIsSchemas DEF SchemasReferred
        <3> QED BY <3>1 DEF SchemasReferred, Found
    <2>2. parsed[NameOf[c]] \in Classes /\ NameOf[parsed[NameOf[c]]] = NameOf[c]
        BY <2>1 DEF SchemasReferred, DocTypeOK, IsSchemas
    <2> QED BY <2>1, <2>2
<1> QED BY <1>1, AlwaysReferred, PTL

-----------------------------------------------------------------------------
(* The one index of a sequence of length one, from which FoldLeft begins. *)
LEMMA MaxOne == Max({1}) = 1
BY DEF Max

(* A field without validators leaves a value as it is (validate.py:277). *)
LEMMA FoldNone == ASSUME NEW f, NEW x, f.validators = <<>> PROVE Validated(f, x) = Ok(x)
<1> DEFINE rest(it, s) == it[s \ {Max(s)}]
           F(it) == [s \in SUBSET {} |-> IF s = {} THEN Ok(x) ELSE
                IF rest(it, s)[1] = "ok" THEN Call(f.validators[Max(s)], f, rest(it, s)[2]) ELSE rest(it, s)]
<1>1. Validated(f, x) = (CHOOSE it : it = F(it))[{}]
  BY DEF Validated, FoldLeft, MapThenFoldSet, IfOk
<1>2. \E it : it = F(it)
  <2> WITNESS [s \in {{}} |-> Ok(x)]
  <2> QED OBVIOUS
<1>3. (CHOOSE it : it = F(it)) = F(CHOOSE it : it = F(it))
  <2> HIDE DEF F
  <2> QED BY <1>2
<1>4. QED BY <1>1, <1>3

(* A field with one validator returns what that one does (fields.py:286). *)
LEMMA FoldOne == ASSUME NEW f, NEW x, NEW v, f.validators = <<v>> PROVE Validated(f, x) = Call(v, f, x)
<1> DEFINE rest(it, s) == it[s \ {Max(s)}]
           F(it) == [s \in SUBSET {1} |-> IF s = {} THEN Ok(x) ELSE
                IF rest(it, s)[1] = "ok" THEN Call(f.validators[Max(s)], f, rest(it, s)[2]) ELSE rest(it, s)]
<1>0. DOMAIN f.validators = {1} /\ f.validators[1] = v
  OBVIOUS
<1>1. Validated(f, x) = (CHOOSE it : it = F(it))[{1}]
  BY <1>0, Zenon DEF Validated, FoldLeft, MapThenFoldSet, IfOk
<1>2. \E it : it = F(it)
  <2> WITNESS [s \in SUBSET {1} |-> IF s = {} THEN Ok(x) ELSE Call(v, f, x)]
  <2> QED BY MaxOne, <1>0 DEF Ok
<1>3. (CHOOSE it : it = F(it)) = F(CHOOSE it : it = F(it))
  <2> HIDE DEF F
  <2> QED BY <1>2
<1>4. PICK it : it = F(it) /\ Validated(f, x) = it[{1}]
  <2> HIDE DEF F
  <2> QED BY <1>1, <1>3
<1>5. {} \in SUBSET {1} /\ {1} \in SUBSET {1} /\ {1} \ {1} = {} /\ {1} # {}
  OBVIOUS
<1>6. it[{}] = Ok(x)
  BY <1>4, <1>5
<1>7. rest(it, {1}) = Ok(x) /\ f.validators[Max({1})] = v
  <2>1. {1} \ {Max({1})} = {}
    BY MaxOne
  <2> QED BY <1>0, <1>6, MaxOne, <2>1
<1>8. it[{1}] = IF rest(it, {1})[1] = "ok" THEN Call(f.validators[Max({1})], f, rest(it, {1})[2]) ELSE rest(it, {1})
  <2> HIDE DEF rest
  <2> QED BY <1>4, <1>5
<1>9. Ok(x)[1] = "ok" /\ Ok(x)[2] = x
  BY DEF Ok
<1>10. it[{1}] = Call(v, f, x)
  <2> HIDE DEF rest
  <2> QED BY <1>7, <1>8, <1>9, Zenon
<1> QED BY <1>4, <1>10

-----------------------------------------------------------------------------
(* Validate and Dump of a type that is not a class are what validate.py    *)
(* and dump.py say of it: the recursion goes down to the types inside it,  *)
(* and Contract.cfg ties both constants to their bodies.                   *)
Unfolds ==
  /\ \A T, x, strict, multiple, items : T[1] # "class" =>
       Validate(T, x, strict, multiple, items) = ValidateType(T, x, strict, multiple, items)
  /\ \A T, x : T[1] # "class" => Dump(T, x) = DumpType(T, x)

(* The field of a column is its converter's, but for required and the      *)
(* default (data/db.py:181).                                               *)
LEMMA FieldOfColumn ==
  ASSUME NEW col, col.kind \in Kinds, NEW required, NEW default
  PROVE  LET f == FieldOf(col, required, default) IN
         /\ f.name = col.name /\ f.ops = col.ops /\ f.items = <<>>
         /\ f.type = Converted(col).type /\ f.validators = Converted(col).validators
         /\ f.default = IF default THEN col.default ELSE Null
BY DEF FieldOf, Converted, Kinds, StrField, NumberField, DecimalField, BoolField, DateTimeField, DateField,
       EnumField, UUIDField, JSONField, DataField, Plain

(* The one validator that each converter gives its field (data/db.py). *)
ValidatorOf(col) ==
  CASE col.kind = "String" ->
         [Validator("str") EXCEPT !.min = col.min \ {0}, !.max = {col.length} \ {0}]
    [] col.kind = "Integer" -> [Validator("number") EXCEPT !.min = {}, !.max = {}, !.round = TRUE]
    [] col.kind = "Numeric" -> [Validator("decimal") EXCEPT !.min = {}, !.max = {}, !.round = col.round]
    [] col.kind = "Boolean" -> Validator("bool")
    [] col.kind = "DateTime" -> [Validator("datetime") EXCEPT !.timezone = col.timezone]
    [] col.kind = "Date" -> Validator("date")
    [] col.kind = "Enum" -> [Validator("enum") EXCEPT !.choices = col.members]
    [] col.kind = "UUID" -> Validator("uuid")
    [] col.kind = "JSON" -> Validator("json")

(* The type that each converter gives its field. *)
TypeOf(col) ==
  CASE col.kind \in {"String", "UUID"} -> Prim("str")
    [] col.kind = "Integer" -> Prim("int")
    [] col.kind = "Numeric" -> Prim("decimal")
    [] col.kind = "Boolean" -> Prim("bool")
    [] col.kind = "DateTime" -> Prim("datetime")
    [] col.kind = "Date" -> Prim("date")
    [] col.kind = "Enum" -> <<"enum", col.members>>
    [] col.kind = "JSON" -> <<IF col.default[1] = "list" THEN "list" ELSE "dict", <<"any", 0>>>>

(* The converters, each with its type and its validator. *)
LEMMA ConvertedHas ==
  ASSUME NEW col, col.kind \in Kinds
  PROVE  Converted(col).type = TypeOf(col) /\ Converted(col).validators = <<ValidatorOf(col)>>
BY DEF Converted, Kinds, StrField, NumberField, DecimalField, BoolField, DateTimeField, DateField,
       EnumField, UUIDField, JSONField, DataField, Plain, TypeOf, ValidatorOf

(* No column is of a class. *)
LEMMA TypeOfColumn == ASSUME NEW col, col.kind \in Kinds PROVE TypeOf(col)[1] # "class"
BY DEF TypeOf, Kinds, Prim

(* One value in a body, and the check of its type: without operators that  *)
(* are given a TRUE, which the provers do not match.                       *)
Collects(f, x) == CollectValue(f, x, TRUE, FALSE)
Valued(T, y) == ValidateType(T, y, TRUE, FALSE, <<>>)

(* The check of a type that is not a class, as its body says.              *)
LEMMA ValidateIs ==
  ASSUME Unfolds, NEW T, T[1] # "class", NEW y
  PROVE  Validate(T, y, TRUE, FALSE, <<>>) = Valued(T, y)
BY Zenon DEF Unfolds, Valued

(* The types without others inside: a primitive, an enum, anything. *)
LEMMA TypesAs ==
  ASSUME NEW y
  PROVE  /\ \A p : Valued(Prim(p), y) = IF IsInstance(y, p) THEN Ok(y) ELSE Wrong({})
         /\ \A S : Valued(<<"enum", S>>, y) =
                     IF y[1] = "enum" THEN Ok(y) ELSE Wrong({})
         /\ Valued(<<"any", 0>>, y) = Ok(y)
<1>1. ASSUME NEW p
      PROVE  Valued(Prim(p), y) = IF IsInstance(y, p) THEN Ok(y) ELSE Wrong({})
  BY DEF Valued, ValidateType, Prim, IfOk
<1>2. ASSUME NEW S
      PROVE  Valued(<<"enum", S>>, y) =
                     IF y[1] = "enum" THEN Ok(y) ELSE Wrong({})
  BY DEF Valued, ValidateType, IfOk
<1>3. Valued(<<"any", 0>>, y) = Ok(y)
  BY DEF Valued, ValidateType, IfOk
<1>4. QED
  BY <1>1, <1>2, <1>3

(* What a column's field makes of a value that is not null: its            *)
(* validator's outcome, and then its type's.                               *)
LEMMA CollectsAs ==
  ASSUME Unfolds, NEW col, col.kind \in Kinds, NEW required, NEW default, NEW x, ~IsNull(x),
         NEW f, f = FieldOf(col, required, default), NEW called, called = Call(ValidatorOf(col), f, x)
  PROVE  Collects(f, x) =
           IF called[1] = "ok" THEN Valued(TypeOf(col), called[2]) ELSE called
<1>1. f.validators = <<ValidatorOf(col)>> /\ f.type = TypeOf(col) /\ f.items = <<>>
  BY FieldOfColumn, ConvertedHas
<1>2. Validated(f, x) = called
  BY <1>1, FoldOne
<1>3. Collects(f, x) =
           IF called[1] = "ok" THEN Validate(TypeOf(col), called[2], TRUE, FALSE, <<>>) ELSE called
  BY <1>1, <1>2 DEF Collects, CollectValue, IfOk
<1>4. Validate(TypeOf(col), called[2], TRUE, FALSE, <<>>) = Valued(TypeOf(col), called[2])
  BY TypeOfColumn, ValidateIs, Zenon
<1>5. QED
  BY <1>3, <1>4, Zenon

-----------------------------------------------------------------------------
(* The outcomes of a validation can be told apart. *)
LEMMA Outcomes ==
  /\ \A x, y : Ok(x) = Ok(y) => x = y
  /\ \A x : Ok(x)[1] = "ok" /\ Ok(x)[2] = x /\ Wrong(x)[1] = "wrong" /\ Invalid(x)[1] = "invalid"
  /\ Crash[1] = "crash"
  /\ \A x, y : Wrong(x) # Ok(y) /\ Invalid(x) # Ok(y) /\ Crash # Ok(y)
BY DEF Ok, Wrong, Invalid, Crash

(* A number that was rounded is round (fields.py:451). *)
LEMMA HalfEvenTwice ==
  ASSUME NEW n \in Int
  PROVE  HalfEven(n) \in Int /\ HalfEven(HalfEven(n)) = HalfEven(n)
BY DEF HalfEven

(* An item of any type comes back as it is, and null as None               *)
(* (validate.py:274).                                                      *)
LEMMA EachOfAny ==
  ASSUME Unfolds, NEW z
  PROVE  Collects(AsField(<<"any", 0>>, <<>>), z) = Ok(IF IsNull(z) THEN Null ELSE z)
<1> DEFINE f == AsField(<<"any", 0>>, <<>>)
<1>1. f.validators = <<>> /\ f.type = <<"any", 0>> /\ f.items = <<>>
  BY DEF AsField, DataField, Plain
<1>2. Validated(f, z) = Ok(z)
  BY <1>1, FoldNone
<1>6. <<"any", 0>>[1] # "class"
  OBVIOUS
<1>3. Validate(<<"any", 0>>, z, TRUE, FALSE, <<>>) = Ok(z)
  BY <1>6, TypesAs, ValidateIs
<1>4. Collects(f, z) = IF IsNull(z) THEN Ok(Null) ELSE
        IF Ok(z)[1] = "ok" THEN Validate(<<"any", 0>>, Ok(z)[2], TRUE, FALSE, <<>>) ELSE Ok(z)
  BY <1>1, <1>2 DEF Collects, CollectValue, IfOk
<1>5. QED
  BY <1>3, <1>4, Outcomes

(* When every call succeeds, their values are collected in order, for a    *)
(* list and for a dict.                                                    *)
LEMMA AllOk ==
  ASSUME NEW outcomes, NEW g, outcomes = [k \in DOMAIN outcomes |-> Ok(g[k])]
  PROVE  /\ InOrder(outcomes) = Ok([k \in DOMAIN outcomes |-> g[k]])
         /\ Collected(outcomes) = Ok([k \in DOMAIN outcomes |-> g[k]])
         /\ AllOfDict(outcomes) = Ok([k \in DOMAIN outcomes |-> g[k]])
<1>1. \A k \in DOMAIN outcomes : outcomes[k][1] = "ok" /\ outcomes[k][2] = g[k]
  BY Outcomes
<1>2. [k \in DOMAIN outcomes |-> outcomes[k][2]] = [k \in DOMAIN outcomes |-> g[k]]
  BY <1>1
<1>3. {k \in DOMAIN outcomes : outcomes[k][1] # "ok"} = {} /\ {k \in DOMAIN outcomes : outcomes[k][1] \in {"invalid", "crash"}} = {}
  BY <1>1
<1>4. InOrder(outcomes) = Ok([k \in DOMAIN outcomes |-> g[k]])
  BY <1>2, <1>3 DEF InOrder
<1>5. Collected(outcomes) = Ok([k \in DOMAIN outcomes |-> g[k]])
  BY <1>2, <1>3 DEF Collected
<1>6. AllOfDict(outcomes) = Collected(outcomes)
  BY <1>3 DEF AllOfDict
<1>7. QED
  BY <1>4, <1>5, <1>6

(* A list or a dict of anything, the types of a JSON column: its items     *)
(* come back, null as None.                                                *)
LEMMA AnyInside ==
  ASSUME Unfolds, NEW x
  PROVE  LET inside == [k \in DOMAIN x[2] |-> IF IsNull(x[2][k]) THEN Null ELSE x[2][k]] IN
         /\ Valued(<<"list", <<"any", 0>>>>, x) =
              IF x[1] = "list" THEN Ok(<<"list", inside>>) ELSE Wrong({})
         /\ Valued(<<"dict", <<"any", 0>>>>, x) =
              IF x[1] = "obj" THEN Ok(<<"obj", inside>>) ELSE Wrong({})
<1> DEFINE f == AsField(<<"any", 0>>, <<>>)
           of(k) == IF IsNull(x[2][k]) THEN Null ELSE x[2][k]
           inside == [k \in DOMAIN x[2] |-> of(k)]
           each == [k \in DOMAIN x[2] |-> Collects(f, x[2][k])]
<1>1. each = [k \in DOMAIN x[2] |-> Ok(inside[k])]
  BY EachOfAny
<1>2. InOrder(each) = Ok(inside) /\ AllOfDict(each) = Ok(inside)
  <2>1. DOMAIN each = DOMAIN x[2] /\ inside = [k \in DOMAIN x[2] |-> inside[k]]
    OBVIOUS
  <2>2. each = [k \in DOMAIN each |-> Ok(inside[k])]
    BY <1>1, <2>1
  <2> HIDE DEF each, inside
  <2>3. QED
    BY <2>1, <2>2, AllOk
<1>3. Valued(<<"list", <<"any", 0>>>>, x) =
              IF x[1] = "list" THEN IF InOrder(each)[1] = "ok" THEN Ok(<<"list", InOrder(each)[2]>>) ELSE InOrder(each) ELSE Wrong({})
  <2>1. CASE x[1] = "list"
    BY <2>1 DEF Valued, Collects, ValidateType, IfOk
  <2>2. CASE x[1] # "list"
    BY <2>2 DEF Valued, Collects, ValidateType, IfOk
  <2>3. QED
    BY <2>1, <2>2
<1>4. Valued(<<"dict", <<"any", 0>>>>, x) =
              IF x[1] = "obj" THEN IF AllOfDict(each)[1] = "ok" THEN Ok(<<"obj", AllOfDict(each)[2]>>) ELSE AllOfDict(each) ELSE Wrong({})
  <2>1. CASE x[1] = "obj"
    BY <2>1 DEF Valued, Collects, ValidateType, IfOk
  <2>2. CASE x[1] # "obj"
    BY <2>2 DEF Valued, Collects, ValidateType, IfOk
  <2>3. QED
    BY <2>1, <2>2
<1>5. /\ InOrder(each)[1] = "ok" /\ InOrder(each)[2] = inside
      /\ AllOfDict(each)[1] = "ok" /\ AllOfDict(each)[2] = inside
  <2> HIDE DEF each, inside
  <2> QED
    BY <1>2, Outcomes
<1>6. /\ Valued(<<"list", <<"any", 0>>>>, x) =
           IF x[1] = "list" THEN Ok(<<"list", inside>>) ELSE Wrong({})
      /\ Valued(<<"dict", <<"any", 0>>>>, x) =
           IF x[1] = "obj" THEN Ok(<<"obj", inside>>) ELSE Wrong({})
  <2> HIDE DEF each, inside
  <2> QED
    BY <1>3, <1>4, <1>5
<1>7. QED
  BY <1>6

-----------------------------------------------------------------------------
(* What the lemmas below ask of a value that is validated: the texts that  *)
(* the model reads, amounts that are numbers, and days and moments only as *)
(* the column has them.                                                    *)
Sendable(col, x) ==
  /\ IsText(x) => x = <<"str", x[2]>> /\ (IsNull(x) \/ x[2] \in DOMAIN Reads)
  /\ IsAmount(x)
  /\ x[1] \in {"date", "datetime"} => Holds(col, x)

(* Whatever a column's field accepts is a value of that column: each       *)
(* validator returns what its column is of (fields.py).                    *)
LEMMA AcceptedHolds ==
  ASSUME Unfolds, NEW col, col.kind \in Kinds, "NULL" \notin col.members, NEW required, NEW default,
         NEW x, Sendable(col, x),
         NEW f, f = FieldOf(col, required, default), NEW y, Collects(f, x) = Ok(y)
  PROVE  Holds(col, y)
<1>1. CASE IsNull(x)
  <2>1. Collects(f, x) = Ok(Null)
    BY <1>1 DEF Collects, CollectValue, IfOk
  <2>2. QED
    BY <2>1, Outcomes DEF Holds
<1>2. CASE ~IsNull(x)
  <2> DEFINE v == ValidatorOf(col)
             T == TypeOf(col)
  <2>c. PICK c : c = Call(v, f, x)
    OBVIOUS
  <2>1. c[1] = "ok" /\ Valued(T, c[2]) = Ok(y)
    <3>1. Collects(f, x) =
           IF c[1] = "ok" THEN Valued(T, c[2]) ELSE c
      BY <1>2, <2>c, CollectsAs
    <3>2. QED
      BY <3>1, Outcomes
  <2>p. \A p : T = Prim(p) => y = c[2] /\ IsInstance(y, p)
    BY <2>1, TypesAs, Outcomes
  <2>e. \A S : T = <<"enum", S>> => y = c[2]
    <3> SUFFICES ASSUME NEW S, T = <<"enum", S>> PROVE y = c[2]
      OBVIOUS
    <3>1. Valued(<<"enum", S>>, c[2]) = IF c[2][1] = "enum" THEN Ok(c[2]) ELSE Wrong({})
      BY TypesAs
    <3>2. QED
      BY <2>1, <3>1, Outcomes
  <2>2. f.name = col.name /\ f.type = T
    BY FieldOfColumn, ConvertedHas
  <2>3. IsText(x) => x = <<"str", x[2]>> /\ x[2] \in DOMAIN Reads
    BY <1>2 DEF Sendable
  <2>4. CASE col.kind = "String"
    <3>1. v.is = "str" /\ v.min = col.min \ {0} /\ v.max = {col.length} \ {0} /\ T = Prim("str")
      BY <2>4 DEF ValidatorOf, TypeOf, Validator
    <3>2. c = StrValidator(v, f, x)
      BY <2>c, <3>1 DEF Call
    <3>3. y = x /\ IsText(x) /\ ~Below(v.min, Reads[x[2]].length) /\ ~Above(v.max, Reads[x[2]].length)
      BY <1>2, <2>1, <2>p, <3>1, <3>2, Outcomes DEF StrValidator
    <3>4. x = <<"str", x[2]>> /\ x[2] \in DOMAIN Reads
      BY <2>3, <3>3
    <3>5. QED
      BY <1>2, <2>4, <3>1, <3>3, <3>4 DEF Holds
  <2>5. CASE col.kind = "UUID"
    <3>1. v.is = "uuid" /\ T = Prim("str")
      BY <2>5 DEF ValidatorOf, TypeOf, Validator
    <3>2. c = UUIDValidator(v, f, x)
      BY <2>c, <3>1 DEF Call
    <3>3. HasText(x) /\ Reads[TextOf(x)].uuid # Unread /\ y = Reads[TextOf(x)].uuid
      BY <2>1, <2>p, <3>1, <3>2, Outcomes DEF UUIDValidator
    <3>t. PICK t : t = TextOf(x)
      OBVIOUS
    <3>r. t \in DOMAIN Reads
      BY <2>3, <3>3, <3>t, TextsAssumption DEF HasText, TextOf
    <3>4. y = <<"str", y[2]>> /\ y[2] \in DOMAIN Reads \ {"NULL"} /\ Reads[y[2]].uuid = y
      BY <3>3, <3>t, <3>r, ReadsAssumption
    <3>5. y # Null /\ y # <<"str", "NULL">>
      BY <3>4 DEF Null
    <3>6. QED
      BY <2>5, <3>4, <3>5 DEF Holds, IsNull
  <2>6. CASE col.kind = "Integer"
    <3>1. v.is = "number" /\ v.min = {} /\ v.max = {} /\ v.round = TRUE /\ T = Prim("int")
      BY <2>6 DEF ValidatorOf, TypeOf, Validator
    <3>2. c = NumberValidator(v, f, x)
      BY <2>c, <3>1 DEF Call
    <3> DEFINE n == ToNumber(x)
    <3>3. IsAmount(n)
      BY <2>3, ReadsAssumption DEF Sendable, ToNumber, IsAmount
    <3>4. n # Unread /\ c = Ok(IF n # NaN THEN Round(n) ELSE n)
      BY <2>1, <3>1, <3>2, Outcomes DEF NumberValidator, BoundedNumberValidator
    <3>5. y = (IF n # NaN THEN Round(n) ELSE n) /\ IsInt(y)
      BY <2>1, <2>p, <3>1, <3>4, Outcomes DEF IsInstance
    <3>6. n # NaN /\ IsInt(n) /\ y = <<"int", Amount(n)>>
      BY <3>5 DEF IsInt, Round, NaN
    <3>7. Amount(n) \in Int
      BY <3>3, <3>6 DEF IsInt, IsAmount, Amount
    <3>8. QED
      BY <2>6, <3>6, <3>7 DEF Holds, IsNull, Null
  <2>7. CASE col.kind = "Numeric"
    <3>1. v.is = "decimal" /\ v.min = {} /\ v.max = {} /\ v.round = col.round /\ T = Prim("decimal")
      BY <2>7 DEF ValidatorOf, TypeOf, Validator
    <3>2. c = DecimalValidator(v, f, x)
      BY <2>c, <3>1 DEF Call
    <3> DEFINE n == ToNumber(x)
               d == IF n = NaN THEN n ELSE <<"dec", n[2]>>
    <3>3. IsAmount(n)
      BY <2>3, ReadsAssumption DEF Sendable, ToNumber, IsAmount
    <3>4. n[1] \in {"int", "float", "dec", "nan"} /\ c = NumberValidator(v, f, d)
      BY <2>1, <3>2, Outcomes DEF DecimalValidator
    <3>5. CASE n = NaN
      <4>1. d = NaN /\ ToNumber(NaN) = NaN /\ NaN # Unread
        BY <3>5 DEF ToNumber, IsText, NaN, Unread
      <4>2. NumberValidator(v, f, NaN) = Ok(NaN)
        BY <3>1, <4>1 DEF NumberValidator, BoundedNumberValidator
      <4>3. c = Ok(NaN)
        BY <3>4, <4>1, <4>2
      <4>4. QED
        BY <2>1, <2>p, <2>7, <3>1, <4>3, Outcomes DEF Holds, NaN, IsNull, Null
    <3>6. CASE n # NaN
      <4>1. d = <<"dec", n[2]>> /\ n[2] \in Int
        BY <3>3, <3>4, <3>6 DEF IsAmount, NaN
      <4>2. ToNumber(d) = d /\ d # NaN /\ d # Unread /\ IsNumber(d) /\ ~IsInt(d)
        BY <4>1 DEF ToNumber, IsText, NaN, Unread, IsNumber, IsInt
      <4>3. c = Ok(IF col.round THEN <<"dec", HalfEven(n[2])>> ELSE <<"dec", n[2]>>)
        BY <3>1, <3>4, <4>1, <4>2 DEF NumberValidator, BoundedNumberValidator, Round
      <4>4. y = IF col.round THEN <<"dec", HalfEven(n[2])>> ELSE <<"dec", n[2]>>
        BY <2>1, <2>p, <3>1, <4>3, Outcomes
      <4>5. QED
        BY <2>7, <4>1, <4>4, HalfEvenTwice DEF Holds, IsNull, Null
    <3>7. QED
      BY <3>5, <3>6
  <2>8. CASE col.kind = "Boolean"
    <3>1. v.is = "bool" /\ T = Prim("bool")
      BY <2>8 DEF ValidatorOf, TypeOf, Validator
    <3>2. c = Ok(Str2Bool(x))
      BY <2>c, <3>1 DEF Call
    <3>3. y = Str2Bool(x)
      BY <2>1, <2>p, <3>1, <3>2, Outcomes
    <3>4. QED
      BY <2>8, <3>3 DEF Holds, Str2Bool, IsNull, Null
  <2>9. CASE col.kind = "Enum"
    <3>1. v.is = "enum" /\ v.choices = col.members /\ T = <<"enum", col.members>> /\ f.type[1] = "enum"
      BY <2>2, <2>9 DEF ValidatorOf, TypeOf, Validator
    <3>2. c = EnumValidator(v, f, x)
      BY <2>c, <3>1 DEF Call
    <3>3. y = <<"enum", x[2]>> /\ x[2] \in col.members
      BY <2>1, <2>e, <3>1, <3>2, Outcomes DEF EnumValidator
    <3>4. QED
      BY <2>9, <3>3 DEF Holds, IsNull, Null
  <2>10. CASE col.kind = "Date"
    <3>1. v.is = "date" /\ T = Prim("date")
      BY <2>10 DEF ValidatorOf, TypeOf, Validator
    <3>2. c = DateValidator(v, f, x)
      BY <2>c, <3>1 DEF Call
    <3>3. CASE IsText(x)
      <4> DEFINE m == Reads[x[2]].moment
      <4>1. m \in {Unread, TooLarge} \/ (m = <<"datetime", m[2]>> /\ IsMoment(m[2]))
        BY <2>3, <3>3, ReadsAssumption
      <4>2. m[1] = "datetime" /\ y = <<"date", DayOf[m[2]]>>
        BY <2>1, <2>p, <3>1, <3>2, <3>3, Outcomes DEF DateValidator, Moment, IsText
      <4>3. IsDay(DayOf[m[2]])
        BY <4>1, <4>2 DEF IsMoment, Unread, TooLarge
      <4>4. QED
        BY <2>10, <4>2, <4>3 DEF Holds, IsNull, Null
    <3>4. CASE ~IsText(x)
      <4>1. y = x /\ x[1] \in {"date", "datetime"}
        BY <2>1, <2>p, <3>1, <3>2, <3>4, Outcomes DEF DateValidator
      <4>2. QED
        BY <4>1 DEF Sendable
    <3>5. QED
      BY <3>3, <3>4
  <2>11. CASE col.kind = "DateTime"
    <3>1. v.is = "datetime" /\ v.timezone = col.timezone /\ T = Prim("datetime")
      BY <2>11 DEF ValidatorOf, TypeOf, Validator
    <3>2. c = DateTimeValidator(v, f, x)
      BY <2>c, <3>1 DEF Call
    <3> DEFINE m == Moment(x)
    <3>3. m[1] = "datetime" /\ c[1] = "ok" /\ y = c[2]
      BY <2>1, <2>p, <3>1, <3>2, Outcomes DEF DateTimeValidator
    <3>4. m = <<"datetime", m[2]>> /\ IsMoment(m[2])
      <4>1. CASE IsText(x)
        BY <2>3, <3>3, <4>1, ReadsAssumption DEF Moment, Unread, TooLarge
      <4>2. CASE ~IsText(x)
        <5>1. m = x /\ x[1] = "datetime"
          BY <3>3, <4>2 DEF Moment
        <5>2. Holds(col, x) /\ x # Null
          BY <5>1 DEF Sendable, Null
        <5>3. QED
          BY <2>11, <5>1, <5>2 DEF Holds
      <4>3. QED
        BY <4>1, <4>2
    <3>5. CASE ~col.timezone \/ m[2] \in Zoned
      <4>1. y = m
        BY <3>1, <3>2, <3>3, <3>5, Outcomes DEF DateTimeValidator
      <4>2. QED
        BY <2>11, <3>4, <3>5, <4>1 DEF Holds, IsNull, Null
    <3>6. CASE ~(~col.timezone \/ m[2] \in Zoned)
      <4>1. m[2] \in Midnight /\ y = <<"datetime", AsUtc[m[2]]>>
        BY <3>1, <3>2, <3>3, <3>6, Outcomes DEF DateTimeValidator
      <4>2. AsUtc[m[2]] \in Zoned /\ IsMoment(AsUtc[m[2]])
        BY <4>1, ReadsAssumption
      <4>3. QED
        BY <2>11, <4>1, <4>2 DEF Holds, IsNull, Null
    <3>7. QED
      BY <3>5, <3>6
  <2>12. CASE col.kind = "JSON"
    <3>1. v.is = "json" /\ T = <<IF col.default[1] = "list" THEN "list" ELSE "dict", <<"any", 0>>>>
      BY <2>12 DEF ValidatorOf, TypeOf, Validator
    <3>2. c = Ok(JSONValue(x))
      BY <2>c, <3>1 DEF Call
    <3> DEFINE j == JSONValue(x)
               inside == [k \in DOMAIN j[2] |-> IF IsNull(j[2][k]) THEN Null ELSE j[2][k]]
    <3>3. Valued(T, j) = Ok(y)
      BY <2>1, <3>2, Outcomes
    <3>4. y = <<IF col.default[1] = "list" THEN "list" ELSE "obj", inside>>
      <4>0. /\ Valued(<<"list", <<"any", 0>>>>, j) =
                 IF j[1] = "list" THEN Ok(<<"list", inside>>) ELSE Wrong({})
            /\ Valued(<<"dict", <<"any", 0>>>>, j) =
                 IF j[1] = "obj" THEN Ok(<<"obj", inside>>) ELSE Wrong({})
        BY AnyInside
      <4> HIDE DEF j, inside
      <4>1. CASE col.default[1] = "list"
        BY <3>1, <3>3, <4>0, <4>1, Outcomes
      <4>2. CASE col.default[1] # "list"
        BY <3>1, <3>3, <4>0, <4>2, Outcomes
      <4>3. QED
        BY <4>1, <4>2
    <3>5. QED
      BY <2>12, <3>4 DEF Holds, IsNull, Null
  <2>13. QED
    BY <2>4, <2>5, <2>6, <2>7, <2>8, <2>9, <2>10, <2>11, <2>12 DEF Kinds
<1>3. QED
  BY <1>1, <1>2

-----------------------------------------------------------------------------
(* A field with one validator dumps with that one (dump.py:51,             *)
(* fields.py:293).                                                         *)
LEMMA DumpOne == ASSUME NEW f, NEW x, NEW v, f.validators = <<v>> PROVE DumpField(f, x) = DumpBy(v, x)
<1> DEFINE F(it) == [s \in SUBSET {1} |-> IF s = {} THEN x ELSE
                        DumpBy(f.validators[Max(s)], it[s \ {Max(s)}])]
<1>0. DOMAIN f.validators = {1} /\ f.validators[1] = v
  OBVIOUS
<1>1. DumpField(f, x) = (CHOOSE it : it = F(it))[{1}]
  BY <1>0, Zenon DEF DumpField, FoldLeft, MapThenFoldSet
<1>2. \E it : it = F(it)
  <2> WITNESS [s \in SUBSET {1} |-> IF s = {} THEN x ELSE DumpBy(v, x)]
  <2> QED BY MaxOne, <1>0
<1>3. (CHOOSE it : it = F(it)) = F(CHOOSE it : it = F(it))
  <2> HIDE DEF F
  <2> QED BY <1>2
<1>4. PICK it : it = F(it) /\ DumpField(f, x) = it[{1}]
  <2> HIDE DEF F
  <2> QED BY <1>1, <1>3
<1>5. {} \in SUBSET {1} /\ {1} \in SUBSET {1} /\ {1} \ {1} = {} /\ {1} # {}
  OBVIOUS
<1>6. it[{}] = x
  BY <1>4, <1>5
<1>7. it[{1}] = DumpBy(f.validators[Max({1})], it[{1} \ {Max({1})}])
  BY <1>4, <1>5
<1>8. QED
  BY <1>0, <1>4, <1>5, <1>6, <1>7, MaxOne

(* What PostgreSQL gives back of a column's value is one again, is not     *)
(* changed when it is written and read once more, and is refused when the  *)
(* value was.                                                              *)
LEMMA ReadBackHolds ==
  ASSUME NEW col, col.kind \in Kinds, col.timezone => col.kind = "DateTime", NEW x, Holds(col, x),
         NEW y, y = ReadBack(col, x)
  PROVE  Holds(col, y) /\ ReadBack(col, y) = y /\ (Refused(col, y) <=> Refused(col, x))
<1>1. CASE x[1] = "datetime" /\ col.timezone
  <2>1. y = <<"datetime", AsUtc[x[2]]>> /\ x # Null
    BY <1>1 DEF ReadBack, Null
  <2>2. col.kind = "DateTime"
    BY <1>1
  <2>3. x[2] \in Zoned
    BY <1>1, <2>1, <2>2 DEF Holds
  <2>4. /\ AsUtc[x[2]] \in Zoned /\ AsUtc[AsUtc[x[2]]] = AsUtc[x[2]] /\ IsMoment(AsUtc[x[2]])
    BY <2>3, ReadsAssumption
  <2>5. Holds(col, y)
    BY <2>1, <2>2, <2>4 DEF Holds, IsNull, Null
  <2>6. ReadBack(col, y) = y
    BY <1>1, <2>1, <2>4 DEF ReadBack
  <2>7. QED
    BY <1>1, <2>1, <2>2, <2>5, <2>6 DEF Refused, Unfit, Null
<1>2. CASE ~(x[1] = "datetime" /\ col.timezone)
  <2>1. y = x
    <3>1. CASE col.kind = "Numeric" /\ IsNumber(x)
      <4>1. x = <<"dec", x[2]>>
        BY <3>1 DEF Holds, IsNumber, NaN, Null
      <4>2. QED
        BY <1>2, <3>1, <4>1 DEF ReadBack, Amount
    <3>2. CASE ~(col.kind = "Numeric" /\ IsNumber(x))
      BY <1>2, <3>2 DEF ReadBack
    <3>3. QED
      BY <3>1, <3>2
  <2>2. QED
    BY <2>1
<1>3. QED
  BY <1>1, <1>2

(* A Boolean is read as it is. *)
LEMMA Str2BoolIs ==
  ASSUME NEW r, r = <<"bool", TRUE>> \/ r = <<"bool", FALSE>>
  PROVE  Str2Bool(r) = r
<1>1. CASE r = <<"bool", TRUE>>
  <2>1. r \in {<<"bool", TRUE>>, <<"int", 2>>}
    BY <1>1
  <2>2. (r \in {<<"bool", TRUE>>, <<"int", 2>>} \/ (IsText(r) /\ Reads[r[2]].yes)) = TRUE
    BY <2>1, Zenon
  <2>3. QED
    BY <1>1, <2>2, Zenon DEF Str2Bool
<1>2. CASE r = <<"bool", FALSE>>
  <2>1. r \notin {<<"bool", TRUE>>, <<"int", 2>>} /\ ~IsText(r)
    BY <1>2 DEF IsText
  <2>2. (r \in {<<"bool", TRUE>>, <<"int", 2>>} \/ (IsText(r) /\ Reads[r[2]].yes)) = FALSE
    BY <2>1, Zenon
  <2>3. QED
    BY <1>2, <2>2, Zenon DEF Str2Bool
<1>3. QED
  BY <1>1, <1>2

(* Every validator reads what its dump writes: a value of a column that    *)
(* was dumped is accepted and is the same value again, or what it was      *)
(* rounded to (fields.py:244).                                             *)
LEMMA Resent ==
  ASSUME Unfolds, NEW col, col.kind \in Kinds, "NULL" \notin col.members, NEW required, NEW default,
         NEW f, f = FieldOf(col, required, default),
         NEW r, Holds(col, r), r # Null,
         NEW d, d = Dump(f.type, DumpField(f, r))
  PROVE  Collects(f, d) = Ok(r)
<1> DEFINE v == ValidatorOf(col)
           T == TypeOf(col)
<1>1. f.type = T /\ f.validators = <<v>>
  BY FieldOfColumn, ConvertedHas
<1>2. d = DumpType(T, DumpBy(v, r))
  BY <1>1, DumpOne, TypeOfColumn DEF Unfolds
<1>3. ASSUME ~IsNull(d), Call(v, f, d) = Ok(r), Valued(T, r) = Ok(r) PROVE Collects(f, d) = Ok(r)
  <2>1. PICK called : called = Call(v, f, d)
    OBVIOUS
  <2>2. Collects(f, d) = IF called[1] = "ok" THEN Valued(T, called[2]) ELSE called
    BY <1>3, <2>1, CollectsAs
  <2>3. called = Ok(r)
    BY <1>3, <2>1
  <2>4. QED
    BY <1>3, <2>2, <2>3, Outcomes
<1>4. ASSUME NEW p, T = Prim(p) PROVE d = DumpBy(v, r) /\ (IsInstance(r, p) => Valued(T, r) = Ok(r))
  BY <1>2, <1>4, TypesAs DEF DumpType, Prim
<1>5. ~IsNull(r)
  BY DEF Holds
<1>6. CASE col.kind = "String"
  <2>1. v.is = "str" /\ v.min = col.min \ {0} /\ v.max = {col.length} \ {0} /\ T = Prim("str")
    BY <1>6 DEF ValidatorOf, TypeOf, Validator
  <2>2. d = r /\ (IsInstance(r, "str") => Valued(T, r) = Ok(r))
    BY <1>4, <2>1 DEF DumpBy
  <2>3. Call(v, f, d) = StrValidator(v, f, r)
    BY <2>1, <2>2 DEF Call
  <2>4. IsText(r) /\ ~Below(v.min, Reads[r[2]].length) /\ ~Above(v.max, Reads[r[2]].length)
    BY <1>6, <2>1 DEF Holds, IsText
  <2>5. StrValidator(v, f, r) = Ok(r)
    BY <2>4 DEF StrValidator
  <2>6. IsInstance(r, "str")
    BY <2>4 DEF IsInstance, IsText
  <2>7. QED
    BY <1>3, <1>5, <2>2, <2>3, <2>5, <2>6
<1>7. CASE col.kind = "UUID"
  <2>1. v.is = "uuid" /\ T = Prim("str")
    BY <1>7 DEF ValidatorOf, TypeOf, Validator
  <2>2. d = r /\ (IsInstance(r, "str") => Valued(T, r) = Ok(r))
    BY <1>4, <2>1 DEF DumpBy
  <2>3. Call(v, f, d) = UUIDValidator(v, f, r)
    BY <2>1, <2>2 DEF Call
  <2>4. IsText(r) /\ Reads[r[2]].uuid = r
    BY <1>7 DEF Holds, IsText
  <2>5. UUIDValidator(v, f, r) = Ok(r)
    BY <2>4 DEF UUIDValidator, HasText, TextOf, IsText, Unread
  <2>6. IsInstance(r, "str")
    BY <2>4 DEF IsInstance, IsText
  <2>7. QED
    BY <1>3, <1>5, <2>2, <2>3, <2>5, <2>6
<1>8. CASE col.kind = "Integer"
  <2>1. v.is = "number" /\ v.min = {} /\ v.max = {} /\ v.round = TRUE /\ T = Prim("int")
    BY <1>8 DEF ValidatorOf, TypeOf, Validator
  <2>2. r = <<"int", r[2]>>
    BY <1>8 DEF Holds
  <2>3. ToNumber(r) = r /\ IsInt(r) /\ IsNumber(r) /\ r # Unread /\ r # NaN /\ Round(r) = r
    BY <2>2 DEF ToNumber, IsText, IsInt, IsNumber, Unread, NaN, Round, Amount
  <2>4. d = r /\ (IsInstance(r, "int") => Valued(T, r) = Ok(r))
    BY <1>4, <2>1, <2>3 DEF DumpBy, DumpNumber
  <2>5. Call(v, f, d) = NumberValidator(v, f, r)
    BY <2>1, <2>4 DEF Call
  <2>6. NumberValidator(v, f, r) = Ok(r)
    BY <2>1, <2>3 DEF NumberValidator, BoundedNumberValidator
  <2>7. IsInstance(r, "int")
    BY <2>3 DEF IsInstance
  <2>8. QED
    BY <1>3, <1>5, <2>4, <2>5, <2>6, <2>7
<1>9. CASE col.kind = "Numeric"
  <2>1. v.is = "decimal" /\ v.min = {} /\ v.max = {} /\ v.round = col.round /\ T = Prim("decimal")
    BY <1>9 DEF ValidatorOf, TypeOf, Validator
  <2>2. r = NaN \/ (r = <<"dec", r[2]>> /\ r[2] \in Int /\ (col.round => HalfEven(r[2]) = r[2]))
    BY <1>9 DEF Holds
  <2>3. ToNumber(r) = r /\ ~IsInt(r) /\ r # Unread /\ (col.round => Round(r) = r)
    <3>1. HalfEven(0) = 0
      BY DEF HalfEven
    <3>2. QED
      BY <2>2, <3>1 DEF ToNumber, IsText, IsInt, Unread, NaN, Round
  <2>4. d = r /\ (IsInstance(r, "decimal") => Valued(T, r) = Ok(r))
    BY <1>4, <2>1, <2>3 DEF DumpBy, DumpNumber
  <2>5. Call(v, f, d) = DecimalValidator(v, f, r)
    BY <2>1, <2>4 DEF Call
  <2>6. DecimalValidator(v, f, r) = NumberValidator(v, f, r)
    <3>1. r[1] \in {"int", "float", "dec", "nan"} /\ (r # NaN => <<"dec", r[2]>> = r)
      BY <2>2 DEF NaN
    <3>2. QED
      BY <2>3, <3>1 DEF DecimalValidator
  <2>7. NumberValidator(v, f, r) = Ok(r)
    <3>1. IsNumber(r) \/ r = NaN
      BY <2>2 DEF IsNumber, NaN
    <3>2. QED
      BY <2>1, <2>3, <3>1 DEF NumberValidator, BoundedNumberValidator
  <2>8. IsInstance(r, "decimal")
    BY <2>2 DEF IsInstance, NaN
  <2>9. QED
    BY <1>3, <1>5, <2>4, <2>5, <2>6, <2>7, <2>8
<1>10. CASE col.kind = "Boolean"
  <2>1. v.is = "bool" /\ T = Prim("bool")
    BY <1>10 DEF ValidatorOf, TypeOf, Validator
  <2>2. r = <<"bool", TRUE>> \/ r = <<"bool", FALSE>>
    BY <1>10 DEF Holds
  <2>3. Str2Bool(r) = r
    BY <2>2, Str2BoolIs
  <2>4. d = r /\ (IsInstance(r, "bool") => Valued(T, r) = Ok(r))
    BY <1>4, <2>1, <2>3 DEF DumpBy
  <2>5. Call(v, f, d) = Ok(r)
    BY <2>1, <2>3, <2>4 DEF Call
  <2>6. IsInstance(r, "bool")
    <3>1. r[1] = "bool"
      <4>1. r = <<"bool", r[2]>>
        BY <1>10 DEF Holds
      <4>2. QED
        BY <4>1
    <3>2. IsInstance(r, "bool") <=> r[1] = "bool"
      BY DEF IsInstance
    <3>3. QED
      BY <3>1, <3>2
  <2>7. QED
    BY <1>3, <1>5, <2>4, <2>5, <2>6
<1>11. CASE col.kind = "Enum"
  <2>1. v.is = "enum" /\ v.choices = col.members /\ T = <<"enum", col.members>>
    BY <1>11 DEF ValidatorOf, TypeOf, Validator
  <2>2. r = <<"enum", r[2]>> /\ r[2] \in col.members
    BY <1>11 DEF Holds
  <2>3. d = <<"str", r[2]>> /\ ~IsNull(d)
    BY <1>2, <2>1, <2>2 DEF DumpType, DumpBy, DumpEnum, IsNull, Null
  <2>4. Call(v, f, d) = EnumValidator(v, f, d)
    BY <2>1 DEF Call
  <2>5. EnumValidator(v, f, d) = Ok(r)
    BY <1>1, <2>1, <2>2, <2>3 DEF EnumValidator
  <2>6. Valued(<<"enum", col.members>>, r) = IF r[1] = "enum" THEN Ok(r) ELSE Wrong({})
    BY TypesAs
  <2>7. QED
    BY <1>3, <2>1, <2>2, <2>3, <2>4, <2>5, <2>6
<1>12. CASE col.kind = "Date"
  <2>1. v.is = "date" /\ T = Prim("date")
    BY <1>12 DEF ValidatorOf, TypeOf, Validator
  <2>2. r = <<"date", r[2]>> /\ IsDay(r[2])
    BY <1>12 DEF Holds
  <2>3. d = <<"str", r[2]>> /\ (IsInstance(r, "date") => Valued(T, r) = Ok(r))
    BY <1>4, <2>1, <2>2 DEF DumpBy, DumpDate
  <2>4. ~IsNull(d) /\ Reads[r[2]].moment[1] = "datetime" /\ DayOf[Reads[r[2]].moment[2]] = r[2]
    BY <2>2, <2>3 DEF IsDay, IsNull, Null
  <2>5. Call(v, f, d) = DateValidator(v, f, d)
    BY <2>1 DEF Call
  <2>6. DateValidator(v, f, d) = Ok(r)
    BY <2>2, <2>3, <2>4 DEF DateValidator, Moment, IsText, TooLarge
  <2>7. IsInstance(r, "date")
    BY <2>2 DEF IsInstance
  <2>8. QED
    BY <1>3, <2>3, <2>4, <2>5, <2>6, <2>7
<1>13. CASE col.kind = "DateTime"
  <2>1. v.is = "datetime" /\ v.timezone = col.timezone /\ T = Prim("datetime")
    BY <1>13 DEF ValidatorOf, TypeOf, Validator
  <2>2. r = <<"datetime", r[2]>> /\ IsMoment(r[2]) /\ (col.timezone => r[2] \in Zoned)
    BY <1>13 DEF Holds
  <2>3. d = <<"str", r[2]>> /\ (IsInstance(r, "datetime") => Valued(T, r) = Ok(r))
    BY <1>4, <2>1, <2>2 DEF DumpBy, DumpDateTime
  <2>4. ~IsNull(d) /\ Moment(d) = r
    BY <2>2, <2>3 DEF IsMoment, IsNull, Null, Moment, IsText
  <2>5. Call(v, f, d) = DateTimeValidator(v, f, d)
    BY <2>1 DEF Call
  <2>6. DateTimeValidator(v, f, d) = Ok(r)
    <3>1. Moment(d) # TooLarge
      BY <2>2, <2>4 DEF TooLarge
    <3>2. r[1] = "datetime"
      BY <2>2
    <3>3. QED
      BY <1>1, <2>1, <2>2, <2>4, <3>1, <3>2 DEF DateTimeValidator
  <2>7. IsInstance(r, "datetime")
    BY <2>2 DEF IsInstance
  <2>8. QED
    BY <1>3, <2>3, <2>4, <2>5, <2>6, <2>7
<1>14. CASE col.kind = "JSON"
  <2> DEFINE list == col.default[1] = "list"
             inside == [k \in DOMAIN r[2] |-> IF IsNull(r[2][k]) THEN Null ELSE r[2][k]]
             dumped == [k \in DOMAIN r[2] |-> Dump(<<"any", 0>>, r[2][k])]
  <2>1. v.is = "json" /\ T = <<IF list THEN "list" ELSE "dict", <<"any", 0>>>>
    BY <1>14 DEF ValidatorOf, TypeOf, Validator
  <2>2. /\ r = <<IF list THEN "list" ELSE "obj", [k \in DOMAIN r[2] |-> r[2][k]]>>
        /\ \A k \in DOMAIN r[2] : IsNull(r[2][k]) => r[2][k] = Null
    BY <1>14 DEF Holds
  <2>3. inside = [k \in DOMAIN r[2] |-> r[2][k]]
    BY <2>2
  <2>4. dumped = [k \in DOMAIN r[2] |-> r[2][k]]
    <3>1. \A z : Dump(<<"any", 0>>, z) = z
      BY DEF Unfolds, DumpType
    <3>2. QED
      BY <3>1
  <2>5. JSONValue(r) = r
    BY <2>2 DEF JSONValue, IsText
  <2>6. DumpBy(v, r) = r
    BY <2>1, <2>5 DEF DumpBy
  <2>7. d = r
    <3>1. d = DumpType(T, r)
      BY <1>2, <2>6
    <3>2. CASE list
      <4>1. DumpType(T, r) = <<"list", dumped>>
        BY <2>1, <3>2 DEF DumpType
      <4>2. QED
        BY <2>2, <2>4, <3>1, <3>2, <4>1
    <3>3. CASE ~list
      <4>1. DumpType(T, r) = <<"obj", dumped>>
        BY <2>1, <3>3 DEF DumpType
      <4>2. QED
        BY <2>2, <2>4, <3>1, <3>3, <4>1
    <3>4. QED
      BY <3>2, <3>3
  <2>8. Call(v, f, d) = Ok(r)
    BY <2>1, <2>5, <2>7 DEF Call
  <2>9. Valued(T, r) = Ok(r)
    <3>1. /\ Valued(<<"list", <<"any", 0>>>>, r) =
               IF r[1] = "list" THEN Ok(<<"list", inside>>) ELSE Wrong({})
          /\ Valued(<<"dict", <<"any", 0>>>>, r) =
               IF r[1] = "obj" THEN Ok(<<"obj", inside>>) ELSE Wrong({})
      BY AnyInside
    <3> HIDE DEF inside
    <3>2. QED
      BY <2>1, <2>2, <2>3, <3>1
  <2>10. QED
    BY <1>3, <1>5, <2>7, <2>8, <2>9
<1>15. QED
  BY <1>6, <1>7, <1>8, <1>9, <1>10, <1>11, <1>12, <1>13, <1>14 DEF Kinds

-----------------------------------------------------------------------------
(* A set of indices has a first one. *)
LEMMA First ==
  ASSUME NEW S \in SUBSET Nat, S # {}
  PROVE  \E i \in S : \A j \in S : i <= j
<1> DEFINE lower == {ss \in Nat \X Nat : ss[1] < ss[2]}
<1>1. IsWellFoundedOn(lower, Nat)
  BY NatLessThanWellFounded DEF OpToRel
<1>2. \E i \in S : \A j \in S : ~(<<j, i>> \in lower)
  <2> HIDE DEF lower
  <2>1. QED
    BY <1>1, WFMin, Zenon
<1>3. PICK i \in S : \A j \in S : ~(<<j, i>> \in lower)
  BY <1>2
<1>4. ASSUME NEW j \in S PROVE i <= j
  <2>1. i \in Nat /\ j \in Nat
    OBVIOUS
  <2>2. ~(<<j, i>> \in lower)
    <3> HIDE DEF lower
    <3>1. QED
      BY <1>3
  <2>3. ~(j < i)
    BY <2>1, <2>2
  <2>4. QED
    BY <2>1, <2>3
<1>5. QED
  BY <1>4

(* Calls in order: all of their values, or the outcome of one that failed. *)
LEMMA InOrderIs ==
  ASSUME NEW outcomes, DOMAIN outcomes \subseteq Nat
  PROVE  /\ (\A i \in DOMAIN outcomes : outcomes[i][1] = "ok") =>
              InOrder(outcomes) = Ok([i \in DOMAIN outcomes |-> outcomes[i][2]])
         /\ ~(\A i \in DOMAIN outcomes : outcomes[i][1] = "ok") =>
              \E i \in DOMAIN outcomes : InOrder(outcomes) = outcomes[i] /\ outcomes[i][1] # "ok"
<1> DEFINE bad == {i \in DOMAIN outcomes : outcomes[i][1] # "ok"}
<1>1. InOrder(outcomes) = IF bad = {} THEN Ok([i \in DOMAIN outcomes |-> outcomes[i][2]])
                          ELSE outcomes[CHOOSE i \in bad : \A j \in bad : i <= j]
  BY DEF InOrder
<1>2. CASE bad = {}
  <2>1. \A i \in DOMAIN outcomes : outcomes[i][1] = "ok"
    BY <1>2
  <2>2. QED
    BY <1>1, <1>2, <2>1
<1>3. CASE bad # {}
  <2>1. bad \in SUBSET Nat
    OBVIOUS
  <2>2. PICK i : i = CHOOSE k \in bad : \A j \in bad : k <= j
    OBVIOUS
  <2>3. i \in bad
    <3> HIDE DEF bad
    <3>1. QED
      BY <1>3, <2>1, <2>2, First
  <2>4. InOrder(outcomes) = outcomes[i]
    <3> HIDE DEF bad
    <3>1. QED
      BY <1>1, <1>3, <2>2
  <2>5. QED
    BY <2>3, <2>4
<1>4. QED
  BY <1>2, <1>3

(* An entry of a body is one value, whatever is repeated                   *)
(* (validate.py:254).                                                      *)
LEMMA ParameterOne ==
  ASSUME NEW f, NEW values, NEW c, c = Collects(f, values[1])
  PROVE  Parameter(f, values, FALSE) = IF c[1] = "ok" THEN Ok(c[2]) ELSE c
<1> DEFINE given == <<values[1]>>
           each == [i \in DOMAIN given |-> CollectValue(f, given[i], TRUE, FALSE)]
<1>1. DOMAIN given = {1} /\ given[1] = values[1] /\ Len(given) = 1
  OBVIOUS
<1>2. each = [i \in {1} |-> c]
  BY <1>1 DEF Collects
<1>3. DOMAIN each = {1} /\ each[1] = c
  <2> HIDE DEF each
  <2>1. QED
    BY <1>2
<1>4. InOrder(each) = IF c[1] = "ok" THEN Ok([i \in {1} |-> c[2]]) ELSE c
  <2> HIDE DEF each
  <2>1. DOMAIN each \subseteq Nat
    BY <1>3
  <2>2. CASE c[1] = "ok"
    <3>1. InOrder(each) = Ok([i \in DOMAIN each |-> each[i][2]])
      BY <1>3, <2>1, <2>2, InOrderIs
    <3>2. [i \in DOMAIN each |-> each[i][2]] = [i \in {1} |-> c[2]]
      BY <1>3
    <3>3. QED
      BY <2>2, <3>1, <3>2
  <2>3. CASE c[1] # "ok"
    BY <1>3, <2>1, <2>3, InOrderIs
  <2>4. QED
    BY <2>2, <2>3
<1>5. Parameter(f, values, FALSE) =
        IF InOrder(each)[1] = "ok" THEN Ok(InOrder(each)[2][1]) ELSE InOrder(each)
  BY <1>1 DEF Parameter, IfOk
<1>6. QED
  <2> HIDE DEF each
  <2>1. CASE c[1] = "ok"
    <3>1. InOrder(each)[1] = "ok" /\ InOrder(each)[2] = [i \in {1} |-> c[2]]
      BY <1>4, <2>1, Outcomes
    <3>2. InOrder(each)[2][1] = c[2]
      BY <3>1
    <3>3. QED
      BY <1>5, <2>1, <3>1, <3>2
  <2>2. CASE c[1] # "ok"
    BY <1>4, <1>5, <2>2
  <2>3. QED
    BY <2>1, <2>2

(* The names that a field is looked for under: its own comes first, and no *)
(* operation has it.                                                       *)
LEMMA OpsOf ==
  ASSUME NEW f, f.ops \in Seq(Range(f.ops))
  PROVE  /\ DOMAIN FieldOps(f) \subseteq Nat /\ 1 \in DOMAIN FieldOps(f) /\ FieldOps(f)[1] = f.name
         /\ \A i \in DOMAIN FieldOps(f) : i # 1 => FieldOps(f)[i] \in Range(f.ops)
<1>1. PICK s : s = f.ops
  OBVIOUS
<1>2. s \in Seq(Range(s))
  BY <1>1
<1>3. PICK o : o = FieldOps(f)
  OBVIOUS
<1>4. o = <<f.name>> \o s
  BY <1>1, <1>3 DEF FieldOps
<1>5. Len(<<f.name>>) = 1 /\ <<f.name>> \in Seq({f.name})
  OBVIOUS
<1>6. DOMAIN o = 1 .. 1 + Len(s) /\ o[1] = f.name /\ Len(s) \in Nat
  BY <1>2, <1>4, <1>5
<1>7. \A i \in 1 .. 1 + Len(s) : i # 1 => o[i] = s[i - 1] /\ i - 1 \in 1 .. Len(s)
  BY <1>2, <1>4, <1>5, <1>6
<1>8. \A i \in 1 .. Len(s) : s[i] \in Range(s)
  BY <1>2 DEF Range
<1>9. QED
  BY <1>1, <1>3, <1>6, <1>7, <1>8

(* What is collected for one field of a body. *)
ValuesOf(f, given, strict) == FieldValues(f, given, strict, FALSE)

(* The same, once its default is filled in. *)
FieldValuesOf(f, data, strict) ==
    LET ops == {i \in DOMAIN FieldOps(f) : FieldOps(f)[i] \in DOMAIN data} IN
    IF f.name \notin DOMAIN data /\ Required(f) /\ strict THEN Invalid(f.name)
    ELSE IfOk(InOrder([i \in ops |-> Parameter(f, data[FieldOps(f)[i]], FALSE)]),
              LAMBDA all : Ok([n \in {FieldOps(f)[i] : i \in ops} |->
                                  all[CHOOSE i \in ops : FieldOps(f)[i] = n]]))

(* What is collected for a field are entries of its name and its           *)
(* operations, its own value among them when it is there; and a field of   *)
(* an update fails only by its own value (validate.py:238).                *)
LEMMA FieldValuesAre ==
  ASSUME NEW f, f.ops \in Seq(Range(f.ops)), f.name \notin Range(f.ops),
         NEW given, NEW strict, NEW data, data = WithDefault(f, given, strict),
         NEW v, v = ValuesOf(f, given, strict),
         NEW c, c = Collects(f, data[f.name][1])
  PROVE  /\ v[1] = "ok" =>
              /\ DOMAIN v[2] \subseteq DOMAIN data
              /\ DOMAIN v[2] \subseteq {f.name} \cup Range(f.ops)
              /\ f.name \in DOMAIN data => f.name \in DOMAIN v[2] /\ c[1] = "ok" /\ v[2][f.name] = c[2]
         /\ /\ ~strict /\ \A o \in Range(f.ops) : o \notin DOMAIN data
            /\ f.name \in DOMAIN data => c[1] = "ok"
            => v[1] = "ok"
<1> DEFINE names == FieldOps(f)
           ops == {i \in DOMAIN names : names[i] \in DOMAIN data}
           each == [i \in ops |-> Parameter(f, data[names[i]], FALSE)]
           all == InOrder(each)
           of == [n \in {names[i] : i \in ops} |-> all[2][CHOOSE i \in ops : names[i] = n]]
<1>1. v = IF f.name \notin DOMAIN data /\ Required(f) /\ strict THEN Invalid(f.name)
          ELSE IF all[1] = "ok" THEN Ok(of) ELSE all
  <2>1. v = FieldValuesOf(f, WithDefault(f, given, strict), strict)
    BY Zenon DEF ValuesOf, FieldValues, FieldValuesOf
  <2>2. v = FieldValuesOf(f, data, strict)
    BY <2>1
  <2>3. FieldValuesOf(f, data, strict) = IF f.name \notin DOMAIN data /\ Required(f) /\ strict THEN Invalid(f.name)
            ELSE IF all[1] = "ok" THEN Ok(of) ELSE all
    BY Zenon DEF FieldValuesOf, IfOk
  <2>4. QED
    BY <2>2, <2>3, Zenon
<1>2. /\ DOMAIN names \subseteq Nat /\ 1 \in DOMAIN names /\ names[1] = f.name
      /\ \A i \in DOMAIN names : i # 1 => names[i] \in Range(f.ops)
  BY OpsOf
<1>3. DOMAIN each = ops /\ ops \subseteq Nat
  BY <1>2
<1>4. f.name \in DOMAIN data => 1 \in ops /\ each[1] = IF c[1] = "ok" THEN Ok(c[2]) ELSE c
  <2>1. Parameter(f, data[f.name], FALSE) = IF c[1] = "ok" THEN Ok(c[2]) ELSE c
    BY ParameterOne
  <2>2. QED
    BY <1>2, <2>1
<1>5. /\ (\A i \in ops : each[i][1] = "ok") => all = Ok([i \in ops |-> each[i][2]])
      /\ all[1] = "ok" => \A i \in ops : each[i][1] = "ok"
  <2> HIDE DEF each, ops
  <2>1. QED
    BY <1>3, InOrderIs
<1>6. ASSUME v[1] = "ok"
      PROVE  /\ DOMAIN v[2] \subseteq DOMAIN data
             /\ DOMAIN v[2] \subseteq {f.name} \cup Range(f.ops)
             /\ f.name \in DOMAIN data => f.name \in DOMAIN v[2] /\ c[1] = "ok" /\ v[2][f.name] = c[2]
  <2>1. all[1] = "ok" /\ v = Ok(of)
    <3> HIDE DEF all, of
    <3>1. QED
      BY <1>1, <1>6, Outcomes
  <2>2. v[2] = of /\ DOMAIN v[2] = {names[i] : i \in ops}
    <3>1. v[2] = of
      <4> HIDE DEF all, of
      <4>1. QED
        BY <2>1, Outcomes
    <3>2. DOMAIN of = {names[i] : i \in ops}
      <4> HIDE DEF all, ops, names
      <4>1. QED
        OBVIOUS
    <3> HIDE DEF all, of, ops, names
    <3>3. QED
      BY <3>1, <3>2
  <2>3. DOMAIN v[2] \subseteq DOMAIN data /\ DOMAIN v[2] \subseteq {f.name} \cup Range(f.ops)
    <3>1. ASSUME NEW n \in DOMAIN v[2] PROVE n \in DOMAIN data /\ n \in {f.name} \cup Range(f.ops)
      <4>1. n \in {names[i] : i \in ops}
        <5> HIDE DEF of, ops, names
        <5>1. QED
          BY <2>2, <3>1
      <4>2. PICK i \in ops : n = names[i]
        BY <4>1
      <4>3. QED
        BY <1>2, <4>2
    <3>2. QED
      BY <3>1
  <2>4. ASSUME f.name \in DOMAIN data
        PROVE  f.name \in DOMAIN v[2] /\ c[1] = "ok" /\ v[2][f.name] = c[2]
    <3>1. 1 \in ops /\ each[1] = IF c[1] = "ok" THEN Ok(c[2]) ELSE c
      BY <1>4, <2>4
    <3>2. \A i \in ops : names[i] = f.name => i = 1
      BY <1>2
    <3>3. (CHOOSE i \in ops : names[i] = f.name) = 1
      <4> HIDE DEF ops
      <4>1. QED
        BY <1>2, <3>1, <3>2
    <3>4. f.name \in {names[i] : i \in ops}
      BY <1>2, <3>1
    <3>5. of[f.name] = all[2][1]
      <4> HIDE DEF all, ops
      <4>1. QED
        BY <3>3, <3>4
    <3>6. c[1] = "ok" /\ all = Ok([i \in ops |-> each[i][2]])
      <4> HIDE DEF all, ops, each
      <4>1. QED
        BY <1>5, <2>1, <3>1
    <3>7. all[2][1] = c[2]
      <4>1. all[2] = [i \in ops |-> each[i][2]]
        <5> HIDE DEF all, ops, each
        <5>1. QED
          BY <3>6, Outcomes
      <4>2. each[1][2] = c[2]
        BY <3>1, <3>6, Outcomes
      <4> HIDE DEF all, ops, each
      <4>3. QED
        BY <3>1, <4>1, <4>2
    <3>8. QED
      BY <2>2, <3>4, <3>5, <3>6, <3>7
  <2>5. QED
    BY <2>3, <2>4
<1>7. ASSUME ~strict, \A o \in Range(f.ops) : o \notin DOMAIN data, f.name \in DOMAIN data => c[1] = "ok"
      PROVE  v[1] = "ok"
  <2>1. \A i \in ops : i = 1 /\ f.name \in DOMAIN data
    BY <1>2, <1>7
  <2>2. \A i \in ops : each[i][1] = "ok"
    <3> HIDE DEF each, ops
    <3>1. QED
      BY <1>4, <1>7, <2>1, Outcomes
  <2>3. all[1] = "ok"
    <3> HIDE DEF all, each, ops
    <3>1. QED
      BY <1>5, <2>2, Outcomes
  <2>4. v = Ok(of)
    <3> HIDE DEF all, of
    <3>1. QED
      BY <1>1, <1>7, <2>3
  <2>5. QED
    <3> HIDE DEF of
    <3>1. QED
      BY <2>4, Outcomes
<1>8. QED
  BY <1>6, <1>7

-----------------------------------------------------------------------------
(* The entries of a body once the default of a field is filled in, and the *)
(* validation of a body.                                                   *)
Given(f, x, strict) == WithDefault(f, Entries(x), strict)
ClassValued(c, x, strict) == ValidateClass(c, x, strict, FALSE)

(* The entry of a field is what was sent, or its default, and a default is *)
(* filled in for a whole body only (validate.py:232).                      *)
LEMMA GivenIs ==
  ASSUME NEW f, NEW x, x[1] = "obj", NEW strict, NEW data, data = Given(f, x, strict)
  PROVE  /\ DOMAIN data \subseteq DOMAIN x[2] \cup {f.name}
         /\ f.name \in DOMAIN data =>
              \/ f.name \in DOMAIN x[2] /\ data[f.name][1] = x[2][f.name]
              \/ data[f.name][1] = f.default
         /\ strict /\ f.default # Null => f.name \in DOMAIN data
         /\ ~strict => DOMAIN data = DOMAIN x[2] /\ \A n \in DOMAIN data : data[n][1] = x[2][n]
<1>1. PICK e : e = Entries(x)
  OBVIOUS
<1>2. e = [n \in DOMAIN x[2] |-> <<x[2][n]>>]
  BY <1>1 DEF Entries
<1>3. DOMAIN e = DOMAIN x[2] /\ \A n \in DOMAIN e : e[n][1] = x[2][n]
  BY <1>2
<1>4. data = WithDefault(f, e, strict)
  BY <1>1 DEF Given
<1>5. CASE strict /\ f.default # Null /\ (f.name \in DOMAIN e => e[f.name][1] = Null)
  <2> DEFINE one == [n \in {f.name} |-> <<f.default>>]
  <2>1. data = Both(one, e)
    BY <1>4, <1>5 DEF WithDefault
  <2>2. DOMAIN data = {f.name} \cup DOMAIN e /\ data[f.name] = <<f.default>>
    <3>1. DOMAIN one = {f.name} /\ one[f.name] = <<f.default>>
      OBVIOUS
    <3>2. PICK o : o = one
      OBVIOUS
    <3> HIDE DEF one
    <3>3. data = Both(o, e) /\ DOMAIN o = {f.name} /\ o[f.name] = <<f.default>>
      BY <2>1, <3>1, <3>2
    <3>4. QED
      BY <3>3 DEF Both
  <2>3. data[f.name][1] = f.default
    BY <2>2
  <2>4. f.name \in DOMAIN data /\ DOMAIN data \subseteq DOMAIN x[2] \cup {f.name}
    BY <1>3, <2>2
  <2>5. QED
    BY <1>5, <2>3, <2>4, Zenon
<1>6. CASE ~(strict /\ f.default # Null /\ (f.name \in DOMAIN e => e[f.name][1] = Null))
  <2>1. data = e
    BY <1>4, <1>6 DEF WithDefault
  <2>2. QED
    BY <1>3, <1>6, <2>1
<1>7. QED
  BY <1>5, <1>6

(* Nothing is filled in for an update. *)
LEMMA GivenInPart ==
  ASSUME NEW f, NEW x, x[1] = "obj", NEW strict, ~strict, NEW data, data = Given(f, x, strict)
  PROVE  DOMAIN data = DOMAIN x[2] /\ \A n \in DOMAIN data : data[n][1] = x[2][n]
BY GivenIs

(* The fields of a class of a table: each is of one column, and no two     *)
(* have a name.                                                            *)
LEMMA FieldsOfTable ==
  ASSUME NEW table, IsTable(table), NEW c, NEW defaults, IsOfTable(c, table, defaults)
  PROVE  /\ \A f \in Range(FieldsOf[c]) :
              /\ f.ops \in Seq(Range(f.ops))
              /\ \A n \in ColumnNames(table) : n \notin Range(f.ops)
              /\ \E k \in DOMAIN table :
                   /\ f.name = table[k].name
                   /\ \E required, default \in BOOLEAN :
                        f = FieldOf(table[k], required, default) /\ (defaults => default)
         /\ \A f, g \in Range(FieldsOf[c]) : f.name = g.name => f = g
<1>1. ASSUME NEW i \in DOMAIN FieldsOf[c], NEW f, f = FieldsOf[c][i]
      PROVE  /\ f.ops \in Seq(Range(f.ops))
             /\ \A n \in ColumnNames(table) : n \notin Range(f.ops)
             /\ \E k \in DOMAIN table :
                  /\ f.name = table[k].name
                  /\ \E required, default \in BOOLEAN :
                       f = FieldOf(table[k], required, default) /\ (defaults => default)
  <2>1. PICK k \in DOMAIN table, required \in BOOLEAN, default \in BOOLEAN :
          f = FieldOf(table[k], required, default) /\ (defaults => default)
    BY <1>1 DEF IsOfTable
  <2>2. /\ table[k].kind \in Kinds /\ table[k].ops \in Seq(Range(table[k].ops))
        /\ \A j \in DOMAIN table : table[j].name \notin Range(table[k].ops)
    BY DEF IsTable
  <2>3. f.name = table[k].name /\ f.ops = table[k].ops
    BY <2>1, <2>2, FieldOfColumn
  <2>4. QED
    BY <2>1, <2>2, <2>3 DEF ColumnNames
<1>2. \A i, j \in DOMAIN FieldsOf[c] : FieldsOf[c][i].name = FieldsOf[c][j].name => i = j
  BY DEF IsOfTable
<1>3. \A f \in Range(FieldsOf[c]) : \E i \in DOMAIN FieldsOf[c] : f = FieldsOf[c][i]
  BY DEF Range
<1>4. \A f, g \in Range(FieldsOf[c]) : f.name = g.name => f = g
  BY <1>2, <1>3
<1>5. ASSUME NEW f \in Range(FieldsOf[c])
      PROVE  /\ f.ops \in Seq(Range(f.ops))
             /\ \A n \in ColumnNames(table) : n \notin Range(f.ops)
             /\ \E k \in DOMAIN table :
                  /\ f.name = table[k].name
                  /\ \E required, default \in BOOLEAN :
                       f = FieldOf(table[k], required, default) /\ (defaults => default)
  <2>1. PICK i \in DOMAIN FieldsOf[c] : f = FieldsOf[c][i]
    BY <1>3
  <2>2. QED
    BY <1>1, <2>1
<1>6. QED
  BY <1>4, <1>5

(* The validation of a body: the record has a column exactly when the body *)
(* has it or its default was filled in, with the value that its field made *)
(* of it; and an update fails only by a value that was sent                *)
(* (validate.py:213).                                                      *)
LEMMA ClassValidated ==
  ASSUME NEW table, IsTable(table), NEW c, NEW defaults, IsOfTable(c, table, defaults),
         NEW x, x[1] = "obj", NEW strict, NEW v, v = ClassValued(c, x, strict)
  PROVE  /\ v[1] \in {"ok", "wrong", "crash"}
         /\ v[1] = "ok" =>
              /\ ~strict => DOMAIN v[2][2] \subseteq DOMAIN x[2]
              /\ \A n \in DOMAIN v[2][2] \cap ColumnNames(table) :
                   \E f \in Range(FieldsOf[c]) : f.name = n
              /\ \A f \in Range(FieldsOf[c]) :
                   /\ f.name \in DOMAIN v[2][2] => f.name \in DOMAIN Given(f, x, strict)
                   /\ f.name \in DOMAIN Given(f, x, strict) =>
                        /\ f.name \in DOMAIN v[2][2]
                        /\ Collects(f, Given(f, x, strict)[f.name][1])[1] = "ok"
                        /\ v[2][2][f.name] = Collects(f, Given(f, x, strict)[f.name][1])[2]
         /\ /\ ~strict
            /\ \A f \in Range(FieldsOf[c]) :
                 /\ \A o \in Range(f.ops) : o \notin DOMAIN x[2]
                 /\ f.name \in DOMAIN x[2] => Collects(f, x[2][f.name])[1] = "ok"
            => v[1] = "ok"
<1> DEFINE fields == Range(FieldsOf[c])
           names == {f.name : f \in fields}
           of(n) == CHOOSE f \in fields : f.name = n
           each == [n \in names |-> ValuesOf(of(n), Entries(x), strict)]
           all == Collected(each)
           whole(a) == [n \in UNION {DOMAIN a[m] : m \in DOMAIN a} |->
                          a[CHOOSE m \in DOMAIN a : n \in DOMAIN a[m]][n]]
<1>1. v = IF all[1] = "ok" THEN Ok(<<"obj", whole(all[2])>>) ELSE all
  <2>1. IsMapping(x)
    BY DEF IsMapping
  <2>2. QED
    BY <2>1 DEF ClassValued, ValidateClass, IfOk, ValuesOf
<1>2. \A f \in fields : of(f.name) = f
  BY FieldsOfTable
<1>3. DOMAIN each = names /\ \A f \in fields : each[f.name] = ValuesOf(f, Entries(x), strict)
  <2>1. ASSUME NEW f \in fields PROVE each[f.name] = ValuesOf(f, Entries(x), strict)
    <3>1. f.name \in names
      OBVIOUS
    <3>2. each[f.name] = ValuesOf(of(f.name), Entries(x), strict)
      <4> HIDE DEF names, of
      <4>1. QED
        BY <3>1
    <3>3. of(f.name) = f
      BY <1>2
    <3>4. QED
      <4> HIDE DEF of, each
      <4>1. QED
        BY <3>2, <3>3
  <2>2. DOMAIN each = names
    <3> HIDE DEF names, of
    <3>1. QED
      OBVIOUS
  <2>3. QED
    <3> HIDE DEF each, names
    <3>1. QED
      BY <2>1, <2>2
<1>4. \A n \in names : \E f \in fields : f.name = n
  OBVIOUS
<1>5. /\ all[1] \in {"ok", "wrong", "crash"}
      /\ all[1] = "ok" => /\ all = Ok([n \in names |-> each[n][2]])
                         /\ \A n \in names : each[n][1] = "ok"
      /\ (\A n \in names : each[n][1] = "ok") => all[1] = "ok"
  <2>1. DOMAIN each = names
    BY <1>3
  <2> HIDE DEF names, each
  <2>2. CASE \A n \in names : each[n][1] = "ok"
    <3>1. {k \in DOMAIN each : each[k][1] # "ok"} = {}
      BY <2>1, <2>2
    <3>2. all = Ok([n \in DOMAIN each |-> each[n][2]])
      BY <3>1 DEF Collected
    <3>3. QED
      BY <2>1, <2>2, <3>2, Outcomes
  <2>3. CASE ~(\A n \in names : each[n][1] = "ok")
    <3>1. {k \in DOMAIN each : each[k][1] # "ok"} # {}
      BY <2>1, <2>3
    <3>2. all[1] \in {"wrong", "crash"}
      BY <3>1, Outcomes DEF Collected
    <3>3. QED
      BY <2>3, <3>2
  <2>4. QED
    BY <2>2, <2>3
<1>6. v[1] \in {"ok", "wrong", "crash"} /\ (v[1] = "ok" <=> all[1] = "ok")
  <2> HIDE DEF all, whole
  <2>1. QED
    BY <1>1, <1>5, Outcomes
<1>7. \A f \in fields : f.name \in ColumnNames(table) /\ f.name \in names
  BY FieldsOfTable DEF ColumnNames
<1>8. ASSUME NEW f \in fields, NEW w, w = ValuesOf(f, Entries(x), strict),
             NEW data, data = Given(f, x, strict), NEW got, got = Collects(f, data[f.name][1])
      PROVE  /\ w[1] = "ok" =>
                  /\ DOMAIN w[2] \subseteq DOMAIN data
                  /\ DOMAIN w[2] \subseteq {f.name} \cup Range(f.ops)
                  /\ f.name \in DOMAIN data => f.name \in DOMAIN w[2] /\ got[1] = "ok" /\ w[2][f.name] = got[2]
             /\ /\ ~strict /\ \A o \in Range(f.ops) : o \notin DOMAIN data
                /\ f.name \in DOMAIN data => got[1] = "ok"
                => w[1] = "ok"
  <2>1. f.ops \in Seq(Range(f.ops)) /\ f.name \notin Range(f.ops)
    BY <1>7, FieldsOfTable
  <2>2. data = WithDefault(f, Entries(x), strict)
    BY <1>8 DEF Given
  <2>3. QED
    BY <1>8, <2>1, <2>2, FieldValuesAre
<1>9. ASSUME v[1] = "ok"
      PROVE  /\ ~strict => DOMAIN v[2][2] \subseteq DOMAIN x[2]
             /\ \A n \in DOMAIN v[2][2] \cap ColumnNames(table) : \E f \in fields : f.name = n
             /\ \A f \in fields :
                  /\ f.name \in DOMAIN v[2][2] => f.name \in DOMAIN Given(f, x, strict)
                  /\ f.name \in DOMAIN Given(f, x, strict) =>
                       /\ f.name \in DOMAIN v[2][2]
                       /\ Collects(f, Given(f, x, strict)[f.name][1])[1] = "ok"
                       /\ v[2][2][f.name] = Collects(f, Given(f, x, strict)[f.name][1])[2]
  <2>1. PICK a : a = all[2]
    OBVIOUS
  <2>2. PICK g : g = v[2][2]
    OBVIOUS
  <2>3. all[1] = "ok" /\ v = Ok(<<"obj", whole(a)>>)
    <3> HIDE DEF all, whole
    <3>1. QED
      BY <1>1, <1>6, <1>9, <2>1
  <2>4. g = whole(a)
    <3> HIDE DEF whole
    <3>1. QED
      BY <2>2, <2>3, Outcomes
  <2>5. a = [n \in names |-> each[n][2]] /\ \A n \in names : each[n][1] = "ok"
    <3> HIDE DEF all, each, names
    <3>1. QED
      BY <1>5, <2>1, <2>3, Outcomes
  <2>6. DOMAIN a = names /\ \A f \in fields : /\ a[f.name] = ValuesOf(f, Entries(x), strict)[2]
                                              /\ ValuesOf(f, Entries(x), strict)[1] = "ok"
    <3> HIDE DEF each, names
    <3>1. QED
      BY <1>3, <1>7, <2>5
  <2>7. DOMAIN g = UNION {DOMAIN a[m] : m \in DOMAIN a}
    BY <2>4
  <2>8. ASSUME NEW n \in DOMAIN g
        PROVE  \E f \in fields : n \in DOMAIN a[f.name]
    <3>1. PICK m \in DOMAIN a : n \in DOMAIN a[m]
      BY <2>7
    <3>2. PICK f \in fields : f.name = m
      <4> HIDE DEF names
      <4>1. QED
        BY <1>4, <2>6
    <3>3. QED
      BY <3>1, <3>2
  <2>9. ASSUME NEW f \in fields, NEW data, data = Given(f, x, strict),
               NEW got, got = Collects(f, data[f.name][1])
        PROVE  /\ DOMAIN a[f.name] \subseteq DOMAIN data
               /\ DOMAIN a[f.name] \subseteq {f.name} \cup Range(f.ops)
               /\ f.name \in DOMAIN data =>
                    f.name \in DOMAIN a[f.name] /\ got[1] = "ok" /\ a[f.name][f.name] = got[2]
    <3> HIDE DEF fields, names
    <3>1. PICK w : w = ValuesOf(f, Entries(x), strict)
      OBVIOUS
    <3>2. w[1] = "ok" /\ a[f.name] = w[2]
      BY <2>6, <3>1
    <3>3. QED
      BY <1>8, <2>9, <3>1, <3>2
  <2>10. ASSUME NEW f \in fields, NEW h \in fields, f.name \in DOMAIN a[h.name]
         PROVE  h = f
    <3>1. f.name \in {h.name} \cup Range(h.ops)
      BY <2>9, <2>10
    <3>2. f.name \notin Range(h.ops)
      BY <1>7, FieldsOfTable
    <3>3. QED
      BY <3>1, <3>2, FieldsOfTable
  <2>11. ASSUME NEW f \in fields, f.name \in DOMAIN a[f.name]
         PROVE  f.name \in DOMAIN g /\ g[f.name] = a[f.name][f.name]
    <3>1. f.name \in DOMAIN a
      BY <1>7, <2>6
    <3>2. f.name \in DOMAIN g
      BY <2>7, <2>11, <3>1
    <3>3. \A m \in DOMAIN a : f.name \in DOMAIN a[m] => m = f.name
      <4>1. ASSUME NEW m \in DOMAIN a, f.name \in DOMAIN a[m] PROVE m = f.name
        <5>1. PICK h \in fields : h.name = m
          <6> HIDE DEF names
          <6>1. QED
            BY <1>4, <2>6
        <5>2. h = f
          BY <2>10, <4>1, <5>1
        <5>3. QED
          BY <5>1, <5>2
      <4>2. QED
        BY <4>1
    <3>4. (CHOOSE m \in DOMAIN a : f.name \in DOMAIN a[m]) = f.name
      BY <2>11, <3>1, <3>3
    <3>5. g[f.name] = a[CHOOSE m \in DOMAIN a : f.name \in DOMAIN a[m]][f.name]
      BY <2>4, <2>7, <3>2
    <3>6. QED
      BY <3>2, <3>4, <3>5
  <2>12. ASSUME ~strict PROVE DOMAIN g \subseteq DOMAIN x[2]
    <3>1. ASSUME NEW f \in fields, NEW data, data = Given(f, x, strict) PROVE DOMAIN data = DOMAIN x[2]
      <4>1. DOMAIN data = DOMAIN x[2] /\ \A n \in DOMAIN data : data[n][1] = x[2][n]
        BY <2>12, <3>1, GivenInPart
      <4>2. QED
        BY <4>1
    <3>2. ASSUME NEW n \in DOMAIN g PROVE n \in DOMAIN x[2]
      <4>1. PICK f \in fields : n \in DOMAIN a[f.name]
        BY <2>8
      <4>2. PICK data : data = Given(f, x, strict)
        OBVIOUS
      <4>3. n \in DOMAIN data
        <5> HIDE DEF fields
        <5>1. QED
          BY <2>9, <4>1, <4>2
      <4>4. QED
        BY <3>1, <4>2, <4>3
    <3>3. QED
      BY <3>2
  <2>13. ASSUME NEW n \in DOMAIN g \cap ColumnNames(table) PROVE \E f \in fields : f.name = n
    <3>1. PICK f \in fields : n \in DOMAIN a[f.name]
      BY <2>8
    <3>2. n \in {f.name} \cup Range(f.ops)
      BY <2>9, <3>1
    <3>3. n \notin Range(f.ops)
      BY FieldsOfTable
    <3>4. QED
      BY <3>2, <3>3
  <2>14. ASSUME NEW f \in fields, NEW data, data = Given(f, x, strict),
                NEW got, got = Collects(f, data[f.name][1])
         PROVE  /\ f.name \in DOMAIN g => f.name \in DOMAIN data
                /\ f.name \in DOMAIN data =>
                     f.name \in DOMAIN g /\ got[1] = "ok" /\ g[f.name] = got[2]
    <3>1. ASSUME f.name \in DOMAIN g PROVE f.name \in DOMAIN data
      <4>1. PICK h \in fields : f.name \in DOMAIN a[h.name]
        BY <2>8, <3>1
      <4>2. f.name \in DOMAIN a[f.name]
        BY <2>10, <4>1
      <4>3. QED
        <5> HIDE DEF fields
        <5>1. QED
          BY <2>9, <2>14, <4>2
    <3>2. ASSUME f.name \in DOMAIN data
          PROVE  f.name \in DOMAIN g /\ got[1] = "ok" /\ g[f.name] = got[2]
      <4>1. f.name \in DOMAIN a[f.name] /\ got[1] = "ok" /\ a[f.name][f.name] = got[2]
        <5> HIDE DEF fields
        <5>1. QED
          BY <2>9, <2>14, <3>2
      <4>2. QED
        BY <2>11, <4>1
    <3>3. QED
      BY <3>1, <3>2
  <2>15. QED
    <3> HIDE DEF fields
    <3>1. QED
      BY <2>2, <2>12, <2>13, <2>14
<1>10. ASSUME ~strict,
              \A f \in fields :
                 /\ \A o \in Range(f.ops) : o \notin DOMAIN x[2]
                 /\ f.name \in DOMAIN x[2] => Collects(f, x[2][f.name])[1] = "ok"
       PROVE  v[1] = "ok"
  <2>1. ASSUME NEW f \in fields PROVE ValuesOf(f, Entries(x), strict)[1] = "ok"
    <3>1. PICK data : data = Given(f, x, strict)
      OBVIOUS
    <3>2. DOMAIN data = DOMAIN x[2] /\ \A n \in DOMAIN data : data[n][1] = x[2][n]
      BY <1>10, <3>1, GivenInPart
    <3>3. PICK got : got = Collects(f, data[f.name][1])
      OBVIOUS
    <3>4. f.name \in DOMAIN data => got[1] = "ok"
      BY <1>10, <3>2, <3>3
    <3>5. \A o \in Range(f.ops) : o \notin DOMAIN data
      BY <1>10, <3>2
    <3>6. PICK w : w = ValuesOf(f, Entries(x), strict)
      OBVIOUS
    <3>7. w[1] = "ok"
      <4> HIDE DEF fields
      <4>1. QED
        BY <1>8, <1>10, <3>1, <3>3, <3>4, <3>5, <3>6
    <3>8. QED
      BY <3>6, <3>7
  <2>2. \A n \in names : each[n][1] = "ok"
    <3> HIDE DEF names, each
    <3>1. QED
      BY <1>3, <1>4, <2>1
  <2>3. QED
    <3> HIDE DEF names, each, all
    <3>1. QED
      BY <1>5, <1>6, <2>2
<1>11. QED
  BY <1>6, <1>9, <1>10

(* An outcome that is ok is Ok of its value. *)
LEMMA CollectedIsOk ==
  ASSUME Unfolds, NEW col, col.kind \in Kinds, NEW required, NEW default,
         NEW f, f = FieldOf(col, required, default), NEW x, NEW got, got = Collects(f, x), got[1] = "ok"
  PROVE  got = Ok(got[2])
<1>1. CASE IsNull(x)
  <2>1. got = Ok(Null)
    BY <1>1 DEF Collects, CollectValue, IfOk
  <2>2. QED
    BY <2>1, Outcomes
<1>2. CASE ~IsNull(x)
  <2>1. PICK called : called = Call(ValidatorOf(col), f, x)
    OBVIOUS
  <2>2. got = IF called[1] = "ok" THEN Valued(TypeOf(col), called[2]) ELSE called
    BY <1>2, <2>1, CollectsAs
  <2>3. PICK y : y = called[2]
    OBVIOUS
  <2>4. got = Valued(TypeOf(col), y)
    BY <2>2, <2>3
  <2>5. CASE \E p : TypeOf(col) = Prim(p)
    <3>1. PICK p : TypeOf(col) = Prim(p)
      BY <2>5
    <3>2. Valued(Prim(p), y) = IF IsInstance(y, p) THEN Ok(y) ELSE Wrong({})
      BY TypesAs
    <3>3. QED
      BY <2>4, <3>1, <3>2, Outcomes
  <2>6. CASE TypeOf(col) = <<"enum", col.members>>
    <3>1. Valued(<<"enum", col.members>>, y) = IF y[1] = "enum" THEN Ok(y) ELSE Wrong({})
      BY TypesAs
    <3>2. QED
      BY <2>4, <2>6, <3>1, Outcomes
  <2>7. CASE TypeOf(col) = <<IF col.default[1] = "list" THEN "list" ELSE "dict", <<"any", 0>>>>
    <3> DEFINE inside == [k \in DOMAIN y[2] |-> IF IsNull(y[2][k]) THEN Null ELSE y[2][k]]
    <3>1. /\ Valued(<<"list", <<"any", 0>>>>, y) =
               IF y[1] = "list" THEN Ok(<<"list", inside>>) ELSE Wrong({})
          /\ Valued(<<"dict", <<"any", 0>>>>, y) =
               IF y[1] = "obj" THEN Ok(<<"obj", inside>>) ELSE Wrong({})
      BY AnyInside
    <3> HIDE DEF inside
    <3>2. QED
      BY <2>4, <2>7, <3>1, Outcomes
  <2>8. QED
    <3>1. CASE col.kind \in {"String", "UUID", "Integer", "Numeric", "Boolean", "DateTime", "Date"}
      BY <2>5, <3>1 DEF TypeOf
    <3>2. CASE col.kind = "Enum"
      BY <2>6, <3>2 DEF TypeOf
    <3>3. CASE col.kind = "JSON"
      BY <2>7, <3>3 DEF TypeOf
    <3>4. QED
      BY <3>1, <3>2, <3>3 DEF Kinds
<1>3. QED
  BY <1>1, <1>2

(* AcceptedHolds, for a null too. *)
LEMMA FieldHolds ==
  ASSUME Unfolds, NEW col, col.kind \in Kinds, "NULL" \notin col.members, NEW required, NEW default,
         NEW f, f = FieldOf(col, required, default), NEW x, Sendable(col, x),
         NEW got, got = Collects(f, x), got[1] = "ok"
  PROVE  Holds(col, got[2])
<1>1. PICK y : y = got[2]
  OBVIOUS
<1>2. Collects(f, x) = Ok(y)
  BY <1>1, CollectedIsOk
<1>3. Holds(col, y)
  BY <1>2, AcceptedHolds
<1>4. QED
  BY <1>1, <1>3

(* A value in a body may be sent to any column. *)
LEMMA JsonSendable ==
  ASSUME NEW col, NEW x, IsJson(x)
  PROVE  Sendable(col, x)
BY DEF Sendable, IsJson

(* And so may a value of the column. *)
LEMMA HoldsSendable ==
  ASSUME NEW col, col.kind \in Kinds, NEW x, Holds(col, x)
  PROVE  Sendable(col, x)
<1>1. CASE x = Null
  BY <1>1 DEF Sendable, IsText, IsAmount, Null
<1>2. CASE x # Null
  <2>1. CASE col.kind \in {"String", "UUID"}
    <3>1. x = <<"str", x[2]>> /\ x[2] \in DOMAIN Reads
      BY <1>2, <2>1 DEF Holds
    <3>2. x[1] = "str"
      BY <3>1
    <3>3. QED
      BY <3>1, <3>2 DEF Sendable, IsText, IsAmount
  <2>2. CASE col.kind = "Integer"
    BY <1>2, <2>2 DEF Holds, Sendable, IsText, IsAmount
  <2>3. CASE col.kind = "Numeric"
    BY <1>2, <2>3 DEF Holds, Sendable, IsText, IsAmount, NaN
  <2>4. CASE col.kind \in {"Boolean", "DateTime", "Date", "Enum", "JSON"}
    <3>1. x[1] \in {"bool", "datetime", "date", "enum", "list", "obj"}
      <4>1. CASE col.kind = "Boolean"
        BY <1>2, <4>1 DEF Holds
      <4>2. CASE col.kind = "DateTime"
        BY <1>2, <4>2 DEF Holds
      <4>3. CASE col.kind = "Date"
        BY <1>2, <4>3 DEF Holds
      <4>4. CASE col.kind = "Enum"
        BY <1>2, <4>4 DEF Holds
      <4>5. CASE col.kind = "JSON"
        BY <1>2, <4>5 DEF Holds
      <4>6. QED
        BY <2>4, <4>1, <4>2, <4>3, <4>4, <4>5
    <3>2. QED
      BY <3>1 DEF Sendable, IsText, IsAmount
  <2>5. QED
    BY <2>1, <2>2, <2>3, <2>4 DEF Kinds
<1>3. QED
  BY <1>1, <1>2

-----------------------------------------------------------------------------
(* Validated data: a value of its column for each one there is. *)
GoodRecord(table, data) ==
    \A k \in DOMAIN table :
        table[k].name \in DOMAIN data => Holds(table[k], data[table[k].name])

(* A row as it is kept: a value of its column in each, which reads as it   *)
(* is and is not refused.                                                  *)
GoodRow(table, row) ==
    /\ row = [n \in ColumnNames(table) |-> row[n]]
    /\ \A k \in DOMAIN table :
        /\ Holds(table[k], row[table[k].name])
        /\ ReadBack(table[k], row[table[k].name]) = row[table[k].name]
        /\ ~Refused(table[k], row[table[k].name])

(* The columns of a table, by their names. *)
LEMMA TableIs ==
  ASSUME NEW table, IsTable(table)
  PROVE  /\ \A k \in DOMAIN table :
              /\ ColumnOf(table, table[k].name) = table[k] /\ table[k].name \in ColumnNames(table)
              /\ table[k].kind \in Kinds /\ "NULL" \notin table[k].members
              /\ table[k].timezone => table[k].kind = "DateTime"
              /\ Holds(table[k], table[k].default)
         /\ \A n \in ColumnNames(table) : \E k \in DOMAIN table : table[k].name = n
         /\ \A j, k \in DOMAIN table : table[j].name = table[k].name => j = k
<1>1. \A j, k \in DOMAIN table : table[j].name = table[k].name => j = k
  BY DEF IsTable
<1>2. ASSUME NEW k \in DOMAIN table PROVE ColumnOf(table, table[k].name) = table[k]
  <2>1. (CHOOSE i \in DOMAIN table : table[i].name = table[k].name) = k
    BY <1>1
  <2>2. QED
    BY <2>1 DEF ColumnOf
<1>3. \A k \in DOMAIN table :
              /\ table[k].kind \in Kinds /\ "NULL" \notin table[k].members
              /\ table[k].timezone => table[k].kind = "DateTime"
              /\ Holds(table[k], table[k].default)
  BY DEF IsTable
<1>4. \A n \in ColumnNames(table) : \E k \in DOMAIN table : table[k].name = n
  BY DEF ColumnNames
<1>5. \A k \in DOMAIN table : table[k].name \in ColumnNames(table)
  BY DEF ColumnNames
<1>6. QED
  BY <1>1, <1>2, <1>3, <1>4, <1>5

(* A body that is accepted is validated data of its table: whatever a      *)
(* client sends, no column gets a value that is not of it.                 *)
LEMMA ValidatedGood ==
  ASSUME Unfolds, NEW table, IsTable(table), NEW c, NEW defaults, IsOfTable(c, table, defaults),
         NEW x, x[1] = "obj",
         \A k \in DOMAIN table : table[k].name \in DOMAIN x[2] => Sendable(table[k], x[2][table[k].name]),
         NEW strict, NEW v, v = ClassValued(c, x, strict), v[1] = "ok"
  PROVE  GoodRecord(table, v[2][2])
<1> SUFFICES ASSUME NEW k \in DOMAIN table, table[k].name \in DOMAIN v[2][2]
             PROVE  Holds(table[k], v[2][2][table[k].name])
  BY DEF GoodRecord
<1>1. PICK g : g = v[2][2]
  OBVIOUS
<1>2. PICK n : n = table[k].name
  OBVIOUS
<1>3. n \in DOMAIN g \cap ColumnNames(table)
  BY <1>1, <1>2, TableIs
<1>4. PICK f \in Range(FieldsOf[c]) : f.name = n
  BY <1>1, <1>3, ClassValidated
<1>5. PICK j \in DOMAIN table, required \in BOOLEAN, default \in BOOLEAN :
        f.name = table[j].name /\ f = FieldOf(table[j], required, default)
  <2>1. PICK j \in DOMAIN table :
          /\ f.name = table[j].name
          /\ \E required, default \in BOOLEAN :
               f = FieldOf(table[j], required, default) /\ (defaults => default)
    BY FieldsOfTable
  <2>2. PICK required \in BOOLEAN, default \in BOOLEAN : f = FieldOf(table[j], required, default)
    BY <2>1
  <2>3. QED
    BY <2>1, <2>2, Zenon
<1>6. j = k
  <2>1. table[j].name = table[k].name
    BY <1>2, <1>4, <1>5, Zenon
  <2>2. QED
    BY <2>1, TableIs
<1>7. PICK data : data = Given(f, x, strict)
  OBVIOUS
<1>8. PICK got : got = Collects(f, data[f.name][1])
  OBVIOUS
<1>9. f.name \in DOMAIN data /\ got[1] = "ok" /\ g[f.name] = got[2]
  BY <1>1, <1>3, <1>4, <1>7, <1>8, ClassValidated
<1>10. \/ f.name \in DOMAIN x[2] /\ data[f.name][1] = x[2][f.name]
       \/ data[f.name][1] = f.default
  BY <1>7, <1>9, GivenIs
<1>11. PICK z : z = data[f.name][1]
  OBVIOUS
<1>12. Sendable(table[k], z)
  <2>1. CASE f.name \in DOMAIN x[2] /\ z = x[2][f.name]
    BY <1>2, <1>4, <2>1
  <2>2. CASE z = f.default
    <3>1. z = table[k].default \/ z = Null
      <4>1. table[k].kind \in Kinds /\ f = FieldOf(table[k], required, default)
        BY <1>5, <1>6, TableIs
      <4>2. f.default = IF default THEN table[k].default ELSE Null
        BY <4>1, FieldOfColumn
      <4>3. QED
        BY <2>2, <4>2, Zenon
    <3>2. Holds(table[k], z)
      <4>1. Holds(table[k], Null)
        BY DEF Holds
      <4>2. Holds(table[k], table[k].default)
        BY TableIs
      <4>3. QED
        BY <3>1, <4>1, <4>2, Zenon
    <3>3. QED
      BY <3>2, TableIs, HoldsSendable
  <2>3. QED
    BY <1>10, <1>11, <2>1, <2>2
<1>13. Holds(table[k], got[2])
  BY <1>5, <1>6, <1>8, <1>9, <1>11, <1>12, TableIs, FieldHolds
<1>14. QED
  BY <1>1, <1>2, <1>4, <1>9, <1>13

(* What was written and not refused is a row as it is kept. *)
LEMMA StoredGood ==
  ASSUME NEW table, IsTable(table), NEW row, DOMAIN row = ColumnNames(table),
         \A k \in DOMAIN table : Holds(table[k], row[table[k].name]), ~Violates(table, row),
         NEW kept, kept = Stored(table, row)
  PROVE  GoodRow(table, kept)
<1>1. kept = [n \in ColumnNames(table) |-> ReadBack(ColumnOf(table, n), row[n])]
  BY DEF Stored
<1>2. kept = [n \in ColumnNames(table) |-> kept[n]]
  BY <1>1
<1>3. ASSUME NEW k \in DOMAIN table, NEW y, y = kept[table[k].name]
      PROVE  Holds(table[k], y) /\ ReadBack(table[k], y) = y /\ ~Refused(table[k], y)
  <2>1. PICK z : z = row[table[k].name]
    OBVIOUS
  <2>2. y = ReadBack(table[k], z)
    BY <1>1, <1>3, <2>1, TableIs
  <2>3. Holds(table[k], z) /\ ~Refused(table[k], z)
    BY <2>1 DEF Violates
  <2>4. QED
    BY <2>2, <2>3, TableIs, ReadBackHolds
<1>4. QED
  BY <1>2, <1>3 DEF GoodRow

(* Such a row can be written again as it is: nothing of it changes and     *)
(* nothing is refused.                                                     *)
LEMMA StoredSame ==
  ASSUME NEW table, IsTable(table), NEW row, GoodRow(table, row)
  PROVE  Stored(table, row) = row /\ ~Violates(table, row) /\ DOMAIN row = ColumnNames(table)
<1>1. row = [n \in ColumnNames(table) |-> row[n]]
  BY DEF GoodRow
<1>2. DOMAIN row = ColumnNames(table)
  BY <1>1
<1>3. \A n \in ColumnNames(table) : ReadBack(ColumnOf(table, n), row[n]) = row[n]
  BY TableIs DEF GoodRow
<1>4. Stored(table, row) = [n \in ColumnNames(table) |-> row[n]]
  BY <1>2, <1>3 DEF Stored
<1>5. ~Violates(table, row)
  BY DEF GoodRow, Violates
<1>6. QED
  BY <1>1, <1>2, <1>4, <1>5

(* An INSERT of validated data writes values of each column: a record's,   *)
(* null, or the default.                                                   *)
LEMMA InsertedGood ==
  ASSUME NEW table, IsTable(table), NEW records,
         \A i \in DOMAIN records : GoodRecord(table, records[i]),
         NEW written, written = InsertMany(table, records), NEW i \in DOMAIN records
  PROVE  /\ DOMAIN written = DOMAIN records /\ DOMAIN written[i] = ColumnNames(table)
         /\ \A k \in DOMAIN table : Holds(table[k], written[i][table[k].name])
<1> DEFINE cols == UNION {DOMAIN records[j] : j \in DOMAIN records}
           data == [n \in cols |-> IF n \in DOMAIN records[i] THEN records[i][n] ELSE Null]
<1>1. DOMAIN written = DOMAIN records /\ written[i] = InsertOne(table, data)
  BY DEF InsertMany
<1>2. PICK d : d = data
  OBVIOUS
<1>3. DOMAIN d = cols /\ \A n \in cols : d[n] = IF n \in DOMAIN records[i] THEN records[i][n] ELSE Null
  BY <1>2
<1>4. written[i] = [n \in ColumnNames(table) |-> IF n \in DOMAIN d THEN d[n] ELSE ColumnOf(table, n).default]
  BY <1>1, <1>2 DEF InsertOne
<1>5. ASSUME NEW k \in DOMAIN table, NEW y, y = written[i][table[k].name]
      PROVE  Holds(table[k], y)
  <2>1. y = IF table[k].name \in DOMAIN d THEN d[table[k].name] ELSE table[k].default
    BY <1>4, <1>5, TableIs
  <2>2. CASE table[k].name \in DOMAIN d
    <3>1. y = IF table[k].name \in DOMAIN records[i] THEN records[i][table[k].name] ELSE Null
      <4> HIDE DEF cols
      <4>1. QED
        BY <1>3, <2>1, <2>2
    <3>2. CASE table[k].name \in DOMAIN records[i]
      BY <3>1, <3>2 DEF GoodRecord
    <3>3. CASE table[k].name \notin DOMAIN records[i]
      BY <3>1, <3>3 DEF Holds
    <3>4. QED
      BY <3>2, <3>3
  <2>3. CASE table[k].name \notin DOMAIN d
    BY <2>1, <2>3, TableIs
  <2>4. QED
    BY <2>2, <2>3
<1>6. QED
  BY <1>1, <1>4, <1>5

(* What an INSERT of several writes to a column: the record's, null when   *)
(* another record has the column, or its default (dbmodel.py:208).         *)
LEMMA InsertOneOf ==
  ASSUME NEW table, NEW records, NEW i \in DOMAIN records, NEW n \in ColumnNames(table)
  PROVE  InsertMany(table, records)[i][n] =
           IF n \in DOMAIN records[i] THEN records[i][n]
           ELSE IF \E j \in DOMAIN records : n \in DOMAIN records[j] THEN Null
           ELSE ColumnOf(table, n).default
<1> DEFINE cols == UNION {DOMAIN records[j] : j \in DOMAIN records}
           data == [m \in cols |-> IF m \in DOMAIN records[i] THEN records[i][m] ELSE Null]
<1>1. InsertMany(table, records)[i] = InsertOne(table, data)
  BY DEF InsertMany
<1>2. InsertOne(table, data)[n] = IF n \in DOMAIN data THEN data[n] ELSE ColumnOf(table, n).default
  <2> HIDE DEF data
  <2>1. QED
    BY DEF InsertOne
<1>3. DOMAIN data = cols /\ (n \in cols => data[n] = IF n \in DOMAIN records[i] THEN records[i][n] ELSE Null)
  <2> HIDE DEF cols
  <2>1. QED
    OBVIOUS
<1>4. n \in cols <=> \E j \in DOMAIN records : n \in DOMAIN records[j]
  OBVIOUS
<1>5. n \in DOMAIN records[i] => n \in cols
  BY <1>4
<1>6. QED
  <2> HIDE DEF data, cols
  <2>1. QED
    BY <1>1, <1>2, <1>3, <1>4, <1>5

(* A row that is written has the columns of its table. *)
LEMMA InsertedIsFunction ==
  ASSUME NEW table, NEW records, NEW i \in DOMAIN records,
         NEW row, row = InsertMany(table, records)[i]
  PROVE  row = [n \in ColumnNames(table) |-> row[n]]
<1> DEFINE cols == UNION {DOMAIN records[j] : j \in DOMAIN records}
           data == [m \in cols |-> IF m \in DOMAIN records[i] THEN records[i][m] ELSE Null]
<1>1. InsertMany(table, records)[i] = InsertOne(table, data)
  BY DEF InsertMany
<1>2. InsertOne(table, data) = [n \in ColumnNames(table) |-> InsertOne(table, data)[n]]
  <2> HIDE DEF data
  <2>1. QED
    BY DEF InsertOne
<1>3. QED
  BY <1>1, <1>2

(* A Boolean as a condition, for the provers. *)
Truly(b) == b

(* A list writes for each record what the record alone would write: it is  *)
(* without a column only when the default of that one is null, as the body *)
(* class has the table's defaults.                                         *)
LEMMA AsOneWould ==
  ASSUME NEW table, IsTable(table), NEW c, NEW defaults, IsOfTable(c, table, defaults), Truly(defaults),
         NEW strict, Truly(strict),
         NEW sent, \A i \in DOMAIN sent : sent[i][1] = "obj" /\ ClassValued(c, sent[i], strict)[1] = "ok",
         NEW records, records = [i \in DOMAIN sent |-> ClassValued(c, sent[i], strict)[2][2]],
         NEW i \in DOMAIN sent, NEW alone, alone = <<records[i]>>
  PROVE  InsertMany(table, records)[i] = InsertMany(table, alone)[1]
<1>1. DOMAIN records = DOMAIN sent /\ DOMAIN alone = {1} /\ alone[1] = records[i]
  OBVIOUS
<1>2. ASSUME NEW n \in ColumnNames(table)
      PROVE  InsertMany(table, records)[i][n] = InsertMany(table, alone)[1][n]
  <2>1. PICK default : default = ColumnOf(table, n).default
    OBVIOUS
  <2>2. InsertMany(table, records)[i][n] =
           IF n \in DOMAIN records[i] THEN records[i][n]
           ELSE IF \E j \in DOMAIN records : n \in DOMAIN records[j] THEN Null ELSE default
    BY <1>1, <2>1, InsertOneOf
  <2>3. InsertMany(table, alone)[1][n] = IF n \in DOMAIN records[i] THEN records[i][n] ELSE default
    <3>1. 1 \in DOMAIN alone
      BY <1>1
    <3>2. InsertMany(table, alone)[1][n] =
            IF n \in DOMAIN alone[1] THEN alone[1][n]
            ELSE IF \E j \in DOMAIN alone : n \in DOMAIN alone[j] THEN Null ELSE default
      BY <2>1, <3>1, InsertOneOf
    <3>3. QED
      BY <1>1, <3>2
  <2>4. ASSUME NEW j \in DOMAIN sent, n \in DOMAIN records[j], n \notin DOMAIN records[i]
        PROVE  default = Null
    <3>1. PICK v : v = ClassValued(c, sent[j], strict)
      OBVIOUS
    <3>2. v[1] = "ok" /\ sent[j][1] = "obj" /\ n \in DOMAIN v[2][2] \cap ColumnNames(table)
      BY <2>4, <3>1
    <3>3. PICK f \in Range(FieldsOf[c]) : f.name = n
      BY <3>1, <3>2, ClassValidated
    <3>4. PICK w : w = ClassValued(c, sent[i], strict)
      OBVIOUS
    <3>5. w[1] = "ok" /\ sent[i][1] = "obj" /\ f.name \notin DOMAIN w[2][2]
      BY <2>4, <3>3, <3>4
    <3>6. f.name \notin DOMAIN Given(f, sent[i], strict)
      BY <3>4, <3>5, ClassValidated
    <3>7. f.default = Null
      <4>1. PICK data : data = Given(f, sent[i], strict)
        OBVIOUS
      <4>2. strict /\ f.default # Null => f.name \in DOMAIN data
        BY <3>5, <4>1, GivenIs
      <4>3. strict
        BY DEF Truly
      <4>4. QED
        BY <3>6, <4>1, <4>2, <4>3
    <3>8. PICK k \in DOMAIN table :
            /\ f.name = table[k].name
            /\ \E required, given \in BOOLEAN :
                 f = FieldOf(table[k], required, given) /\ (defaults => given)
      BY FieldsOfTable
    <3>9. PICK required \in BOOLEAN, given \in BOOLEAN : f = FieldOf(table[k], required, given) /\ given
      BY <3>8, Zenon DEF Truly
    <3>10. f.default = IF given THEN table[k].default ELSE Null
      <4>1. table[k].kind \in Kinds
        BY TableIs
      <4>2. QED
        BY <3>9, <4>1, FieldOfColumn
    <3>11. default = table[k].default
      BY <2>1, <3>3, <3>8, TableIs
    <3>12. QED
      BY <3>7, <3>9, <3>10, <3>11
  <2>5. QED
    BY <1>1, <2>2, <2>3, <2>4
<1>3. PICK row : row = InsertMany(table, records)[i]
  OBVIOUS
<1>4. PICK one : one = InsertMany(table, alone)[1]
  OBVIOUS
<1>5. row = [n \in ColumnNames(table) |-> row[n]]
  BY <1>1, <1>3, InsertedIsFunction
<1>6. one = [n \in ColumnNames(table) |-> one[n]]
  <2>1. 1 \in DOMAIN alone
    BY <1>1
  <2>2. QED
    BY <1>4, <2>1, InsertedIsFunction
<1>7. \A n \in ColumnNames(table) : row[n] = one[n]
  BY <1>2, <1>3, <1>4
<1>8. QED
  BY <1>3, <1>4, <1>5, <1>6, <1>7

-----------------------------------------------------------------------------
(* The body of a create, and of an update. *)
InFull(x) == Checked(x, TRUE)
InPart(x) == Checked(x, FALSE)

(* The body of a create is validated strictly. *)
LEMMA InFullIs == \E strict : Truly(strict) /\ \A x : InFull(x) = ClassValued(Body, x, strict)
<1>1. WITNESS TRUE
<1>2. QED
  BY Zenon DEF InFull, Checked, ClassValued, Truly

(* The body of an update is not (path.py:195). *)
LEMMA InPartIs == \E strict : ~Truly(strict) /\ \A x : InPart(x) = ClassValued(Body, x, strict)
<1>1. WITNESS FALSE
<1>2. QED
  BY Zenon DEF InPart, Checked, ClassValued, Truly

(* What ClientAssumption says of the service that runs. *)
LEMMA ServiceIs ==
  ASSUME service \in DOMAIN Services, Table # <<>>
  PROVE  /\ IsTable(Table) /\ IsOfTable(Body, Table, HasDefaults)
         /\ \E defaults : IsOfTable(Response, Table, defaults)
         /\ \A x \in Bodies : x[1] = "obj" /\ \A n \in DOMAIN x[2] : IsJson(x[2][n])
<1>1. /\ IsTable(Services[service].table)
      /\ IsOfTable(Services[service].body, Services[service].table, Services[service].defaults)
      /\ \A x \in Services[service].bodies : x[1] = "obj" /\ \A n \in DOMAIN x[2] : IsJson(x[2][n])
  BY ClientAssumption DEF Table
<1>2. IsOfTable(Services[service].response, Services[service].table, FALSE)
  BY ClientAssumption, Zenon DEF Table
<1>3. \E defaults : IsOfTable(Services[service].response, Services[service].table, defaults)
  BY <1>2, Zenon
<1>4. QED
  BY <1>1, <1>3, Zenon DEF Table, Body, HasDefaults, Response, Bodies

(* A body is accepted, refused or breaks the validation. *)
LEMMA ClassOutcome ==
  ASSUME NEW c, NEW x, NEW strict, NEW v, v = ClassValued(c, x, strict)
  PROVE  v[1] \in {"ok", "wrong", "crash"}
<1> DEFINE fields == Range(FieldsOf[c])
           values(n) == FieldValues(CHOOSE f \in fields : f.name = n, Entries(x), strict, FALSE)
           all == Collected([n \in {f.name : f \in fields} |-> values(n)])
           whole(a) == [n \in UNION {DOMAIN a[m] : m \in DOMAIN a} |->
                          a[CHOOSE m \in DOMAIN a : n \in DOMAIN a[m]][n]]
<1>1. CASE ~IsMapping(x)
  BY <1>1, Outcomes DEF ClassValued, ValidateClass
<1>2. CASE IsMapping(x)
  <2>1. v = IF all[1] = "ok" THEN Ok(<<"obj", whole(all[2])>>) ELSE all
    BY <1>2 DEF ClassValued, ValidateClass, IfOk
  <2>2. ASSUME NEW each PROVE Collected(each)[1] \in {"ok", "wrong", "crash"}
    BY Outcomes DEF Collected
  <2>3. all[1] \in {"ok", "wrong", "crash"}
    <3> HIDE DEF values, fields
    <3>1. QED
      BY <2>2
  <2>4. QED
    <3> HIDE DEF all, whole
    <3>1. QED
      BY <2>1, <2>3, Outcomes
<1>3. QED
  BY <1>1, <1>2

(* What a create does: nothing, or every body was accepted and what they   *)
(* make is written, kept, and the first of it answered.                    *)
LEMMA Creates ==
  ASSUME NEW sent, DOMAIN sent \subseteq Nat,
         NEW outcomes, outcomes = [i \in DOMAIN sent |-> InFull(sent[i])],
         NEW v, v = InOrder(outcomes), Insert(sent, v)
  PROVE  /\ last'.does = "create" /\ last'.sent = sent /\ UNCHANGED docVars
         /\ last'.outcome # "done" => UNCHANGED <<rows, response>>
         /\ last'.outcome = "done" =>
              \E records, written :
                /\ \A i \in DOMAIN sent : InFull(sent[i])[1] = "ok"
                /\ records = [i \in DOMAIN sent |-> InFull(sent[i])[2][2]]
                /\ written = Written(records) /\ \A i \in DOMAIN written : ~Violates(Table, written[i])
                /\ rows' = [i \in DOMAIN written |-> Kept(written[i])]
                /\ response' = Shows(rows'[1])
<1>1. PICK records : records = [i \in DOMAIN v[2] |-> v[2][i][2]]
  OBVIOUS
<1>2. PICK written : written = Written(records)
  OBVIOUS
<1>3. Write("create", sent, v, written)
  BY <1>1, <1>2 DEF Insert
<1>4. PICK outcome : outcome = Outcome(v, \E i \in DOMAIN written : Violates(Table, written[i]))
  OBVIOUS
<1>5. /\ Answer("create", sent, outcome)
      /\ IF outcome = "done"
         THEN rows' = [i \in DOMAIN written |-> Kept(written[i])] /\ response' = Shows(rows'[1])
         ELSE UNCHANGED <<rows, response>>
      /\ UNCHANGED docVars
  BY <1>3, <1>4, Zenon DEF Write
<1>6. last'.does = "create" /\ last'.sent = sent /\ last'.outcome = outcome
  BY <1>5 DEF Answer
<1>7. DOMAIN outcomes = DOMAIN sent /\ \A i \in DOMAIN sent : outcomes[i] = InFull(sent[i])
  OBVIOUS
<1>8. ASSUME outcome = "done"
      PROVE  /\ \A i \in DOMAIN sent : InFull(sent[i])[1] = "ok"
             /\ records = [i \in DOMAIN sent |-> InFull(sent[i])[2][2]]
             /\ \A i \in DOMAIN written : ~Violates(Table, written[i])
  <2>1. v[1] \notin {"crash", "invalid", "wrong"} /\ ~(\E i \in DOMAIN written : Violates(Table, written[i]))
    BY <1>4, <1>8 DEF Outcome
  <2>2. \A i \in DOMAIN sent : InFull(sent[i])[1] \in {"ok", "wrong", "crash"}
    BY InFullIs, ClassOutcome
  <2>3. \A i \in DOMAIN outcomes : outcomes[i][1] = "ok"
    <3>1. SUFFICES ASSUME ~(\A i \in DOMAIN outcomes : outcomes[i][1] = "ok") PROVE FALSE
      OBVIOUS
    <3>2. PICK i \in DOMAIN outcomes : v = outcomes[i] /\ outcomes[i][1] # "ok"
      BY <1>7, <3>1, InOrderIs
    <3>3. QED
      BY <1>7, <2>1, <2>2, <3>2
  <2>4. v = Ok([i \in DOMAIN outcomes |-> outcomes[i][2]])
    BY <1>7, <2>3, InOrderIs
  <2>5. v[2] = [i \in DOMAIN outcomes |-> outcomes[i][2]]
    BY <2>4, Outcomes
  <2>6. records = [i \in DOMAIN sent |-> InFull(sent[i])[2][2]]
    BY <1>1, <1>7, <2>5
  <2>7. QED
    BY <1>7, <2>1, <2>3, <2>6
<1>9. QED
  BY <1>2, <1>5, <1>6, <1>8

(* A create is of one body or of two; without a table, of one. *)
LEMMA CreateSteps ==
  ASSUME Create
  PROVE  /\ phase = "served" /\ last.does = "nothing"
         /\ \E sent, outcomes :
              /\ DOMAIN sent \subseteq Nat /\ 1 \in DOMAIN sent
              /\ \A i \in DOMAIN sent : sent[i] \in Bodies
              /\ Table = <<>> => DOMAIN sent = {1}
              /\ outcomes = [i \in DOMAIN sent |-> InFull(sent[i])]
              /\ Insert(sent, InOrder(outcomes))
<1>1. CASE \E x \in Bodies : CreateOne(x)
  <2>1. PICK x \in Bodies : CreateOne(x)
    BY <1>1
  <2>2. PICK sent : sent = <<x>>
    OBVIOUS
  <2>3. DOMAIN sent = {1} /\ sent[1] = x
    BY <2>2
  <2>4. PICK outcomes : outcomes = <<InFull(x)>>
    OBVIOUS
  <2>5. outcomes = [i \in DOMAIN sent |-> InFull(sent[i])]
    BY <2>3, <2>4
  <2>6. phase = "served" /\ last.does = "nothing" /\ Insert(<<x>>, InOrder(<<InFull(x)>>))
    BY <2>1, Zenon DEF CreateOne, InFull
  <2>7. Insert(sent, InOrder(outcomes))
    BY <2>2, <2>4, <2>6
  <2>8. QED
    BY <2>3, <2>5, <2>6, <2>7
<1>2. CASE \E x, y \in Bodies : CreateList(x, y)
  <2>1. PICK x \in Bodies, y \in Bodies : CreateList(x, y)
    BY <1>2
  <2>2. PICK sent : sent = <<x, y>>
    OBVIOUS
  <2>3. DOMAIN sent = {1, 2} /\ sent[1] = x /\ sent[2] = y
    BY <2>2
  <2>4. PICK outcomes : outcomes = <<InFull(x), InFull(y)>>
    OBVIOUS
  <2>5. outcomes = [i \in DOMAIN sent |-> InFull(sent[i])]
    BY <2>3, <2>4
  <2>6. /\ phase = "served" /\ last.does = "nothing" /\ Table # <<>>
        /\ Insert(<<x, y>>, InOrder(<<InFull(x), InFull(y)>>))
    BY <2>1, Zenon DEF CreateList, InFull
  <2>7. Insert(sent, InOrder(outcomes))
    BY <2>2, <2>4, <2>6
  <2>8. QED
    BY <2>3, <2>5, <2>6, <2>7
<1>3. QED
  BY <1>1, <1>2 DEF Create

(* What an update does: nothing, or its body was accepted, the first row   *)
(* is changed by it, and the row is answered.                              *)
LEMMA Updates ==
  ASSUME NEW x, UpdateOneRow(x), NEW v, v = InPart(x),
         NEW written, written = [rows EXCEPT ![1] = UpdateOne(rows[1], v[2][2])]
  PROVE  /\ last.does = "create" /\ rows # <<>> /\ Table # <<>>
         /\ last'.does = "update" /\ last'.sent = <<x>> /\ UNCHANGED docVars
         /\ v[1] = "ok" /\ (\A i \in DOMAIN written : ~Violates(Table, written[i])) => last'.outcome = "done"
         /\ last'.outcome # "done" => UNCHANGED <<rows, response>>
         /\ last'.outcome = "done" =>
              /\ v[1] = "ok" /\ \A i \in DOMAIN written : ~Violates(Table, written[i])
              /\ rows' = [i \in DOMAIN written |-> Kept(written[i])]
              /\ response' = Shows(rows'[1])
<1>1. last.does = "create" /\ rows # <<>> /\ Table # <<>> /\ UpdateFirst(<<x>>, InPart(x))
  BY Zenon DEF UpdateOneRow, InPart
<1>2. Write("update", <<x>>, v, written)
  BY <1>1 DEF UpdateFirst
<1>3. PICK outcome : outcome = Outcome(v, \E i \in DOMAIN written : Violates(Table, written[i]))
  OBVIOUS
<1>4. /\ Answer("update", <<x>>, outcome)
      /\ IF outcome = "done"
         THEN rows' = [i \in DOMAIN written |-> Kept(written[i])] /\ response' = Shows(rows'[1])
         ELSE UNCHANGED <<rows, response>>
      /\ UNCHANGED docVars
  BY <1>2, <1>3, Zenon DEF Write
<1>5. last'.does = "update" /\ last'.sent = <<x>> /\ last'.outcome = outcome
  BY <1>4 DEF Answer
<1>6. v[1] \in {"ok", "wrong", "crash"}
  BY InPartIs, ClassOutcome
<1>7. outcome = "done" <=> v[1] = "ok" /\ \A i \in DOMAIN written : ~Violates(Table, written[i])
  BY <1>3, <1>6 DEF Outcome
<1>8. QED
  BY <1>1, <1>4, <1>5, <1>7

(* A search changes no row. *)
LEMMA Searches ==
  ASSUME Search
  PROVE  last.does = "create" /\ last'.does = "find" /\ UNCHANGED <<docVars, rows, response>>
<1>1. PICK key, texts : Find(key, texts)
  BY Zenon DEF Search
<1>2. PICK v : v = ValidateClass(Query, <<"multi", [n \in {key} |-> [i \in DOMAIN texts |-> <<"str", texts[i]>>]]>>, TRUE, TRUE)
  OBVIOUS
<1>3. last.does = "create" /\ Reply(key, texts, v) /\ UNCHANGED <<docVars, rows, response>>
  BY <1>1, <1>2, Zenon DEF Find
<1>4. last'.does = "find"
  BY <1>3 DEF Reply
<1>5. QED
  BY <1>3, <1>4

(* A document is built before anything is asked of the service. *)
LEMMA BuildsOnly ==
  ASSUME Build
  PROVE  service' = service /\ phase # "served"
BY DEF Build, BuildPath, NextRound, Parse, Fail

-----------------------------------------------------------------------------
(* The inductive invariant of the lists: there are rows only once the      *)
(* service is asked, and the rows that were created are those that each    *)
(* body alone would have made.                                             *)
Requested ==
  /\ service \in DOMAIN Services
  /\ last.does # "nothing" => phase = "served"
  /\ rows = <<>> \/ 1 \in DOMAIN rows
  /\ ListStoresWhatOneWould

(* The create that makes them so. *)
LEMMA CreateStores ==
  ASSUME service \in DOMAIN Services, Create
  PROVE  (rows = <<>> \/ 1 \in DOMAIN rows => rows' = <<>> \/ 1 \in DOMAIN rows') /\ ListStoresWhatOneWould'
<1>1. PICK sent, outcomes :
              /\ DOMAIN sent \subseteq Nat /\ 1 \in DOMAIN sent
              /\ \A i \in DOMAIN sent : sent[i] \in Bodies
              /\ Table = <<>> => DOMAIN sent = {1}
              /\ outcomes = [i \in DOMAIN sent |-> InFull(sent[i])]
              /\ Insert(sent, InOrder(outcomes))
  BY CreateSteps
<1>2. /\ last'.does = "create" /\ last'.sent = sent /\ UNCHANGED docVars
      /\ last'.outcome # "done" => UNCHANGED <<rows, response>>
  BY <1>1, Creates
<1>3. CASE last'.outcome # "done"
  BY <1>2, <1>3 DEF ListStoresWhatOneWould, Created
<1>4. CASE last'.outcome = "done"
  <2>1. PICK records, written :
                /\ \A i \in DOMAIN sent : InFull(sent[i])[1] = "ok"
                /\ records = [i \in DOMAIN sent |-> InFull(sent[i])[2][2]]
                /\ written = Written(records)
                /\ rows' = [i \in DOMAIN written |-> Kept(written[i])]
    BY <1>1, <1>4, Creates
  <2>2. DOMAIN written = DOMAIN sent
    BY <2>1 DEF Written, InsertMany
  <2>3. ASSUME HasDefaults, NEW i \in DOMAIN sent
        PROVE  rows'[i] = Kept(Written(<<InFull(sent[i])[2][2]>>)[1])
    <3>1. PICK alone : alone = <<records[i]>>
      OBVIOUS
    <3>2. CASE Table = <<>>
      <4>1. written[i] = records[i] /\ Written(alone)[1] = records[i]
        BY <2>1, <3>1, <3>2 DEF Written
      <4>2. QED
        BY <2>1, <2>2, <3>1, <4>1
    <3>3. CASE Table # <<>>
      <4>1. PICK strict : Truly(strict) /\ \A x : InFull(x) = ClassValued(Body, x, strict)
        BY InFullIs
      <4>2. \A j \in DOMAIN sent : sent[j][1] = "obj" /\ ClassValued(Body, sent[j], strict)[1] = "ok"
        BY <1>1, <2>1, <3>3, <4>1, ServiceIs
      <4>3. records = [j \in DOMAIN sent |-> ClassValued(Body, sent[j], strict)[2][2]]
        BY <2>1, <4>1
      <4>4. PICK defaults : defaults = HasDefaults
        OBVIOUS
      <4>5. IsTable(Table) /\ IsOfTable(Body, Table, defaults) /\ Truly(defaults)
        BY <2>3, <3>3, <4>4, ServiceIs, Zenon DEF Truly
      <4>6. InsertMany(Table, records)[i] = InsertMany(Table, alone)[1]
        BY <3>1, <4>1, <4>2, <4>3, <4>5, AsOneWould
      <4>7. written[i] = Written(alone)[1]
        BY <2>1, <3>3, <4>6 DEF Written
      <4>8. QED
        BY <2>1, <2>2, <3>1, <4>7
    <3>4. QED
      BY <3>2, <3>3
  <2>4. service' = service /\ DOMAIN rows' = DOMAIN sent /\ 1 \in DOMAIN rows'
    BY <1>1, <1>2, <2>1, <2>2 DEF docVars
  <2>5. ListStoresWhatOneWould'
    <3>1. SUFFICES ASSUME HasDefaults', NEW i \in DOMAIN rows'
                   PROVE  (rows[i] = Kept(Written(<<Checked(last.sent[i], TRUE)[2][2]>>)[1]))'
      BY Zenon DEF ListStoresWhatOneWould
    <3>2. HasDefaults /\ i \in DOMAIN sent
      BY <2>4, <3>1 DEF HasDefaults
    <3>3. rows'[i] = Kept(Written(<<InFull(sent[i])[2][2]>>)[1])
      BY <2>3, <3>2
    <3>4. QED
      BY <1>2, <2>4, <3>3, Zenon DEF InFull, Checked, Body, Kept, Written, Table
  <2>6. QED
    BY <2>4, <2>5
<1>5. QED
  BY <1>3, <1>4

(* It holds when the service starts. *)
LEMMA RequestedAtFirst == ClientInit => Requested
<1>1. SUFFICES ASSUME ClientInit PROVE Requested
  OBVIOUS
<1>2. service \in DOMAIN Services /\ rows = <<>> /\ last.does = "nothing"
  BY <1>1 DEF ClientInit, Init
<1>3. ~Created
  BY <1>2 DEF Created
<1>4. ListStoresWhatOneWould
  BY <1>3, Zenon DEF ListStoresWhatOneWould
<1>5. QED
  BY <1>2, <1>4 DEF Requested

(* No step breaks it: a search and an update are no create. *)
LEMMA RequestedKept == Requested /\ [ClientNext]_vars => Requested'
<1>1. SUFFICES ASSUME Requested, [ClientNext]_vars PROVE Requested'
  OBVIOUS
<1>2. service \in DOMAIN Services /\ (rows = <<>> \/ 1 \in DOMAIN rows)
  BY <1>1 DEF Requested
<1>3. CASE BuildDocument
  <2>1. service' = service /\ phase # "served" /\ rows' = rows /\ last' = last
    BY <1>3, BuildsOnly DEF BuildDocument, clientVars
  <2>2. last.does = "nothing"
    BY <1>1, <2>1 DEF Requested
  <2>3. ListStoresWhatOneWould'
    BY <2>1, <2>2 DEF ListStoresWhatOneWould, Created
  <2>4. QED
    BY <1>2, <2>1, <2>2, <2>3 DEF Requested
<1>4. CASE Create
  <2>1. phase = "served"
    BY <1>4, CreateSteps
  <2>2. UNCHANGED docVars
    BY <1>4, CreateSteps, Creates
  <2>3. service' = service /\ phase' = phase
    BY <2>2 DEF docVars
  <2>4. (rows' = <<>> \/ 1 \in DOMAIN rows') /\ ListStoresWhatOneWould'
    BY <1>2, <1>4, CreateStores
  <2>5. QED
    BY <1>2, <2>1, <2>3, <2>4 DEF Requested
<1>5. CASE Update
  <2>1. PICK x : UpdateOneRow(x)
    BY <1>5 DEF Update
  <2>2. PICK v, written : v = InPart(x) /\ written = [rows EXCEPT ![1] = UpdateOne(rows[1], v[2][2])]
    OBVIOUS
  <2>3. /\ last.does = "create" /\ last'.does = "update" /\ UNCHANGED docVars
        /\ rows' = rows \/ rows' = [i \in DOMAIN written |-> Kept(written[i])]
        /\ rows # <<>>
    BY <2>1, <2>2, Updates
  <2>4. DOMAIN rows' = DOMAIN rows
    BY <2>2, <2>3
  <2>5. service' = service /\ phase' = phase /\ phase = "served"
    BY <1>1, <2>3 DEF docVars, Requested
  <2>6. ListStoresWhatOneWould'
    BY <2>3 DEF ListStoresWhatOneWould, Created
  <2>7. QED
    BY <1>2, <2>3, <2>4, <2>5, <2>6 DEF Requested
<1>6. CASE Search
  <2>1. last.does = "create" /\ last'.does = "find" /\ UNCHANGED <<docVars, rows, response>>
    BY <1>6, Searches
  <2>2. service' = service /\ phase' = phase /\ phase = "served" /\ rows' = rows
    BY <1>1, <2>1 DEF docVars, Requested
  <2>3. ListStoresWhatOneWould'
    BY <2>1 DEF ListStoresWhatOneWould, Created
  <2>4. QED
    BY <1>2, <2>2, <2>3 DEF Requested
<1>7. CASE UNCHANGED vars
  <2>1. service' = service /\ phase' = phase /\ rows' = rows /\ last' = last
    BY <1>7 DEF vars, docVars, clientVars
  <2>2. ListStoresWhatOneWould'
    BY <1>1, <2>1, Zenon DEF Requested, ListStoresWhatOneWould, Created, HasDefaults, Kept, Written, Table, Checked, Body
  <2>3. QED
    BY <1>1, <2>1, <2>2 DEF Requested
<1>8. QED
  BY <1>1, <1>3, <1>4, <1>5, <1>6, <1>7 DEF ClientNext

(* create_list stores what create_one would store of each of its bodies,   *)
(* when the body class has the defaults of the table, though one INSERT is *)
(* filled up with the columns of all of them (path.py:147,                 *)
(* dbmodel.py:208).                                                        *)
THEOREM ListsStoreAlike == ClientSpec => []ListStoresWhatOneWould
<1>1. Requested => ListStoresWhatOneWould
  BY DEF Requested
<1>2. QED
  BY RequestedAtFirst, RequestedKept, <1>1, PTL DEF ClientSpec

-----------------------------------------------------------------------------
(* The inductive invariant of the rows: each is one as it is kept, and the *)
(* client was answered with the first of them.                             *)
RowsAsStored ==
  /\ Requested
  /\ last.does = "nothing" => rows = <<>>
  /\ rows = [i \in DOMAIN rows |-> rows[i]]
  /\ Table # <<>> => \A i \in DOMAIN rows : GoodRow(Table, rows[i])
  /\ rows # <<>> => response = Shows(rows[1])

(* A create makes such rows. *)
LEMMA CreateGood ==
  ASSUME Unfolds, service \in DOMAIN Services, Create, rows = <<>>
  PROVE  /\ rows' = [i \in DOMAIN rows' |-> rows'[i]]
         /\ (Table # <<>> => \A i \in DOMAIN rows : GoodRow(Table, rows[i]))'
         /\ (rows # <<>> => response = Shows(rows[1]))'
         /\ last'.does # "nothing"
<1>1. PICK sent, outcomes :
              /\ DOMAIN sent \subseteq Nat /\ 1 \in DOMAIN sent
              /\ \A i \in DOMAIN sent : sent[i] \in Bodies
              /\ outcomes = [i \in DOMAIN sent |-> InFull(sent[i])]
              /\ Insert(sent, InOrder(outcomes))
  BY CreateSteps
<1>2. /\ last'.does = "create" /\ UNCHANGED docVars
      /\ last'.outcome # "done" => UNCHANGED <<rows, response>>
  BY <1>1, Creates
<1>3. service' = service /\ Table' = Table
  BY <1>2 DEF docVars, Table
<1>4. CASE last'.outcome # "done"
  <2>1. rows' = <<>>
    BY <1>2, <1>4
  <2>2. QED
    BY <1>2, <2>1
<1>5. CASE last'.outcome = "done"
  <2>1. PICK records, written :
                /\ \A i \in DOMAIN sent : InFull(sent[i])[1] = "ok"
                /\ records = [i \in DOMAIN sent |-> InFull(sent[i])[2][2]]
                /\ written = Written(records) /\ \A i \in DOMAIN written : ~Violates(Table, written[i])
                /\ rows' = [i \in DOMAIN written |-> Kept(written[i])]
                /\ response' = Shows(rows'[1])
    BY <1>1, <1>5, Creates
  <2>2. rows' = [i \in DOMAIN rows' |-> rows'[i]]
    BY <2>1
  <2>3. (response = Shows(rows[1]))'
    BY <1>3, <2>1, Zenon DEF Shows, Response
  <2>4. ASSUME Table # <<>>, NEW i \in DOMAIN rows' PROVE GoodRow(Table, rows'[i])
    <3>1. IsTable(Table) /\ IsOfTable(Body, Table, HasDefaults)
      BY <2>4, ServiceIs
    <3>2. written = InsertMany(Table, records) /\ DOMAIN written = DOMAIN records /\ DOMAIN records = DOMAIN sent
      BY <2>1, <2>4 DEF Written, InsertMany
    <3>3. i \in DOMAIN records /\ rows'[i] = Stored(Table, written[i])
      BY <2>1, <2>4, <3>2 DEF Kept
    <3>4. PICK strict : \A x : InFull(x) = ClassValued(Body, x, strict)
      BY InFullIs
    <3>5. ASSUME NEW j \in DOMAIN records PROVE GoodRecord(Table, records[j])
      <4>1. PICK x : x = sent[j]
        OBVIOUS
      <4>2. x[1] = "obj" /\ \A n \in DOMAIN x[2] : IsJson(x[2][n])
        BY <1>1, <2>4, <3>2, <4>1, ServiceIs
      <4>3. \A k \in DOMAIN Table : Table[k].name \in DOMAIN x[2] => Sendable(Table[k], x[2][Table[k].name])
        BY <4>2, JsonSendable
      <4>4. PICK v : v = ClassValued(Body, x, strict)
        OBVIOUS
      <4>5. v[1] = "ok" /\ records[j] = v[2][2]
        BY <2>1, <3>2, <3>4, <4>1, <4>4
      <4>6. GoodRecord(Table, v[2][2])
        BY <3>1, <4>2, <4>3, <4>4, <4>5, ValidatedGood
      <4>7. QED
        BY <4>5, <4>6
    <3>6. /\ DOMAIN written[i] = ColumnNames(Table)
          /\ \A k \in DOMAIN Table : Holds(Table[k], written[i][Table[k].name])
      BY <3>1, <3>2, <3>3, <3>5, InsertedGood
    <3>7. ~Violates(Table, written[i])
      BY <2>1, <3>2, <3>3
    <3>8. QED
      BY <3>1, <3>3, <3>6, <3>7, StoredGood
  <2>5. (Table # <<>> => \A i \in DOMAIN rows : GoodRow(Table, rows[i]))'
    BY <1>3, <2>4
  <2>6. QED
    BY <1>2, <2>2, <2>3, <2>5
<1>6. QED
  BY <1>4, <1>5

-----------------------------------------------------------------------------
(* A body that is a part of what the client was answered. *)
SentBack(x) == \E S \in SUBSET DOMAIN response : x = Part(S)

(* A value in a response is the dump of a column's value that is not null. *)
LEMMA ResponseHas ==
  ASSUME service \in DOMAIN Services, Table # <<>>, NEW row, GoodRow(Table, row),
         NEW shown, shown = Shows(row), NEW n \in DOMAIN shown
  PROVE  \E k \in DOMAIN Table :
           /\ n = Table[k].name /\ row[n] # Null
           /\ shown[n] = Dump(TypeOf(Table[k]), DumpBy(ValidatorOf(Table[k]), row[n]))
<1>2. PICK defaults : IsTable(Table) /\ IsOfTable(Response, Table, defaults)
  BY ServiceIs
<1> DEFINE fields == {f \in Range(FieldsOf[Response]) : f.name \in DOMAIN row /\ ~IsNothing(row[f.name])}
           field(m) == CHOOSE f \in fields : f.name = m
           dumped(f) == Dump(f.type, DumpField(f, row[f.name]))
<1>3. shown = [m \in {f.name : f \in fields} |-> Dump(field(m).type, DumpField(field(m), row[m]))]
  BY DEF Shows, DumpClass
<1>4. PICK f \in fields : f.name = n
  BY <1>3
<1>5. field(n) = f
  BY <1>2, <1>4, FieldsOfTable
<1>6. shown[n] = Dump(f.type, DumpField(f, row[n]))
  <2> HIDE DEF fields, field
  <2>1. shown[n] = Dump(field(n).type, DumpField(field(n), row[n]))
    BY <1>3
  <2>2. QED
    BY <1>5, <2>1
<1>7. PICK k \in DOMAIN Table :
        /\ f.name = Table[k].name
        /\ \E required, default \in BOOLEAN :
             f = FieldOf(Table[k], required, default) /\ (defaults => default)
  BY <1>2, FieldsOfTable
<1>8. f.type = TypeOf(Table[k]) /\ f.validators = <<ValidatorOf(Table[k])>>
  <2>1. PICK required \in BOOLEAN, default \in BOOLEAN : f = FieldOf(Table[k], required, default)
    BY <1>7
  <2>2. Table[k].kind \in Kinds
    BY <1>2, TableIs
  <2>3. QED
    BY <2>1, <2>2, FieldOfColumn, ConvertedHas
<1>9. DumpField(f, row[n]) = DumpBy(ValidatorOf(Table[k]), row[n])
  BY <1>8, DumpOne
<1>10. row[n] # Null
  BY <1>4 DEF IsNothing
<1>11. QED
  BY <1>4, <1>6, <1>7, <1>8, <1>9, <1>10

(* Any part of a response is accepted as an update, and leaves its row as  *)
(* it is.                                                                  *)
LEMMA SentBackIs ==
  ASSUME Unfolds, service \in DOMAIN Services, Table # <<>>, GoodRow(Table, rows[1]), response = Shows(rows[1]),
         NEW x, SentBack(x), NEW v, v = InPart(x)
  PROVE  v[1] = "ok" /\ UpdateOne(rows[1], v[2][2]) = rows[1]
<1>1. PICK S \in SUBSET DOMAIN response : x = Part(S)
  BY DEF SentBack
<1>2. x[1] = "obj" /\ DOMAIN x[2] = S /\ \A n \in S : x[2][n] = response[n]
  BY <1>1 DEF Part
<1>3. IsTable(Table) /\ IsOfTable(Body, Table, HasDefaults)
  BY ServiceIs
<1>4. PICK strict : ~Truly(strict) /\ v = ClassValued(Body, x, strict)
  BY InPartIs
<1>5. PICK row : row = rows[1]
  OBVIOUS
<1>6. ASSUME NEW f \in Range(FieldsOf[Body]), f.name \in S
      PROVE  Collects(f, x[2][f.name]) = Ok(row[f.name])
  <2>1. PICK n : n = f.name
    OBVIOUS
  <2>2. n \in DOMAIN response /\ x[2][n] = response[n]
    BY <1>2, <1>6, <2>1
  <2>3. PICK k \in DOMAIN Table :
           /\ n = Table[k].name /\ row[n] # Null
           /\ response[n] = Dump(TypeOf(Table[k]), DumpBy(ValidatorOf(Table[k]), row[n]))
    BY <1>5, <2>2, ResponseHas
  <2>4. PICK j \in DOMAIN Table :
        /\ f.name = Table[j].name
        /\ \E required, default \in BOOLEAN :
             f = FieldOf(Table[j], required, default) /\ (HasDefaults => default)
    BY <1>3, FieldsOfTable
  <2>5. j = k
    <3>1. Table[j].name = Table[k].name
      BY <2>1, <2>3, <2>4
    <3>2. QED
      BY <1>3, <3>1, TableIs
  <2>6. PICK required \in BOOLEAN, default \in BOOLEAN : f = FieldOf(Table[k], required, default)
    BY <2>4, <2>5
  <2>7. Table[k].kind \in Kinds /\ "NULL" \notin Table[k].members
    BY <1>3, TableIs
  <2>8. f.type = TypeOf(Table[k]) /\ f.validators = <<ValidatorOf(Table[k])>>
    BY <2>6, <2>7, FieldOfColumn, ConvertedHas
  <2>9. DumpField(f, row[n]) = DumpBy(ValidatorOf(Table[k]), row[n])
    BY <2>8, DumpOne
  <2>10. PICK d : d = Dump(f.type, DumpField(f, row[n]))
    OBVIOUS
  <2>11. x[2][n] = d
    BY <2>2, <2>3, <2>8, <2>9, <2>10
  <2>12. Holds(Table[k], row[n])
    BY <1>5, <2>3 DEF GoodRow
  <2>13. Collects(f, d) = Ok(row[n])
    BY <2>3, <2>6, <2>7, <2>10, <2>12, Resent
  <2>14. QED
    BY <2>1, <2>11, <2>13
<1>7. v[1] = "ok"
  <2>1. ASSUME NEW f \in Range(FieldsOf[Body])
        PROVE  /\ \A o \in Range(f.ops) : o \notin DOMAIN x[2]
               /\ f.name \in DOMAIN x[2] => Collects(f, x[2][f.name])[1] = "ok"
    <3>1. \A n \in DOMAIN x[2] : n \in ColumnNames(Table)
      BY <1>2, <1>3, ResponseHas, TableIs
    <3>2. \A n \in ColumnNames(Table) : n \notin Range(f.ops)
      BY <1>3, FieldsOfTable
    <3>3. QED
      BY <1>2, <1>6, <3>1, <3>2, Outcomes
  <2>2. ~strict
    BY <1>4 DEF Truly
  <2>3. QED
    BY <1>2, <1>3, <1>4, <2>1, <2>2, ClassValidated
<1>8. ASSUME NEW n \in DOMAIN v[2][2] \cap DOMAIN row PROVE v[2][2][n] = row[n]
  <2>1. n \in DOMAIN v[2][2] \cap ColumnNames(Table)
    BY <1>3, <1>5, <1>8, StoredSame
  <2>2. PICK f \in Range(FieldsOf[Body]) : f.name = n
    BY <1>2, <1>3, <1>4, <1>7, <2>1, ClassValidated
  <2>3. PICK data : data = Given(f, x, strict)
    OBVIOUS
  <2>4. DOMAIN data = DOMAIN x[2] /\ \A m \in DOMAIN data : data[m][1] = x[2][m]
    <3>1. ~strict
      BY <1>4 DEF Truly
    <3>2. QED
      BY <1>2, <2>3, <3>1, GivenInPart
  <2>5. n \in DOMAIN data /\ v[2][2][n] = Collects(f, data[n][1])[2]
    BY <1>2, <1>3, <1>4, <1>7, <2>1, <2>2, <2>3, ClassValidated
  <2>6. QED
    BY <1>2, <1>6, <2>2, <2>4, <2>5, Outcomes
<1>9. row = [n \in DOMAIN row |-> row[n]]
  BY <1>5 DEF GoodRow
<1>10. UpdateOne(row, v[2][2]) = row
  <2>1. PICK g : g = v[2][2]
    OBVIOUS
  <2>2. DOMAIN UpdateOne(row, g) = DOMAIN row /\ \A n \in DOMAIN row : UpdateOne(row, g)[n] = row[n]
    BY <1>8, <2>1 DEF UpdateOne, Both
  <2>3. UpdateOne(row, g) = [n \in DOMAIN row |-> UpdateOne(row, g)[n]]
    BY <2>2 DEF UpdateOne, Both
  <2>4. QED
    BY <1>9, <2>1, <2>2, <2>3
<1>11. QED
  BY <1>5, <1>7, <1>10

(* An UPDATE writes the columns it is given (dbmodel.py:143). *)
LEMMA UpdateOneIs ==
  ASSUME NEW row, NEW data
  PROVE  /\ DOMAIN UpdateOne(row, data) = DOMAIN row
         /\ \A n \in DOMAIN row :
              UpdateOne(row, data)[n] = IF n \in DOMAIN data THEN data[n] ELSE row[n]
<1> DEFINE new == [n \in DOMAIN data \cap DOMAIN row |-> data[n]]
<1>1. PICK d : d = new
  OBVIOUS
<1>2. DOMAIN d = DOMAIN data \cap DOMAIN row /\ \A n \in DOMAIN d : d[n] = data[n]
  BY <1>1
<1>3. UpdateOne(row, data) = Both(d, row)
  BY <1>1 DEF UpdateOne
<1>4. QED
  BY <1>2, <1>3 DEF Both

(* A row that is updated is one as it is kept, if PostgreSQL does not      *)
(* refuse it.                                                              *)
LEMMA UpdatedGood ==
  ASSUME Unfolds, service \in DOMAIN Services, Table # <<>>, GoodRow(Table, rows[1]), response = Shows(rows[1]),
         NEW x, x \in Bodies \/ SentBack(x), NEW v, v = InPart(x), v[1] = "ok",
         NEW new, new = UpdateOne(rows[1], v[2][2]), ~Violates(Table, new)
  PROVE  GoodRow(Table, Stored(Table, new))
<1>1. IsTable(Table) /\ IsOfTable(Body, Table, HasDefaults)
  BY ServiceIs
<1>2. CASE SentBack(x)
  <2>1. new = rows[1]
    BY <1>2, SentBackIs
  <2>2. QED
    BY <1>1, <2>1, StoredSame
<1>3. CASE x \in Bodies
  <2>1. x[1] = "obj" /\ \A n \in DOMAIN x[2] : IsJson(x[2][n])
    BY <1>3, ServiceIs
  <2>2. \A k \in DOMAIN Table : Table[k].name \in DOMAIN x[2] => Sendable(Table[k], x[2][Table[k].name])
    BY <2>1, JsonSendable
  <2>3. PICK strict : v = ClassValued(Body, x, strict)
    BY InPartIs
  <2>4. PICK g : g = v[2][2]
    OBVIOUS
  <2>5. GoodRecord(Table, g)
    BY <1>1, <2>1, <2>2, <2>3, <2>4, ValidatedGood
  <2>6. PICK row : row = rows[1]
    OBVIOUS
  <2>7. DOMAIN new = DOMAIN row /\ \A n \in DOMAIN row : new[n] = IF n \in DOMAIN g THEN g[n] ELSE row[n]
    BY <2>4, <2>6, UpdateOneIs
  <2>8. DOMAIN row = ColumnNames(Table)
    BY <1>1, <2>6, StoredSame
  <2>9. ASSUME NEW k \in DOMAIN Table PROVE Holds(Table[k], new[Table[k].name])
    <3>1. Table[k].name \in DOMAIN row
      BY <1>1, <2>8, TableIs
    <3>2. CASE Table[k].name \in DOMAIN g
      BY <2>5, <2>7, <3>1, <3>2 DEF GoodRecord
    <3>3. CASE Table[k].name \notin DOMAIN g
      BY <2>6, <2>7, <3>1, <3>3 DEF GoodRow
    <3>4. QED
      BY <3>2, <3>3
  <2>10. QED
    BY <1>1, <2>7, <2>8, <2>9, StoredGood
<1>4. QED
  BY <1>2, <1>3

(* The bodies of an update. *)
LEMMA UpdateSteps ==
  ASSUME Update
  PROVE  \E x : UpdateOneRow(x) /\ (x \in Bodies \/ SentBack(x))
BY DEF Update, SentBack

(* An update keeps the other rows and the columns that were not sent; with *)
(* a part of a response it succeeds and keeps every row.                   *)
LEMMA UpdateGood ==
  ASSUME Unfolds, RowsAsStored, NEW x, UpdateOneRow(x), x \in Bodies \/ SentBack(x)
  PROVE  /\ last'.does = "update" /\ last'.sent = <<x>> /\ UNCHANGED docVars
         /\ rows' = [i \in DOMAIN rows |-> rows'[i]]
         /\ \A i \in DOMAIN rows : i # 1 => rows'[i] = rows[i]
         /\ \A n \in DOMAIN rows[1] : n \in DOMAIN x[2] \/ rows'[1][n] = rows[1][n]
         /\ SentBack(x) => last'.outcome = "done" /\ rows' = rows
         /\ \A i \in DOMAIN rows' : GoodRow(Table, rows'[i])
         /\ response' = Shows(rows'[1])
<1>1. PICK v : v = InPart(x)
  OBVIOUS
<1>2. PICK new : new = UpdateOne(rows[1], v[2][2])
  OBVIOUS
<1>3. PICK written : written = [rows EXCEPT ![1] = new]
  OBVIOUS
<1>4. /\ rows # <<>> /\ Table # <<>>
      /\ last'.does = "update" /\ last'.sent = <<x>> /\ UNCHANGED docVars
      /\ v[1] = "ok" /\ (\A i \in DOMAIN written : ~Violates(Table, written[i])) => last'.outcome = "done"
      /\ last'.outcome # "done" => UNCHANGED <<rows, response>>
      /\ last'.outcome = "done" =>
           /\ v[1] = "ok" /\ \A i \in DOMAIN written : ~Violates(Table, written[i])
           /\ rows' = [i \in DOMAIN written |-> Kept(written[i])]
           /\ response' = Shows(rows'[1])
  BY <1>1, <1>2, <1>3, Updates
<1>5. /\ service \in DOMAIN Services /\ 1 \in DOMAIN rows /\ rows = [i \in DOMAIN rows |-> rows[i]]
      /\ \A i \in DOMAIN rows : GoodRow(Table, rows[i])
      /\ response = Shows(rows[1])
  BY <1>4 DEF RowsAsStored, Requested
<1>6. IsTable(Table) /\ IsOfTable(Body, Table, HasDefaults) /\ GoodRow(Table, rows[1])
  BY <1>4, <1>5, ServiceIs
<1>7. DOMAIN written = DOMAIN rows /\ written[1] = new /\ \A i \in DOMAIN rows : i # 1 => written[i] = rows[i]
  BY <1>3, <1>5
<1>8. \A i \in DOMAIN rows : Kept(rows[i]) = rows[i] /\ ~Violates(Table, rows[i])
  BY <1>4, <1>5, <1>6, StoredSame DEF Kept
<1>9. SentBack(x) => v[1] = "ok" /\ new = rows[1]
  BY <1>1, <1>2, <1>4, <1>5, <1>6, SentBackIs
<1>10. CASE last'.outcome # "done"
  <2>1. rows' = rows /\ response' = response
    BY <1>4, <1>10
  <2>2. ~SentBack(x)
    <3>1. SUFFICES ASSUME SentBack(x) PROVE FALSE
      OBVIOUS
    <3>2. \A i \in DOMAIN written : ~Violates(Table, written[i])
      BY <1>5, <1>7, <1>8, <1>9, <3>1
    <3>3. QED
      BY <1>4, <1>9, <1>10, <3>1, <3>2
  <2>3. QED
    BY <1>4, <1>5, <2>1, <2>2
<1>11. CASE last'.outcome = "done"
  <2>1. v[1] = "ok" /\ ~Violates(Table, new) /\ rows' = [i \in DOMAIN rows |-> Kept(written[i])]
    BY <1>4, <1>5, <1>7, <1>11
  <2>2. \A i \in DOMAIN rows : i # 1 => rows'[i] = rows[i]
    BY <1>7, <1>8, <2>1
  <2>3. rows'[1] = Stored(Table, new)
    BY <1>4, <1>5, <1>7, <2>1 DEF Kept
  <2>4. GoodRow(Table, rows'[1])
    BY <1>1, <1>2, <1>4, <1>5, <1>6, <2>1, <2>3, UpdatedGood
  <2>5. \A i \in DOMAIN rows' : GoodRow(Table, rows'[i])
    BY <1>5, <2>1, <2>2, <2>4
  <2>6. ASSUME SentBack(x) PROVE rows' = rows
    <3>1. \A i \in DOMAIN rows : Kept(written[i]) = rows[i]
      BY <1>7, <1>8, <1>9, <2>6
    <3>2. QED
      BY <1>5, <2>1, <3>1
  <2>7. ASSUME NEW n \in DOMAIN rows[1], n \notin DOMAIN x[2] PROVE rows'[1][n] = rows[1][n]
    <3>1. x[1] = "obj"
      BY <1>4, <1>5, ServiceIs DEF SentBack, Part
    <3>2. PICK strict : ~Truly(strict) /\ v = ClassValued(Body, x, strict)
      BY <1>1, InPartIs
    <3>3. ~strict
      BY <3>2 DEF Truly
    <3>4. PICK g : g = v[2][2]
      OBVIOUS
    <3>5. DOMAIN g \subseteq DOMAIN x[2]
      BY <1>6, <2>1, <3>1, <3>2, <3>3, <3>4, ClassValidated
    <3>6. DOMAIN new = DOMAIN rows[1] /\ new[n] = rows[1][n]
      BY <1>2, <2>7, <3>4, <3>5, UpdateOneIs
    <3>7. n \in ColumnNames(Table)
      BY <1>6, <2>7, StoredSame
    <3>8. PICK k \in DOMAIN Table : Table[k].name = n
      BY <1>6, <3>7, TableIs
    <3>9. Stored(Table, new)[n] = ReadBack(Table[k], rows[1][n])
      BY <1>6, <2>7, <3>6, <3>8, TableIs DEF Stored
    <3>10. ReadBack(Table[k], rows[1][n]) = rows[1][n]
      BY <1>6, <3>8 DEF GoodRow
    <3>11. QED
      BY <2>3, <3>9, <3>10
  <2>8. rows' = [i \in DOMAIN rows |-> rows'[i]]
    BY <2>1
  <2>9. QED
    BY <1>4, <1>11, <2>2, <2>5, <2>6, <2>7, <2>8
<1>12. QED
  BY <1>10, <1>11

(* The invariant of the rows holds when the service starts. *)
LEMMA StoredAtFirst == ClientInit => RowsAsStored
<1>1. SUFFICES ASSUME ClientInit PROVE RowsAsStored
  OBVIOUS
<1>2. rows = <<>>
  BY <1>1 DEF ClientInit
<1>3. Requested
  BY <1>1, RequestedAtFirst
<1>4. rows = [i \in DOMAIN rows |-> rows[i]] /\ DOMAIN rows = {}
  BY <1>2
<1>5. QED
  BY <1>2, <1>3, <1>4 DEF RowsAsStored

(* No step breaks it. *)
LEMMA StoredKept ==
  ASSUME Unfolds, RowsAsStored, [ClientNext]_vars
  PROVE  RowsAsStored'
<1>1. Requested /\ Requested'
  BY RequestedKept DEF RowsAsStored
<1>2. service \in DOMAIN Services
  BY <1>1 DEF Requested
<1>3. ASSUME service' = service, rows' = rows, response' = response, last'.does = "nothing" => last.does = "nothing"
      PROVE  RowsAsStored'
  <2>1. Table' = Table /\ Shows(rows[1])' = Shows(rows[1])
    BY <1>3 DEF Table, Shows, Response
  <2>2. QED
    BY <1>1, <1>3, <2>1 DEF RowsAsStored
<1>4. CASE BuildDocument
  <2>1. service' = service /\ UNCHANGED clientVars
    BY <1>4, BuildsOnly DEF BuildDocument
  <2>2. QED
    BY <1>3, <2>1 DEF clientVars
<1>5. CASE Create
  <2>1. rows = <<>>
    BY <1>5, CreateSteps DEF RowsAsStored
  <2>2. /\ rows' = [i \in DOMAIN rows' |-> rows'[i]]
        /\ (Table # <<>> => \A i \in DOMAIN rows : GoodRow(Table, rows[i]))'
        /\ (rows # <<>> => response = Shows(rows[1]))'
        /\ last'.does # "nothing"
    BY <1>2, <1>5, <2>1, CreateGood
  <2>3. QED
    BY <1>1, <2>2 DEF RowsAsStored
<1>6. CASE Update
  <2>1. PICK x : UpdateOneRow(x) /\ (x \in Bodies \/ SentBack(x))
    BY <1>6, UpdateSteps
  <2>2. /\ last'.does = "update" /\ UNCHANGED docVars
        /\ rows' = [i \in DOMAIN rows |-> rows'[i]]
        /\ \A i \in DOMAIN rows' : GoodRow(Table, rows'[i])
        /\ response' = Shows(rows'[1])
    BY <2>1, UpdateGood
  <2>3. service' = service
    BY <2>2 DEF docVars
  <2>4. Table' = Table /\ Shows(rows[1])' = Shows(rows'[1])
    BY <2>3 DEF Table, Shows, Response
  <2>5. rows' = [i \in DOMAIN rows' |-> rows'[i]]
    BY <2>2
  <2>6. QED
    BY <1>1, <2>2, <2>4, <2>5 DEF RowsAsStored
<1>7. CASE Search
  <2>1. last'.does = "find" /\ UNCHANGED <<docVars, rows, response>>
    BY <1>7, Searches
  <2>2. QED
    BY <1>3, <2>1 DEF docVars
<1>8. CASE UNCHANGED vars
  BY <1>3, <1>8 DEF vars, docVars, clientVars
<1>9. QED
  BY <1>4, <1>5, <1>6, <1>7, <1>8 DEF ClientNext

(* A step that answers an update is one. *)
LEMMA OnlyUpdates ==
  ASSUME Requested, [ClientNext]_vars, last'.does = "update", vars' # vars
  PROVE  \E x : UpdateOneRow(x) /\ (x \in Bodies \/ SentBack(x))
<1>1. CASE BuildDocument
  <2>1. phase # "served" /\ last' = last
    BY <1>1, BuildsOnly DEF BuildDocument, clientVars
  <2>2. QED
    BY <2>1 DEF Requested
<1>2. CASE Create
  BY <1>2, CreateSteps, Creates
<1>3. CASE Search
  BY <1>3, Searches
<1>4. CASE Update
  BY <1>4, UpdateSteps
<1>5. QED
  BY <1>1, <1>2, <1>3, <1>4 DEF ClientNext

(* An update touches the columns that were sent, in the first row, and no  *)
(* default comes back with it (validate.py:232, path.py:195): of every     *)
(* table, class and body.                                                  *)
THEOREM WhatIsSentIsTouched == ASSUME Unfolds PROVE ClientSpec => UpdateTouchesWhatWasSent
<1>1. ASSUME RowsAsStored, [ClientNext]_vars
      PROVE  [last'.does = "update" =>
                /\ \A i \in DOMAIN rows : i # 1 => rows'[i] = rows[i]
                /\ \A n \in DOMAIN rows[1] :
                    n \in DOMAIN last'.sent[1][2] \/ rows'[1][n] = rows[1][n]]_vars
  <2>1. SUFFICES ASSUME last'.does = "update", vars' # vars
                 PROVE  /\ \A i \in DOMAIN rows : i # 1 => rows'[i] = rows[i]
                        /\ \A n \in DOMAIN rows[1] :
                            n \in DOMAIN last'.sent[1][2] \/ rows'[1][n] = rows[1][n]
    OBVIOUS
  <2>2. PICK x : UpdateOneRow(x) /\ (x \in Bodies \/ SentBack(x))
    BY <1>1, <2>1, OnlyUpdates DEF RowsAsStored
  <2>3. /\ last'.sent = <<x>>
        /\ \A i \in DOMAIN rows : i # 1 => rows'[i] = rows[i]
        /\ \A n \in DOMAIN rows[1] : n \in DOMAIN x[2] \/ rows'[1][n] = rows[1][n]
    BY <1>1, <2>2, UpdateGood
  <2>4. last'.sent[1] = x
    BY <2>3
  <2>5. QED
    BY <2>3, <2>4
<1>2. RowsAsStored /\ [ClientNext]_vars => RowsAsStored'
  BY StoredKept
<1>3. QED
  BY StoredAtFirst, <1>1, <1>2, PTL DEF ClientSpec, UpdateTouchesWhatWasSent

(* A client that sends back any part of what it was answered changes       *)
(* nothing and is not refused: every validator reads what its dump writes  *)
(* (fields.py:244).                                                        *)
THEOREM WhatIsShownIsRead == ASSUME Unfolds PROVE ClientSpec => RoundTrip
<1>1. ASSUME RowsAsStored, [ClientNext]_vars
      PROVE  [last'.does = "update" /\ (\E S \in SUBSET DOMAIN response : last'.sent = <<Part(S)>>)
                => last'.outcome = "done" /\ rows' = rows]_vars
  <2>1. SUFFICES ASSUME last'.does = "update", vars' # vars,
                        NEW S \in SUBSET DOMAIN response, last'.sent = <<Part(S)>>
                 PROVE  last'.outcome = "done" /\ rows' = rows
    OBVIOUS
  <2>2. PICK x : UpdateOneRow(x) /\ (x \in Bodies \/ SentBack(x))
    BY <1>1, <2>1, OnlyUpdates DEF RowsAsStored
  <2>3. last'.sent = <<x>> /\ (SentBack(x) => last'.outcome = "done" /\ rows' = rows)
    BY <1>1, <2>2, UpdateGood
  <2>4. SentBack(x)
    BY <2>1, <2>3 DEF SentBack
  <2>5. QED
    BY <2>3, <2>4
<1>2. RowsAsStored /\ [ClientNext]_vars => RowsAsStored'
  BY StoredKept
<1>3. QED
  BY StoredAtFirst, <1>1, <1>2, PTL DEF ClientSpec, RoundTrip

-----------------------------------------------------------------------------
(* A value that was sent with a text is read from that text as it is kept: *)
(* in a query string, as in a body (fields.py:244).                        *)
LEMMA TextIsRead ==
  ASSUME Unfolds, NEW col, col.kind \in Kinds, "NULL" \notin col.members, NEW required, NEW default,
         NEW f, f = FieldOf(col, required, default), col.kind # "JSON",
         NEW r, Holds(col, r), r # Null,
         NEW d, d = Dump(TypeOf(col), DumpBy(ValidatorOf(col), r)), HasText(d),
         NEW t, t = TextOf(d)
  PROVE  Collects(f, <<"str", t>>) = Ok(r) /\ r[1] # "list"
<1> DEFINE v == ValidatorOf(col)
           T == TypeOf(col)
           x == <<"str", t>>
<1>1. f.type = T /\ f.validators = <<v>> /\ T[1] # "class"
  BY FieldOfColumn, ConvertedHas, TypeOfColumn
<1>2. Collects(f, d) = Ok(r)
  <2>1. d = Dump(f.type, DumpField(f, r))
    BY <1>1, DumpOne
  <2>2. QED
    BY <2>1, Resent
<1>3. ~IsNull(r)
  BY DEF Holds
<1>4. d = DumpType(T, DumpBy(v, r))
  BY <1>1 DEF Unfolds
<1>5. ASSUME NEW p, T = Prim(p) PROVE d = DumpBy(v, r)
  BY <1>4, <1>5 DEF DumpType, Prim
<1>6. CASE d = <<"str", d[2]>> /\ r[1] # "list"
  <2>1. x = d
    BY <1>6 DEF TextOf, IsText
  <2>2. QED
    BY <1>2, <1>6, <2>1
<1>7. ASSUME ~IsText(d), ~IsNull(d), r[1] # "list", Call(v, f, x) = Call(v, f, d) PROVE Collects(f, x) = Ok(r)
  <2>1. d \in DOMAIN Texts /\ t = Texts[d] /\ t # "NULL"
    BY <1>7, TextsAssumption DEF HasText, TextOf
  <2>2. ~IsNull(x)
    BY <2>1 DEF IsNull, Null
  <2>3. PICK called : called = Call(v, f, d)
    OBVIOUS
  <2>4. Collects(f, x) = IF called[1] = "ok" THEN Valued(T, called[2]) ELSE called
    BY <1>7, <2>2, <2>3, CollectsAs
  <2>5. Collects(f, d) = IF called[1] = "ok" THEN Valued(T, called[2]) ELSE called
    BY <1>7, <2>3, CollectsAs
  <2>6. QED
    BY <1>2, <2>4, <2>5
<1>8. CASE col.kind \in {"String", "UUID"}
  <2>1. T = Prim("str") /\ v.is \in {"str", "uuid"}
    BY <1>8 DEF TypeOf, ValidatorOf, Validator
  <2>2. d = r
    BY <1>5, <2>1 DEF DumpBy
  <2>3. r = <<"str", r[2]>>
    BY <1>3, <1>8 DEF Holds
  <2>4. r[1] # "list"
    BY <2>3
  <2>5. QED
    BY <1>6, <2>2, <2>3, <2>4
<1>9. CASE col.kind = "Enum"
  <2>1. T = <<"enum", col.members>> /\ v.is = "enum"
    BY <1>9 DEF TypeOf, ValidatorOf, Validator
  <2>2. r = <<"enum", r[2]>>
    BY <1>9 DEF Holds
  <2>3. d = <<"str", r[2]>>
    BY <1>4, <2>1, <2>2 DEF DumpType, DumpBy, DumpEnum
  <2>4. d = <<"str", d[2]>> /\ r[1] # "list"
    BY <2>2, <2>3
  <2>5. QED
    BY <1>6, <2>4
<1>10. CASE col.kind \in {"Date", "DateTime"}
  <2>1. T \in {Prim("date"), Prim("datetime")} /\ v.is = IF col.kind = "Date" THEN "date" ELSE "datetime"
    BY <1>10 DEF TypeOf, ValidatorOf, Validator
  <2>2. r = <<IF col.kind = "Date" THEN "date" ELSE "datetime", r[2]>>
    BY <1>10 DEF Holds
  <2>3. d = DumpBy(v, r)
    BY <1>5, <2>1
  <2>4. d = <<"str", r[2]>>
    BY <1>10, <2>1, <2>2, <2>3 DEF DumpBy, DumpDate, DumpDateTime
  <2>5. d = <<"str", d[2]>> /\ r[1] # "list"
    BY <1>10, <2>2, <2>4
  <2>6. QED
    BY <1>6, <2>5
<1>11. CASE col.kind = "Integer"
  <2>1. T = Prim("int") /\ v.is = "number" /\ v.round = TRUE
    BY <1>11 DEF TypeOf, ValidatorOf, Validator
  <2>2. r = <<"int", r[2]>> /\ r[2] \in Int
    BY <1>11 DEF Holds
  <2>3. d = r
    BY <1>5, <2>1, <2>2 DEF DumpBy, DumpNumber, ToNumber, Round, IsInt, IsText, Amount
  <2>4. ~IsText(d) /\ ~IsNull(d) /\ r[1] # "list" /\ ToNumber(d) = d
    BY <1>3, <2>2, <2>3 DEF IsText, ToNumber
  <2>5. ToNumber(x) = d
    BY <2>2, <2>3, <2>4, TextsAssumption DEF HasText, TextOf, ToNumber, IsText
  <2>6. Call(v, f, x) = Call(v, f, d)
    BY <2>1, <2>4, <2>5 DEF Call, NumberValidator
  <2>7. QED
    BY <1>7, <2>4, <2>6
<1>12. CASE col.kind = "Boolean"
  <2>1. T = Prim("bool") /\ v.is = "bool"
    BY <1>12 DEF TypeOf, ValidatorOf, Validator
  <2>2. r = <<"bool", r[2]>> /\ r[2] \in BOOLEAN
    BY <1>12 DEF Holds
  <2>3. d = Str2Bool(r)
    BY <1>5, <2>1 DEF DumpBy
  <2>4. Str2Bool(r) = r
    BY <2>2, Str2BoolIs
  <2>5. ~IsText(d) /\ ~IsNull(d) /\ r[1] # "list"
    BY <1>3, <2>2, <2>3, <2>4 DEF IsText
  <2>6. Reads[t].yes = r[2] /\ r[1] = "bool"
    BY <2>2, <2>3, <2>4, <2>5, TextsAssumption DEF HasText, TextOf
  <2>7. Str2Bool(x) = <<"bool", Reads[t].yes>>
    BY <2>2, <2>6 DEF Str2Bool, IsText
  <2>8. Str2Bool(x) = Str2Bool(d)
    BY <2>2, <2>3, <2>4, <2>6, <2>7
  <2>9. Call(v, f, x) = Call(v, f, d)
    BY <2>1, <2>8 DEF Call
  <2>10. QED
    BY <1>7, <2>5, <2>9
<1>13. CASE col.kind = "Numeric"
  <2>1. T = Prim("decimal") /\ v.is = "decimal" /\ v.round = col.round
    BY <1>13 DEF TypeOf, ValidatorOf, Validator
  <2>2. d = DumpNumber(v, r)
    BY <1>5, <2>1 DEF DumpBy
  <2>3. CASE r = NaN
    <3>1. d = NaN
      BY <2>2, <2>3 DEF DumpNumber, ToNumber, Round, IsInt, IsText, HalfEven, NaN
    <3>2. ~IsText(d) /\ ~IsNull(d) /\ r[1] # "list" /\ ToNumber(d) = d
      BY <1>3, <2>3, <3>1 DEF IsText, NaN, ToNumber
    <3>3. Reads[t].number = d
      BY <3>1, <3>2, TextsAssumption DEF HasText, TextOf, NaN
    <3>4. ToNumber(x) = d
      BY <3>3 DEF ToNumber, IsText
    <3>5. Call(v, f, x) = Call(v, f, d)
      BY <2>1, <3>2, <3>4 DEF Call, DecimalValidator
    <3>6. QED
      BY <1>7, <3>2, <3>5
  <2>4. CASE r = <<"dec", r[2]>> /\ r[2] \in Int /\ (col.round => HalfEven(r[2]) = r[2])
    <3>1. d = r
      BY <2>1, <2>2, <2>4 DEF DumpNumber, ToNumber, Round, IsInt, IsText
    <3>2. ~IsText(d) /\ ~IsNull(d) /\ r[1] # "list" /\ ToNumber(d) = d /\ d[1] = "dec" /\ d # NaN
      BY <1>3, <2>4, <3>1 DEF IsText, NaN, ToNumber
    <3>3. Reads[t].number[1] \in {"int", "float", "dec"} /\ Reads[t].number[2] = d[2]
      BY <3>2, TextsAssumption DEF HasText, TextOf
    <3>4. ToNumber(x) = Reads[t].number /\ ToNumber(x) # NaN
      BY <3>3 DEF ToNumber, IsText, NaN
    <3>5. DecimalValidator(v, f, x) = NumberValidator(v, f, <<"dec", d[2]>>)
      BY <3>3, <3>4 DEF DecimalValidator
    <3>6. DecimalValidator(v, f, d) = NumberValidator(v, f, <<"dec", d[2]>>)
      BY <3>2 DEF DecimalValidator
    <3>7. Call(v, f, x) = Call(v, f, d)
      BY <2>1, <3>5, <3>6 DEF Call
    <3>8. QED
      BY <1>7, <3>2, <3>7
  <2>5. QED
    BY <1>3, <1>13, <2>3, <2>4 DEF Holds
<1>14. QED
  BY <1>8, <1>9, <1>10, <1>11, <1>12, <1>13 DEF Kinds

-----------------------------------------------------------------------------
(* The places of two values.                                               *)
LEMMA MaxTwo == Max({1, 2}) = 2 /\ {1, 2} \ {2} = {1}
BY DEF Max

(* Values appended one after the other.                                    *)
LEMMA AppendOne == ASSUME NEW a, NEW b PROVE Append(<<>>, a) = <<a>> /\ Append(<<a>>, b) = <<a, b>>
<1> DEFINE S == {a, b}
<1>1. <<a>> \in Seq(S) /\ b \in S /\ Len(<<a>>) = 1 /\ <<a>>[1] = a
  OBVIOUS
<1>2. PICK s : s = <<a>>
  OBVIOUS
<1>3. PICK u : u = Append(s, b)
  OBVIOUS
<1> HIDE DEF S
<1>4. u \in Seq(S) /\ Len(u) = 2 /\ u[1] = a /\ u[2] = b
  BY <1>1, <1>2, <1>3
<1>5. PICK w : w = <<a, b>>
  OBVIOUS
<1>6. w \in Seq(S) /\ Len(w) = 2 /\ w[1] = a /\ w[2] = b
  BY <1>5 DEF S
<1>7. u = w
  BY <1>4, <1>6
<1>8. Append(<<>>, a) = <<a>>
  <2>1. <<>> \in Seq(S) /\ a \in S
    BY DEF S
  <2>2. QED
    BY <2>1
<1>9. QED
  BY <1>2, <1>3, <1>5, <1>7, <1>8

(* Two values neither of which is null are both kept (validate.py:248).    *)
LEMMA NoNulls ==
  ASSUME NEW a, NEW b, a # Null, b # Null
  PROVE  WithoutNulls(<<a, b>>) = <<a, b>>
<1> DEFINE all == <<a, b>>
           F(it) == [s \in SUBSET {1, 2} |-> IF s = {} THEN <<>> ELSE
                        IF all[Max(s)] = Null THEN it[s \ {Max(s)}] ELSE Append(it[s \ {Max(s)}], all[Max(s)])]
<1>1. DOMAIN all = {1, 2} /\ all[1] = a /\ all[2] = b
  OBVIOUS
<1>2. WithoutNulls(all) = (CHOOSE it : it = F(it))[{1, 2}]
  <2> HIDE DEF all
  <2>1. QED
    BY <1>1, Zenon DEF WithoutNulls, FoldLeft, MapThenFoldSet, F
<1>3. \E it : it = F(it)
  <2> DEFINE it == [s \in SUBSET {1, 2} |-> IF s = {} THEN <<>> ELSE IF s = {1} THEN <<a>> ELSE
                       IF s = {2} THEN <<b>> ELSE <<a, b>>]
  <2>1. it = F(it)
    <3> HIDE DEF all
    <3>1. ASSUME NEW s \in SUBSET {1, 2}
          PROVE  it[s] = IF s = {} THEN <<>> ELSE
                        IF all[Max(s)] = Null THEN it[s \ {Max(s)}] ELSE Append(it[s \ {Max(s)}], all[Max(s)])
      <4>1. s \in {{}, {1}, {2}, {1, 2}}
        OBVIOUS
      <4>2. it[{}] = <<>> /\ it[{1}] = <<a>> /\ it[{2}] = <<b>> /\ it[{1, 2}] = <<a, b>>
        <5>1. /\ {1} # {} /\ {2} # {} /\ {2} # {1} /\ {1, 2} # {} /\ {1, 2} # {1} /\ {1, 2} # {2}
              /\ {} \in SUBSET {1, 2} /\ {1} \in SUBSET {1, 2} /\ {2} \in SUBSET {1, 2} /\ {1, 2} \in SUBSET {1, 2}
          <6>1. 1 \in {1, 2} /\ 2 \in {1, 2} /\ 2 \notin {1} /\ 1 \notin {2} /\ 1 \in {1} /\ 2 \in {2}
            OBVIOUS
          <6>2. QED
            BY <6>1
        <5>2. QED
          BY <5>1
      <4>3. Append(<<>>, a) = <<a>> /\ Append(<<>>, b) = <<b>> /\ Append(<<a>>, b) = <<a, b>>
        BY AppendOne
      <4>4. Max({2}) = 2 /\ {1} \ {1} = {} /\ {2} \ {2} = {}
        BY DEF Max
      <4> HIDE DEF it
      <4>5. CASE s = {1}
        BY <1>1, <4>2, <4>3, <4>4, <4>5, MaxOne
      <4>6. CASE s = {2}
        BY <1>1, <4>2, <4>3, <4>4, <4>6
      <4>7. CASE s = {1, 2}
        BY <1>1, <4>2, <4>3, <4>7, MaxTwo
      <4>8. QED
        BY <4>1, <4>2, <4>5, <4>6, <4>7
    <3>2. QED
      BY <3>1
  <2>2. QED
    BY <2>1
<1>4. (CHOOSE it : it = F(it)) = F(CHOOSE it : it = F(it))
  <2> HIDE DEF F
  <2>1. QED
    BY <1>3
<1>5. PICK it : it = F(it) /\ WithoutNulls(all) = it[{1, 2}]
  <2> HIDE DEF F
  <2>1. QED
    BY <1>2, <1>4
<1> HIDE DEF all
<1>6. it[{}] = <<>>
  BY <1>5
<1>7. it[{1}] = <<a>>
  <2>1. it[{1}] = IF all[Max({1})] = Null THEN it[{1} \ {Max({1})}] ELSE Append(it[{1} \ {Max({1})}], all[Max({1})])
    BY <1>5
  <2>2. {1} \ {1} = {} /\ Append(<<>>, a) = <<a>>
    OBVIOUS
  <2>3. QED
    BY <1>1, <1>6, <2>1, <2>2, MaxOne
<1>8. it[{1, 2}] = <<a, b>>
  <2>1. it[{1, 2}] = IF all[Max({1, 2})] = Null THEN it[{1, 2} \ {Max({1, 2})}]
                     ELSE Append(it[{1, 2} \ {Max({1, 2})}], all[Max({1, 2})])
    BY <1>5
  <2>2. Append(<<a>>, b) = <<a, b>>
    BY AppendOne
  <2>3. QED
    BY <1>1, <1>7, <2>1, <2>2, MaxTwo
<1>9. QED
  BY <1>5, <1>8 DEF all

(* The values of one parameter of a query.                                 *)
Searched(f, values) == Parameter(f, values, TRUE)

(* A parameter given once is its value, which may be null                  *)
(* (validate.py:254).                                                      *)
LEMMA SearchedOne ==
  ASSUME NEW f, NEW x, NEW a, Collects(f, x) = Ok(a)
  PROVE  Searched(f, <<x>>) = Ok(a)
<1> DEFINE values == <<x>>
           each == [i \in DOMAIN values |-> CollectValue(f, values[i], TRUE, FALSE)]
<1>1. DOMAIN values = {1} /\ values[1] = x /\ Len(values) = 1
  OBVIOUS
<1>2. each = [i \in {1} |-> Ok(a)]
  BY <1>1 DEF Collects
<1>3. each = [k \in DOMAIN each |-> Ok([i \in {1} |-> a][k])]
  BY <1>2
<1>4. InOrder(each) = Ok([k \in {1} |-> a])
  <2> HIDE DEF each
  <2>1. PICK g : g = [i \in {1} |-> a]
    OBVIOUS
  <2>2. each = [k \in DOMAIN each |-> Ok(g[k])]
    BY <1>3, <2>1
  <2>3. InOrder(each) = Ok([k \in DOMAIN each |-> g[k]])
    BY <2>2, AllOk
  <2>4. DOMAIN each = {1} /\ [k \in {1} |-> g[k]] = [k \in {1} |-> a]
    BY <1>2, <2>1
  <2>5. QED
    BY <2>3, <2>4
<1>5. Searched(f, values) = IF InOrder(each)[1] = "ok" THEN Ok(InOrder(each)[2][1]) ELSE InOrder(each)
  BY <1>1 DEF Searched, Parameter, IfOk
<1>6. [k \in {1} |-> a][1] = a
  OBVIOUS
<1> HIDE DEF each, values
<1>7. Searched(f, values) = Ok(a)
  BY <1>4, <1>5, <1>6, Outcomes
<1>8. QED
  BY <1>7 DEF values

(* A parameter given twice is the list of both (validate.py:244).          *)
LEMMA SearchedIs ==
  ASSUME NEW f, NEW x, NEW a, Collects(f, x) = Ok(a), a # Null, NEW y, NEW b, Collects(f, y) = Ok(b), b # Null
  PROVE  Searched(f, <<x>>) = Ok(a) /\ Searched(f, <<x, y>>) = Ok(<<"list", <<a, b>>>>)
<1>1. Searched(f, <<x>>) = Ok(a)
  BY SearchedOne
<1>2. Searched(f, <<x, y>>) = Ok(<<"list", <<a, b>>>>)
  <2> DEFINE values == <<x, y>>
             each == [i \in DOMAIN values |-> CollectValue(f, values[i], TRUE, FALSE)]
  <2>1. DOMAIN values = {1, 2} /\ values[1] = x /\ values[2] = y /\ Len(values) = 2
    OBVIOUS
  <2>2. DOMAIN each = {1, 2} /\ each[1] = Ok(a) /\ each[2] = Ok(b)
    BY <2>1 DEF Collects
  <2>3. InOrder(each) = Ok(<<a, b>>)
    <3>1. PICK g : g = <<a, b>>
      OBVIOUS
    <3>2. DOMAIN g = {1, 2} /\ g[1] = a /\ g[2] = b
      BY <3>1
    <3>3. each = [k \in DOMAIN each |-> each[k]]
      OBVIOUS
    <3> HIDE DEF each
    <3>4. each = [k \in DOMAIN each |-> Ok(g[k])]
      BY <2>2, <3>2, <3>3
    <3>5. InOrder(each) = Ok([k \in DOMAIN each |-> g[k]])
      BY <3>4, AllOk
    <3>6. [k \in {1, 2} |-> g[k]] = g
      BY <3>1
    <3>7. QED
      BY <2>2, <3>1, <3>5, <3>6
  <2>4. Searched(f, values) = IF InOrder(each)[1] = "ok"
          THEN Ok(IF WithoutNulls(InOrder(each)[2]) = <<>> THEN Null ELSE <<"list", WithoutNulls(InOrder(each)[2])>>)
          ELSE InOrder(each)
    BY <2>1 DEF Searched, Parameter, IfOk
  <2> HIDE DEF each, values
  <2>5. InOrder(each)[1] = "ok" /\ InOrder(each)[2] = <<a, b>>
    BY <2>3, Outcomes
  <2>6. WithoutNulls(<<a, b>>) = <<a, b>> /\ <<a, b>> # <<>>
    BY NoNulls
  <2>7. Searched(f, values) = Ok(<<"list", <<a, b>>>>)
    BY <2>4, <2>5, <2>6
  <2>8. QED
    BY <2>7 DEF values
<1>3. QED
  BY <1>1, <1>2

-----------------------------------------------------------------------------
(* What is collected for a field of a query, its default, and the          *)
(* validation of a query: without operators that are given a TRUE.         *)
SearchValues(f, sent) == FieldValues(f, sent, TRUE, TRUE)
SearchGiven(f, sent) == WithDefault(f, sent, TRUE)
SearchValued(c, x) == ValidateClass(c, x, TRUE, TRUE)

(* The same for a field without a default that is not required.            *)
SearchedFor(f, sent) ==
    LET ops == {i \in DOMAIN FieldOps(f) : FieldOps(f)[i] \in DOMAIN sent} IN
    IfOk(InOrder([i \in ops |-> Searched(f, sent[FieldOps(f)[i]])]),
         LAMBDA all : Ok([n \in {FieldOps(f)[i] : i \in ops} |->
                             all[CHOOSE i \in ops : FieldOps(f)[i] = n]]))

(* Such a field takes its parameters as they come.                         *)
LEMMA SearchValuesAs ==
  ASSUME NEW f, f.default = Null, f.required = "no", NEW sent
  PROVE  SearchValues(f, sent) = SearchedFor(f, sent)
<1>1. SearchGiven(f, sent) = sent
  BY Zenon DEF SearchGiven, WithDefault
<1>2. ~Required(f)
  BY DEF Required
<1>3. SearchValues(f, sent) = SearchedFor(f, SearchGiven(f, sent))
  BY <1>2, Zenon DEF SearchValues, FieldValues, SearchedFor, Searched, SearchGiven, IfOk
<1>4. QED
  BY <1>1, <1>3, Zenon

(* Of a query with one parameter a field takes that one, when it is the    *)
(* field's own or that of one of its operations (validate.py:238).         *)
LEMMA SearchValuesAre ==
  ASSUME NEW f, f.default = Null, f.required = "no", NEW key, NEW values, NEW p,
         key \in Range(FieldOps(f)) => Searched(f, values) = Ok(p),
         NEW sent, sent = [n \in {key} |-> values],
         NEW w, w = [n \in {key} \cap Range(FieldOps(f)) |-> p]
  PROVE  SearchValues(f, sent) = Ok(w)
<1> DEFINE names == FieldOps(f)
           ops == {i \in DOMAIN names : names[i] \in DOMAIN sent}
           each == [i \in ops |-> Searched(f, sent[names[i]])]
           of(all) == [n \in {names[i] : i \in ops} |-> all[CHOOSE i \in ops : names[i] = n]]
<1>1. SearchValues(f, sent) = SearchedFor(f, sent)
  BY SearchValuesAs
<1>2. SearchedFor(f, sent) = IF InOrder(each)[1] = "ok" THEN Ok(of(InOrder(each)[2])) ELSE InOrder(each)
  BY Zenon DEF SearchedFor, IfOk
<1>3. DOMAIN sent = {key} /\ sent[key] = values
  OBVIOUS
<1>4. \A i \in ops : names[i] = key /\ key \in Range(names)
  BY <1>3 DEF Range
<1>5. {names[i] : i \in ops} = {key} \cap Range(names)
  BY <1>3, <1>4 DEF Range
<1>6. PICK g : g = [i \in ops |-> p]
  OBVIOUS
<1>7. each = [i \in ops |-> Ok(g[i])]
  <2>1. ASSUME NEW i \in ops PROVE Searched(f, sent[names[i]]) = Ok(g[i])
    <3>1. names[i] = key /\ key \in Range(names)
      BY <1>4
    <3>2. g[i] = p
      <4> HIDE DEF ops
      <4>1. QED
        BY <1>6
    <3>3. QED
      BY <1>3, <3>1, <3>2
  <2> HIDE DEF ops, names
  <2>2. QED
    BY <2>1
<1>8. DOMAIN each = ops
  <2> HIDE DEF ops, names
  <2>1. QED
    OBVIOUS
<1>9. InOrder(each) = Ok([i \in ops |-> g[i]])
  <2> HIDE DEF each, ops, names
  <2>1. each = [i \in DOMAIN each |-> Ok(g[i])]
    BY <1>7, <1>8
  <2>2. InOrder(each) = Ok([i \in DOMAIN each |-> g[i]])
    BY <2>1, AllOk
  <2>3. QED
    BY <1>8, <2>2
<1>10. PICK all : all = InOrder(each)[2]
  OBVIOUS
<1>11. InOrder(each)[1] = "ok" /\ all = [i \in ops |-> g[i]]
  <2> HIDE DEF each, ops
  <2>1. QED
    BY <1>9, <1>10, Outcomes
<1>12. \A i \in ops : all[i] = p
  <2> HIDE DEF ops
  <2>1. QED
    BY <1>6, <1>11
<1>13. of(all) = w
  <2>0. w = [n \in {key} \cap Range(names) |-> p]
    OBVIOUS
  <2>1. ASSUME NEW n \in {names[i] : i \in ops} PROVE all[CHOOSE i \in ops : names[i] = n] = p
    <3>1. PICK j \in ops : names[j] = n
      <4> HIDE DEF ops, names
      <4>1. QED
        BY <2>1
    <3> HIDE DEF ops, names
    <3>2. (CHOOSE i \in ops : names[i] = n) \in ops
      BY <3>1
    <3>3. QED
      BY <1>12, <3>2
  <2> HIDE DEF ops, names
  <2>2. QED
    BY <1>5, <2>0, <2>1
<1>14. SearchedFor(f, sent) = Ok(of(all))
  <2> HIDE DEF each, of
  <2>1. QED
    BY <1>2, <1>10, <1>11
<1>15. QED
  <2> HIDE DEF of
  <2>1. QED
    BY <1>1, <1>13, <1>14

(* A query with one parameter of one field is what that field makes of it  *)
(* (validate.py:213).                                                      *)
LEMMA SearchValuedIs ==
  ASSUME NEW c, \A f \in Range(FieldsOf[c]) : f.default = Null /\ f.required = "no",
         \A f, g \in Range(FieldsOf[c]) : f.name = g.name => f = g,
         NEW key, NEW h \in Range(FieldsOf[c]), key \in Range(FieldOps(h)),
         \A f \in Range(FieldsOf[c]) : key \in Range(FieldOps(f)) => f = h,
         NEW values, NEW p, Searched(h, values) = Ok(p),
         NEW sent, sent = [n \in {key} |-> values], NEW v, v = SearchValued(c, <<"multi", sent>>)
  PROVE  v[1] = "ok" /\ v[2][2][key] = p
<1> DEFINE fields == Range(FieldsOf[c])
           names == {f.name : f \in fields}
           of(n) == CHOOSE f \in fields : f.name = n
           x == <<"multi", sent>>
           each == [n \in names |-> SearchValues(of(n), sent)]
           all == Collected(each)
           whole(a) == [n \in UNION {DOMAIN a[m] : m \in DOMAIN a} |->
                          a[CHOOSE m \in DOMAIN a : n \in DOMAIN a[m]][n]]
           found == [n \in names |-> [m \in {key} \cap Range(FieldOps(of(n))) |-> p]]
<1>1. v = IF all[1] = "ok" THEN Ok(<<"obj", whole(all[2])>>) ELSE all
  <2> DEFINE of_(e) == Collected([n \in names |-> SearchValues(of(n), e)])
  <2>1. PICK e : e = Entries(x)
    OBVIOUS
  <2>2. IsMapping(x) /\ e = sent
    BY <2>1 DEF IsMapping, Entries
  <2>3. v = IF of_(Entries(x))[1] = "ok" THEN Ok(<<"obj", whole(of_(Entries(x))[2])>>) ELSE of_(Entries(x))
    BY <2>2, Zenon DEF SearchValued, ValidateClass, IfOk, SearchValues
  <2>4. of_(e) = all
    BY <2>2
  <2> HIDE DEF of_, whole, all
  <2>5. of_(Entries(x)) = all
    BY <2>1, <2>4, Zenon
  <2>6. QED
    BY <2>3, <2>5, Zenon
<1>2. ASSUME NEW n \in names PROVE of(n) \in fields /\ of(n).name = n
  <2>1. \E f \in fields : f.name = n
    OBVIOUS
  <2>2. QED
    BY <2>1
<1>3. ASSUME NEW n \in names PROVE SearchValues(of(n), sent) = Ok(found[n])
  <2>1. PICK f : f = of(n)
    OBVIOUS
  <2>2. f \in fields
    BY <1>2, <2>1
  <2>3. SearchValues(f, sent) = Ok([m \in {key} \cap Range(FieldOps(f)) |-> p])
    <3>1. f.default = Null /\ f.required = "no" /\ (key \in Range(FieldOps(f)) => Searched(f, values) = Ok(p))
      BY <2>2
    <3>2. PICK w : w = [m \in {key} \cap Range(FieldOps(f)) |-> p]
      OBVIOUS
    <3> HIDE DEF fields
    <3>3. SearchValues(f, sent) = Ok(w)
      BY <3>1, <3>2, SearchValuesAre
    <3>4. QED
      BY <3>2, <3>3
  <2>4. found[n] = [m \in {key} \cap Range(FieldOps(of(n))) |-> p]
    <3> HIDE DEF of, names
    <3>1. QED
      OBVIOUS
  <2> HIDE DEF of, found
  <2>5. QED
    BY <2>1, <2>3, <2>4
<1>4. all = Ok([n \in names |-> found[n]])
  <2>1. each = [n \in names |-> Ok(found[n])] /\ DOMAIN each = names
    <3> HIDE DEF of, names, found
    <3>1. QED
      BY <1>3
  <2> HIDE DEF each, names, found
  <2>2. PICK g : g = found
    OBVIOUS
  <2>3. each = [n \in DOMAIN each |-> Ok(g[n])]
    BY <2>1, <2>2
  <2>4. Collected(each) = Ok([n \in DOMAIN each |-> g[n]])
    BY <2>3, AllOk
  <2>5. QED
    BY <2>1, <2>2, <2>4
<1>5. DOMAIN found = names
  <2> HIDE DEF of, names
  <2>1. QED
    OBVIOUS
<1>6. PICK a : a = found
  OBVIOUS
<1>7. [n \in names |-> found[n]] = a
  <2> HIDE DEF of, names
  <2>1. QED
    BY <1>6
<1>8. v = Ok(<<"obj", whole(a)>>)
  <2> HIDE DEF all, whole, found, names
  <2>1. all = Ok(a)
    BY <1>4, <1>7
  <2>2. QED
    BY <1>1, <2>1, Outcomes
<1>9. DOMAIN a = names /\ \A n \in names : a[n] = [m \in {key} \cap Range(FieldOps(of(n))) |-> p]
  <2>1. ASSUME NEW n \in names PROVE found[n] = [m \in {key} \cap Range(FieldOps(of(n))) |-> p]
    <3> HIDE DEF of, names
    <3>1. QED
      OBVIOUS
  <2> HIDE DEF of, names, found
  <2>2. QED
    BY <1>5, <1>6, <2>1
<1>10. h.name \in names /\ of(h.name) = h
  <2>1. h.name \in names
    OBVIOUS
  <2>2. of(h.name) \in fields /\ of(h.name).name = h.name
    BY <1>2, <2>1
  <2> HIDE DEF of
  <2>3. QED
    BY <2>1, <2>2
<1>11. \A n \in names : DOMAIN a[n] = {key} \cap Range(FieldOps(of(n)))
  <2> HIDE DEF of, names
  <2>1. QED
    BY <1>9
<1>12. DOMAIN a[h.name] = {key} /\ a[h.name][key] = p
  <2>1. a[h.name] = [m \in {key} \cap Range(FieldOps(h)) |-> p]
    <3> HIDE DEF of, names
    <3>1. QED
      BY <1>9, <1>10
  <2>2. QED
    BY <2>1
<1>13. ASSUME NEW n \in DOMAIN a, key \in DOMAIN a[n] PROVE n = h.name
  <2>1. n \in names /\ key \in Range(FieldOps(of(n)))
    <3> HIDE DEF of, names
    <3>1. QED
      BY <1>9, <1>11, <1>13
  <2>2. of(n) \in fields /\ of(n).name = n
    BY <1>2, <2>1
  <2>3. of(n) = h
    <3> HIDE DEF of
    <3>1. QED
      BY <2>1, <2>2
  <2> HIDE DEF of
  <2>4. QED
    BY <2>2, <2>3
<1> HIDE DEF found, names, of, each
<1>14. h.name \in DOMAIN a
  BY <1>9, <1>10
<1>15. (CHOOSE m \in DOMAIN a : key \in DOMAIN a[m]) = h.name
  BY <1>12, <1>13, <1>14
<1>16. key \in UNION {DOMAIN a[m] : m \in DOMAIN a}
  BY <1>12, <1>14
<1>17. whole(a)[key] = p
  BY <1>12, <1>15, <1>16
<1>18. QED
  <2> HIDE DEF whole
  <2>1. PICK w : w = whole(a)
    OBVIOUS
  <2>2. v = Ok(<<"obj", w>>) /\ w[key] = p
    BY <1>8, <1>17, <2>1
  <2>3. QED
    BY <2>2, Outcomes

-----------------------------------------------------------------------------
(* A validator looks only at the name and the type of its field.           *)
LEMMA CallSame ==
  ASSUME NEW f, NEW g, f.name = g.name, f.type = g.type, NEW v, NEW x
  PROVE  Call(v, f, x) = Call(v, g, x)
BY Zenon DEF Call, StrValidator, EmailValidator, UUIDValidator, EnumValidator, Choice, DateValidator,
       DateTimeValidator, NumberValidator, IntegerValidator, DecimalValidator, BoundedNumberValidator

(* Fields with the same validator, type and name collect the same.         *)
LEMMA CollectsSame ==
  ASSUME NEW f, NEW g, f.name = g.name, f.type = g.type, f.items = g.items,
         NEW v, f.validators = <<v>>, g.validators = <<v>>
  PROVE  \A x : Collects(f, x) = Collects(g, x)
<1>1. SUFFICES ASSUME NEW x PROVE Collects(f, x) = Collects(g, x)
  OBVIOUS
<1>2. Validated(f, x) = Call(v, f, x) /\ Validated(g, x) = Call(v, g, x)
  BY FoldOne
<1>3. Call(v, f, x) = Call(v, g, x)
  BY CallSame
<1>4. PICK called : called = Validated(g, x)
  OBVIOUS
<1>5. Validated(f, x) = called
  BY <1>2, <1>3, <1>4
<1>6. PICK then : then = IF IsNull(x) THEN Ok(Null) ELSE
                       IF called[1] = "ok" THEN Validate(g.type, called[2], TRUE, FALSE, g.items) ELSE called
  OBVIOUS
<1>7. Collects(f, x) = then
  BY <1>5, <1>6 DEF Collects, CollectValue, IfOk
<1>8. Collects(g, x) = then
  BY <1>4, <1>6 DEF Collects, CollectValue, IfOk
<1>9. QED
  BY <1>7, <1>8

(* The field of a column in a search, before it has operations.            *)
SearchField(col) == FieldOf(col, FALSE, FALSE)

(* Its operations make no difference to what it collects.                  *)
LEMMA SearchFieldIs ==
  ASSUME Unfolds, NEW col, col.kind \in Kinds, NEW ops, NEW f, f = [SearchField(col) EXCEPT !.ops = ops]
  PROVE  /\ f.name = col.name /\ f.default = Null /\ f.required = "no"
         /\ \E required, default : /\ SearchField(col) = FieldOf(col, required, default)
                                   /\ \A x : Collects(f, x) = Collects(SearchField(col), x)
<1>1. PICK g : g = SearchField(col)
  OBVIOUS
<1>2. PICK required, default : g = FieldOf(col, required, default) /\ ~required /\ ~default
  <2>1. g = FieldOf(col, FALSE, FALSE)
    BY <1>1, Zenon DEF SearchField
  <2>2. QED
    BY <2>1, Zenon
<1>3. /\ f.name = g.name /\ f.type = g.type /\ f.validators = g.validators /\ f.items = g.items
      /\ f.default = g.default /\ f.required = g.required
      /\ g.default = Null /\ g.required = "no"
  BY <1>1, <1>2 DEF FieldOf, RequiredOf, Converted, Kinds, StrField, NumberField, DecimalField, BoolField, DateTimeField, DateField,
       EnumField, UUIDField, JSONField, DataField, Plain
<1>4. /\ g.name = col.name /\ g.validators = <<ValidatorOf(col)>> /\ g.items = <<>>
  BY <1>2, FieldOfColumn, ConvertedHas
<1>5. \A x : Collects(f, x) = Collects(g, x)
  <2>1. PICK v : v = ValidatorOf(col)
    OBVIOUS
  <2>2. f.validators = <<v>> /\ g.validators = <<v>>
    BY <1>3, <1>4, <2>1
  <2>3. QED
    BY <1>3, <2>2, CollectsSame
<1>6. QED
  BY <1>1, <1>2, <1>3, <1>4, <1>5

(* The fields of the query class of a service with a table, and the names  *)
(* of their parameters.                                                    *)
LEMMA QueryIs ==
  ASSUME Unfolds, service \in DOMAIN Services, Table # <<>>
  PROVE  /\ \A f \in Range(FieldsOf[Query]) :
              /\ f.default = Null /\ f.required = "no"
              /\ \A key \in Range(FieldOps(f)) :
                   Split[key][1] = f.name /\ Split[key][2] \in {"eq", "ne", "gt", "ge", "lt", "le"}
              /\ \E k \in DOMAIN Table : \E required, default, g :
                   /\ Table[k].kind # "JSON" /\ f.name = Table[k].name
                   /\ g = FieldOf(Table[k], required, default) /\ \A x : Collects(f, x) = Collects(g, x)
         /\ \A f, g \in Range(FieldsOf[Query]) : f.name = g.name => f = g
<1>1. /\ IsTable(Table) /\ IsOfSearch(Query, Table)
      /\ \A f \in Range(FieldsOf[Query]) : \A key \in Range(FieldOps(f)) :
            Split[key][1] = f.name /\ Split[key][2] \in {"eq", "ne", "gt", "ge", "lt", "le"}
  BY ClientAssumption DEF Table, Query
<1>2. \A f \in Range(FieldsOf[Query]) : \E i \in DOMAIN FieldsOf[Query] : f = FieldsOf[Query][i]
  BY DEF Range
<1>3. \A f, g \in Range(FieldsOf[Query]) : f.name = g.name => f = g
  BY <1>1, <1>2 DEF IsOfSearch
<1>4. ASSUME NEW f \in Range(FieldsOf[Query])
      PROVE  /\ f.default = Null /\ f.required = "no"
             /\ \E k \in DOMAIN Table : \E required, default, g :
                   /\ Table[k].kind # "JSON" /\ f.name = Table[k].name
                   /\ g = FieldOf(Table[k], required, default) /\ \A x : Collects(f, x) = Collects(g, x)
  <2>1. PICK i \in DOMAIN FieldsOf[Query] : f = FieldsOf[Query][i]
    BY <1>2
  <2>2. PICK k \in DOMAIN Table :
          Table[k].kind # "JSON" /\ f = [SearchField(Table[k]) EXCEPT !.ops = f.ops]
    BY <1>1, <2>1, Zenon DEF IsOfSearch, SearchField
  <2>3. Table[k].kind \in Kinds
    BY <1>1, TableIs
  <2>4. /\ f.name = Table[k].name /\ f.default = Null /\ f.required = "no"
        /\ \E required, default : /\ SearchField(Table[k]) = FieldOf(Table[k], required, default)
                                  /\ \A x : Collects(f, x) = Collects(SearchField(Table[k]), x)
    BY <2>2, <2>3, SearchFieldIs
  <2>5. QED
    BY <2>2, <2>4
<1>5. QED
  BY <1>1, <1>3, <1>4

-----------------------------------------------------------------------------
(* A value of a column is equal to itself and not less than itself.        *)
LEMMA SameAsItself ==
  ASSUME NEW col, col.kind \in Kinds, col.kind # "JSON", NEW r, Holds(col, r), r # Null
  PROVE  Same(r, r) /\ ~Less(r, r)
<1>1. Same(r, r)
  BY DEF Same
<1>2. IsNumber(r) => r = NaN \/ Amount(r) \in Int
  <2>1. CASE col.kind = "Integer"
    BY <2>1 DEF Holds, Amount
  <2>2. CASE col.kind = "Numeric"
    BY <2>2 DEF Holds, Amount
  <2>3. CASE col.kind = "Boolean"
    <3>1. r = <<"bool", r[2]>> /\ r[2] \in BOOLEAN
      BY <2>3 DEF Holds
    <3>2. Amount(r) = IF r[2] THEN 2 ELSE 0
      BY <3>1 DEF Amount
    <3>3. QED
      BY <3>1, <3>2
  <2>4. CASE col.kind \in {"String", "DateTime", "Date", "Enum", "UUID"}
    <3>1. /\ col.kind \in {"String", "UUID"} => r = <<"str", r[2]>>
          /\ col.kind = "DateTime" => r = <<"datetime", r[2]>>
          /\ col.kind = "Date" => r = <<"date", r[2]>>
          /\ col.kind = "Enum" => r = <<"enum", r[2]>>
      BY DEF Holds
    <3>2. r[1] \in {"str", "datetime", "date", "enum"}
      <4>1. CASE col.kind \in {"String", "UUID"}
        BY <3>1, <4>1
      <4>2. CASE col.kind = "DateTime"
        BY <3>1, <4>2
      <4>3. CASE col.kind = "Date"
        BY <3>1, <4>3
      <4>4. CASE col.kind = "Enum"
        BY <3>1, <4>4
      <4>5. QED
        BY <2>4, <4>1, <4>2, <4>3, <4>4
    <3>3. QED
      BY <3>2 DEF IsNumber
  <2>5. QED
    BY <2>1, <2>2, <2>3, <2>4 DEF Kinds
<1>3. <<r[2], r[2]>> \notin Precedes
  <2>1. <<r[2], r[2]>>[1] = <<r[2], r[2]>>[2]
    OBVIOUS
  <2>2. QED
    BY <2>1, TextsAssumption
<1>4. ~Less(r, r)
  <2>1. CASE r = NaN
    BY <2>1, Zenon DEF Less
  <2>2. CASE r # NaN /\ IsNumber(r)
    <3>1. Amount(r) \in Int /\ ~(Amount(r) < Amount(r))
      BY <1>2, <2>2
    <3>2. QED
      BY <2>2, <3>1, Zenon DEF Less
  <2>3. CASE r # NaN /\ ~IsNumber(r)
    BY <1>3, <2>3, Zenon DEF Less
  <2>4. QED
    BY <2>1, <2>2, <2>3
<1>5. QED
  BY <1>1, <1>4

(* So a row is found by its own value with the operations that are equal   *)
(* to it (dbmodel.py:294).                                                 *)
LEMMA FilterOfOwn ==
  ASSUME NEW r, r # Null, Same(r, r), ~Less(r, r), NEW values, 1 \in DOMAIN values, values[1] = r,
         NEW op, op \in {"eq", "ne", "gt", "ge", "lt", "le"}
  PROVE  DefaultFilterField(op, r, values) <=> op \in {"eq", "ge", "le"}
<1>1. \E i \in DOMAIN values : Same(r, values[i])
  OBVIOUS
<1>2. ~Less(values[1], r) /\ ~Less(r, values[1]) /\ Same(r, values[1])
  OBVIOUS
<1>3. QED
  BY <1>1, <1>2 DEF DefaultFilterField, IsOneOf

(* And null finds it when it is not equal (dbmodel.py:336).                *)
LEMMA FilterOfNull ==
  ASSUME NEW r, r # Null, NEW op, op \in {"eq", "ne", "gt", "ge", "lt", "le"},
         NEW values, values = <<Null>>
  PROVE  DefaultFilterField(op, r, values) <=> op = "ne"
<1>1. DOMAIN values = {1} /\ values[1] = Null
  OBVIOUS
<1>2. \A a : ~Same(a, Null) /\ ~Same(Null, a) /\ ~Less(a, Null) /\ ~Less(Null, a)
  BY DEF Same, Less
<1>3. ~IsOneOf(r, values)
  BY <1>1, <1>2 DEF IsOneOf
<1>4. QED
  BY <1>1, <1>2, <1>3 DEF DefaultFilterField

-----------------------------------------------------------------------------
(* The text of a value that was shown is read by the query's field as the  *)
(* value of the row.                                                       *)
LEMMA ShownIsRead ==
  ASSUME Unfolds, service \in DOMAIN Services, Table # <<>>, NEW row, GoodRow(Table, row),
         NEW shown, shown = Shows(row), NEW f \in Range(FieldsOf[Query]), f.name \in DOMAIN shown,
         HasText(shown[f.name]), NEW t, t = TextOf(shown[f.name])
  PROVE  /\ Collects(f, <<"str", t>>) = Ok(row[f.name])
         /\ row[f.name] # Null /\ row[f.name][1] # "list"
         /\ Same(row[f.name], row[f.name]) /\ ~Less(row[f.name], row[f.name])
<1>1. PICK n : n = f.name
  OBVIOUS
<1>2. PICK r : r = row[n]
  OBVIOUS
<1>3. PICK d : d = shown[n]
  OBVIOUS
<1>4. PICK k \in DOMAIN Table : \E required, default, g :
        /\ Table[k].kind # "JSON" /\ f.name = Table[k].name
        /\ g = FieldOf(Table[k], required, default) /\ \A x : Collects(f, x) = Collects(g, x)
  BY QueryIs
<1>5. PICK required, default, g :
        g = FieldOf(Table[k], required, default) /\ \A x : Collects(f, x) = Collects(g, x)
  BY <1>4
<1>6. IsTable(Table)
  BY ServiceIs
<1>7. PICK col : col = Table[k]
  OBVIOUS
<1>8. r # Null /\ d = Dump(TypeOf(col), DumpBy(ValidatorOf(col), r))
  <2>1. n \in DOMAIN shown
    BY <1>1
  <2>2. PICK j \in DOMAIN Table :
           /\ n = Table[j].name /\ row[n] # Null
           /\ shown[n] = Dump(TypeOf(Table[j]), DumpBy(ValidatorOf(Table[j]), row[n]))
    BY <2>1, ResponseHas
  <2>3. j = k
    BY <1>1, <1>4, <1>6, <2>2, TableIs
  <2>4. QED
    BY <1>2, <1>3, <1>7, <2>2, <2>3
<1>9. col.kind \in Kinds /\ "NULL" \notin col.members /\ col.kind # "JSON" /\ col.name = n
  BY <1>1, <1>4, <1>6, <1>7, TableIs
<1>10. Holds(col, r)
  BY <1>1, <1>2, <1>4, <1>7 DEF GoodRow
<1>11. HasText(d) /\ t = TextOf(d) /\ g = FieldOf(col, required, default)
  BY <1>1, <1>3, <1>5, <1>7
<1>12. Collects(g, <<"str", t>>) = Ok(r) /\ r[1] # "list"
  BY <1>8, <1>9, <1>10, <1>11, TextIsRead
<1>13. Same(r, r) /\ ~Less(r, r)
  BY <1>8, <1>9, <1>10, SameAsItself
<1>14. QED
  BY <1>1, <1>2, <1>5, <1>8, <1>12, <1>13

(* The parameters of a query are texts.                                    *)
LEMMA AsTexts ==
  ASSUME NEW a, NEW b
  PROVE  LET texts(s) == [i \in DOMAIN s |-> <<"str", s[i]>>] IN
         texts(<<a>>) = <<<<"str", a>>>> /\ texts(<<a, b>>) = <<<<"str", a>>, <<"str", b>>>>
<1>1. [i \in DOMAIN <<a>> |-> <<"str", <<a>>[i]>>] = <<<<"str", a>>>>
  OBVIOUS
<1>2. [i \in DOMAIN <<a, b>> |-> <<"str", <<a, b>>[i]>>] = <<<<"str", a>>, <<"str", b>>>>
  OBVIOUS
<1>3. QED
  BY <1>1, <1>2

(* Of a value, or the first of a list of them.                             *)
FirstIs(p, r) ==
    /\ p[1] = "list" => 1 \in DOMAIN p[2] /\ p[2][1] = r
    /\ p[1] # "list" => p = r

(* What a client searches for comes to the values of the rows: the first   *)
(* row's first.                                                            *)
LEMMA SearchReads ==
  ASSUME Unfolds, service \in DOMAIN Services, Table # <<>>, \A i \in DOMAIN rows : GoodRow(Table, rows[i]),
         1 \in DOMAIN rows, response = Shows(rows[1]),
         NEW f \in Range(FieldsOf[Query]), f.name \in DOMAIN response, HasText(response[f.name]),
         NEW mine, mine = TextOf(response[f.name]), NEW other \in ShownTexts(f.name),
         NEW texts, texts = IF other = mine THEN <<mine>> ELSE <<mine, other>>,
         NEW values, values = [i \in DOMAIN texts |-> <<"str", texts[i]>>]
  PROVE  \E p : Searched(f, values) = Ok(p) /\ FirstIs(p, rows[1][f.name])
<1>1. PICK a : a = rows[1][f.name]
  OBVIOUS
<1>2. Collects(f, <<"str", mine>>) = Ok(a) /\ a # Null /\ a[1] # "list"
  BY <1>1, ShownIsRead
<1>3. PICK i \in DOMAIN rows : LET y == Shows(rows[i]) IN
        f.name \in DOMAIN y /\ HasText(y[f.name]) /\ other = TextOf(y[f.name])
  BY DEF ShownTexts
<1>4. PICK b : Collects(f, <<"str", other>>) = Ok(b) /\ b # Null
  <2>1. PICK y : y = Shows(rows[i])
    OBVIOUS
  <2>2. f.name \in DOMAIN y /\ HasText(y[f.name]) /\ other = TextOf(y[f.name]) /\ GoodRow(Table, rows[i])
    BY <1>3, <2>1
  <2>3. QED
    BY <2>1, <2>2, ShownIsRead
<1>5. PICK x, y : x = <<"str", mine>> /\ y = <<"str", other>>
  OBVIOUS
<1>6. Searched(f, <<x>>) = Ok(a) /\ Searched(f, <<x, y>>) = Ok(<<"list", <<a, b>>>>)
  BY <1>2, <1>4, <1>5, SearchedIs
<1>7. CASE other = mine
  <2>1. values = <<x>>
    BY <1>5, <1>7, AsTexts
  <2>2. QED
    BY <1>1, <1>2, <1>6, <2>1 DEF FirstIs
<1>8. CASE other # mine
  <2>1. values = <<x, y>>
    BY <1>5, <1>8, AsTexts
  <2>2. PICK p : p = <<"list", <<a, b>>>>
    OBVIOUS
  <2>3. p[1] = "list" /\ 1 \in DOMAIN p[2] /\ p[2][1] = a
    BY <2>2
  <2>4. Searched(f, values) = Ok(p)
    BY <1>6, <2>1, <2>2
  <2>5. QED
    BY <1>1, <2>3, <2>4 DEF FirstIs
<1>9. QED
  BY <1>7, <1>8

(* A search succeeds, and finds the row it was shown as it should.         *)
LEMMA SearchFinds ==
  ASSUME Unfolds, RowsAsStored, Search
  PROVE  /\ last'.does = "find" /\ last'.outcome = "done"
         /\ 1 \in last'.found <=> Split[last'.sent[1]][2] \in OpsThatFind(last'.sent[2])
<1>1. PICK key \in Keys : /\ Split[key][1] \in DOMAIN response /\ HasText(response[Split[key][1]])
                          /\ LET mine == TextOf(response[Split[key][1]]) IN
                             \/ Find(key, <<"NULL">>)
                             \/ \E other \in ShownTexts(Split[key][1]) :
                                Find(key, IF other = mine THEN <<mine>> ELSE <<mine, other>>)
  BY DEF Search
<1>2. PICK mine : mine = TextOf(response[Split[key][1]])
  OBVIOUS
<1>3. PICK null : null = <<"NULL">>
  OBVIOUS
<1>4. PICK texts : /\ Find(key, texts)
                   /\ texts # null => \E other \in ShownTexts(Split[key][1]) :
                                         texts = IF other = mine THEN <<mine>> ELSE <<mine, other>>
  BY <1>1, <1>2, <1>3
<1>5. Find(key, texts)
  BY <1>4
<1> DEFINE values == [i \in DOMAIN texts |-> <<"str", texts[i]>>]
           sent == [n \in {key} |-> values]
           v == SearchValued(Query, <<"multi", sent>>)
<1>6. rows # <<>> /\ Table # <<>> /\ Reply(key, texts, v)
  BY <1>5, Zenon DEF Find, SearchValued
<1>7. /\ service \in DOMAIN Services /\ 1 \in DOMAIN rows /\ response = Shows(rows[1])
      /\ \A i \in DOMAIN rows : GoodRow(Table, rows[i])
  BY <1>6 DEF RowsAsStored, Requested
<1>8. PICK f \in Range(FieldsOf[Query]) : key \in Range(FieldOps(f))
  BY <1>6 DEF Keys
<1>9. /\ Split[key][1] = f.name /\ Split[key][2] \in {"eq", "ne", "gt", "ge", "lt", "le"}
      /\ \A g \in Range(FieldsOf[Query]) : /\ g.default = Null /\ g.required = "no"
                                           /\ key \in Range(FieldOps(g)) => g = f
  <2>1. \A g \in Range(FieldsOf[Query]) : key \in Range(FieldOps(g)) =>
          Split[key][1] = g.name /\ Split[key][2] \in {"eq", "ne", "gt", "ge", "lt", "le"}
    BY <1>6, <1>7, QueryIs
  <2>2. \A g, h \in Range(FieldsOf[Query]) : g.name = h.name => g = h
    BY <1>6, <1>7, QueryIs
  <2>3. \A g \in Range(FieldsOf[Query]) : g.default = Null /\ g.required = "no"
    BY <1>6, <1>7, QueryIs
  <2>4. QED
    BY <1>8, <2>1, <2>2, <2>3
<1>10. PICK p : Searched(f, values) = Ok(p) /\ IF texts = null THEN p = Null ELSE FirstIs(p, rows[1][f.name])
  <2>1. f.name \in DOMAIN response /\ HasText(response[f.name]) /\ mine = TextOf(response[f.name])
    BY <1>1, <1>2, <1>9
  <2>2. PICK w : w = values
    OBVIOUS
  <2>3. w = [i \in DOMAIN texts |-> <<"str", texts[i]>>]
    BY <2>2
  <2> HIDE DEF values
  <2>4. CASE texts = null
    <3>1. PICK x : x = <<"str", "NULL">>
      OBVIOUS
    <3>2. w = <<x>>
      BY <1>3, <2>3, <2>4, <3>1
    <3>3. Collects(f, x) = Ok(Null)
      BY <3>1 DEF Collects, CollectValue, IsNull
    <3>4. QED
      BY <2>2, <2>4, <3>2, <3>3, SearchedOne
  <2>5. CASE texts # null
    <3>1. PICK other \in ShownTexts(f.name) : texts = IF other = mine THEN <<mine>> ELSE <<mine, other>>
      BY <1>4, <1>9, <2>5
    <3>2. \E p : Searched(f, w) = Ok(p) /\ FirstIs(p, rows[1][f.name])
      BY <1>6, <1>7, <2>1, <2>3, <3>1, SearchReads
    <3>3. QED
      BY <2>2, <2>5, <3>2
  <2>6. QED
    BY <2>4, <2>5
<1>11. v[1] = "ok" /\ v[2][2][key] = p
  <2> HIDE DEF values
  <2>1. PICK s : s = sent
    OBVIOUS
  <2>2. PICK u : u = SearchValued(Query, <<"multi", s>>)
    OBVIOUS
  <2>3. u[1] = "ok" /\ u[2][2][key] = p
    <3>1. \A g \in Range(FieldsOf[Query]) : g.default = Null /\ g.required = "no"
      BY <1>9
    <3>2. \A g, h \in Range(FieldsOf[Query]) : g.name = h.name => g = h
      BY <1>6, <1>7, QueryIs
    <3>3. \A g \in Range(FieldsOf[Query]) : key \in Range(FieldOps(g)) => g = f
      BY <1>9
    <3>4. Searched(f, values) = Ok(p) /\ key \in Range(FieldOps(f))
      BY <1>8, <1>10
    <3>5. PICK w : w = values
      OBVIOUS
    <3>6. s = [n \in {key} |-> w] /\ Searched(f, w) = Ok(p)
      BY <2>1, <3>4, <3>5
    <3>7. QED
      BY <2>2, <3>1, <3>2, <3>3, <3>4, <3>6, SearchValuedIs
  <2>4. QED
    BY <2>1, <2>2, <2>3
<1> HIDE DEF v
<1>12. PICK r : r = rows[1][f.name]
  OBVIOUS
<1>13. r # Null /\ r[1] # "list" /\ Same(r, r) /\ ~Less(r, r)
  <2>1. f.name \in DOMAIN response /\ HasText(response[f.name]) /\ GoodRow(Table, rows[1])
    BY <1>1, <1>7, <1>9
  <2>2. QED
    BY <1>6, <1>7, <1>12, <2>1, ShownIsRead
<1>14. PICK op : op = Split[key][2]
  OBVIOUS
<1>15. 1 \in FoundBy(key, p) <=> op \in OpsThatFind(texts)
  <2>1. PICK found : found = IF p[1] = "list" THEN p[2] ELSE <<p>>
    OBVIOUS
  <2>2. 1 \in FoundBy(key, p) <=> DefaultFilterField(op, r, found)
    BY <1>7, <1>9, <1>12, <1>14, <2>1 DEF FoundBy
  <2>3. CASE texts = null
    <3>1. found = <<Null>>
      BY <1>10, <2>1, <2>3 DEF Null
    <3>2. DefaultFilterField(op, r, found) <=> op = "ne"
      BY <1>9, <1>13, <1>14, <3>1, FilterOfNull
    <3>3. QED
      BY <1>3, <2>2, <2>3, <3>2 DEF OpsThatFind
  <2>4. CASE texts # null
    <3>1. 1 \in DOMAIN found /\ found[1] = r
      <4>1. CASE p[1] = "list"
        BY <1>10, <1>12, <2>1, <2>4, <4>1 DEF FirstIs
      <4>2. CASE p[1] # "list"
        <5>1. found = <<r>>
          BY <1>10, <1>12, <2>1, <2>4, <4>2 DEF FirstIs
        <5>2. QED
          BY <5>1
      <4>3. QED
        BY <4>1, <4>2
    <3>2. DefaultFilterField(op, r, found) <=> op \in {"eq", "ge", "le"}
      BY <1>9, <1>13, <1>14, <3>1, FilterOfOwn
    <3>3. QED
      BY <1>3, <2>2, <2>4, <3>2 DEF OpsThatFind
  <2>5. QED
    BY <2>3, <2>4
<1>16. /\ last'.does = "find" /\ last'.sent[1] = key /\ last'.sent[2] = texts /\ last'.outcome = Outcome(v, FALSE)
       /\ last'.found = IF v[1] = "ok" THEN FoundBy(key, v[2][2][key]) ELSE {}
  BY <1>6 DEF Reply
<1>17. last'.outcome = "done"
  <2>1. Outcome(v, FALSE) = "done"
    BY <1>11 DEF Outcome
  <2>2. QED
    BY <1>16, <2>1, Zenon
<1>18. last'.found = FoundBy(key, p)
  BY <1>11, <1>16
<1>19. QED
  BY <1>14, <1>15, <1>16, <1>17, <1>18

(* A step that answers a search is one.                                    *)
LEMMA OnlySearches ==
  ASSUME Requested, [ClientNext]_vars, last'.does = "find"
  PROVE  Search \/ last' = last
<1>1. CASE BuildDocument
  BY <1>1 DEF BuildDocument, clientVars
<1>2. CASE Create
  BY <1>2, CreateSteps, Creates
<1>3. CASE Update
  <2>1. PICK x : UpdateOneRow(x)
    BY <1>3 DEF Update
  <2>2. last'.does = "update"
    BY <2>1, Updates
  <2>3. QED
    BY <2>2
<1>4. CASE UNCHANGED vars
  BY <1>4 DEF vars, clientVars
<1>5. QED
  BY <1>1, <1>2, <1>3, <1>4 DEF ClientNext

(* What was shown can be found again: a row is among those that are equal  *)
(* to a value it was shown with, and among those not less and not greater, *)
(* and not among the others; of null it is only not equal (dbmodel.py:294):*)
(* of every table, class and value that has a text.                        *)
THEOREM WhatIsShownIsFound == ASSUME Unfolds PROVE ClientSpec => []SearchFindsWhatIsShown
<1>1. ClientInit => RowsAsStored /\ SearchFindsWhatIsShown
  <2>1. ClientInit => last.does # "find"
    BY DEF ClientInit
  <2>2. QED
    BY <2>1, StoredAtFirst DEF SearchFindsWhatIsShown
<1>2. ASSUME RowsAsStored, SearchFindsWhatIsShown, [ClientNext]_vars
      PROVE  RowsAsStored' /\ SearchFindsWhatIsShown'
  <2>1. RowsAsStored'
    BY <1>2, StoredKept
  <2>2. CASE last'.does # "find"
    BY <2>1, <2>2 DEF SearchFindsWhatIsShown
  <2>3. CASE last'.does = "find" /\ last' = last
    BY <1>2, <2>1, <2>3 DEF SearchFindsWhatIsShown
  <2>4. CASE last'.does = "find" /\ Search
    <3>1. /\ last'.outcome = "done"
          /\ 1 \in last'.found <=> Split[last'.sent[1]][2] \in OpsThatFind(last'.sent[2])
      BY <1>2, <2>4, SearchFinds
    <3>2. QED
      BY <2>1, <3>1 DEF SearchFindsWhatIsShown
  <2>5. QED
    BY <1>2, <2>1, <2>2, <2>3, <2>4, OnlySearches DEF RowsAsStored
<1>3. QED
  BY <1>1, <1>2, PTL DEF ClientSpec

-----------------------------------------------------------------------------
(* What a client does leaves the document alone. *)
LEMMA StepsOfClient == ASSUME [ClientNext]_vars PROVE [Build]_docVars
<1>1. CASE BuildDocument
  BY <1>1 DEF BuildDocument
<1>2. CASE Create
  BY <1>2, CreateSteps, Creates
<1>3. CASE Update
  <2>1. PICK x : UpdateOneRow(x)
    BY <1>3 DEF Update
  <2>2. UNCHANGED docVars
    BY <2>1, Updates
  <2>3. QED
    BY <2>2
<1>4. CASE Search
  BY <1>4, Searches
<1>5. CASE UNCHANGED vars
  BY <1>5 DEF vars
<1>6. QED
  BY <1>1, <1>2, <1>3, <1>4, <1>5 DEF ClientNext

(* A service that clients use still builds its document as SpecDoc says,   *)
(* once: what is proved of the document, DocTypeCorrect and                *)
(* EveryReferenceResolves, holds while they do.                            *)
THEOREM ClientReadsOneDocument == ClientSpec => DocSpec
<1>1. ClientInit => Init
  BY DEF ClientInit
<1>2. [ClientNext]_vars => [Build]_docVars
  BY StepsOfClient
<1>3. QED
  BY <1>1, <1>2, PTL DEF ClientSpec, DocSpec
=============================================================================
