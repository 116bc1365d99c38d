---------------------------- MODULE MCContract -----------------------------
(***************************************************************************)
(* A service for each kind of column, beside a column that has a default;  *)
(* services without a table, with nested classes; and documents that are   *)
(* refused, or in which two classes have one name.                         *)
(***************************************************************************)
EXTENDS Contract

Str(t) == <<"str", t>>
Whole(n) == <<"int", 2 * n>>
Half(n) == <<"dec", n>>
Large == Whole(16)
True == <<"bool", TRUE>>
Obj(k, x) == <<"obj", [n \in {k} |-> x]>>
Empty == <<"obj", [n \in {} |-> Null]>>
List(s) == <<"list", s>>

(* n1 is a noon, z1 the same one with a zone and u1 that in UTC; d1 is a   *)
(* day, and dz its beginning in UTC.  nul has the character NUL, and 9..9  *)
(* is 32 digits: a number, which stands for those that do not fit into 32  *)
(* bits, a UUID, and no date.                                              *)
Unreadable(n) ==
    [length |-> n, number |-> Unread, moment |-> Unread, json |-> Unread, uuid |-> Unread,
     email |-> FALSE, yes |-> FALSE]
TheReads ==
    ("" :> Unreadable(0)) @@ ("a" :> Unreadable(1)) @@ ("ab" :> Unreadable(2)) @@ ("abc" :> Unreadable(3))
    @@ ("1" :> [Unreadable(1) EXCEPT !.number = Whole(1), !.json = Whole(1), !.yes = TRUE])
    @@ ("2" :> [Unreadable(1) EXCEPT !.number = Whole(2), !.json = Whole(2)])
    @@ ("1.5" :> [Unreadable(3) EXCEPT !.number = Half(3), !.json = Half(3)])
    @@ ("nan" :> [Unreadable(3) EXCEPT !.number = NaN])
    @@ ("9..9" :> [Unreadable(32) EXCEPT !.number = Large, !.json = Large, !.moment = TooLarge,
                                        !.uuid = Str("9..9")])
    @@ ("nul" :> Unreadable(2))
    @@ ("True" :> [Unreadable(4) EXCEPT !.yes = TRUE]) @@ ("False" :> Unreadable(5))
    @@ ("true" :> [Unreadable(4) EXCEPT !.yes = TRUE, !.json = True])
    @@ ("{}" :> [Unreadable(2) EXCEPT !.json = Empty])
    @@ [t \in {"todo", "issue"} |-> Unreadable(5)]
    @@ [t \in {"id", "hex"} |-> [Unreadable(32) EXCEPT !.uuid = Str("hex")]]
    @@ [t \in {"n1", "z1", "u1", "d1", "dz"} |-> [Unreadable(20) EXCEPT !.moment = <<"datetime", t>>]]
MCInt32 == -20..20
MCWithNul == {"nul"}
MCZoned == {"z1", "u1", "dz"}
MCMidnight == {"d1", "dz"}
TheAsUtc == [t \in {"z1", "u1"} |-> "u1"] @@ [t \in {"d1", "dz"} |-> "dz"]
TheDayOf == [t \in {"n1", "z1", "u1", "d1", "dz"} |-> "d1"]

TheTexts ==
    (NaN :> "nan") @@ (True :> "True") @@ (<<"bool", FALSE>> :> "False") @@ (Large :> "9..9")
    @@ [x \in {Whole(1), Half(2)} |-> "1"] @@ [x \in {Whole(2), Half(4)} |-> "2"]
ThePrecedes ==
    {<<"a", "ab">>, <<"todo", "issue">>, <<"dz", "u1">>, <<"d1", "n1">>}

Ops == <<"ne", "gt", "ge", "lt", "le">>
WithOps(n) == [i \in DOMAIN Ops |-> CASE n = "x" -> <<"x:ne", "x:gt", "x:ge", "x:lt", "x:le">>[i]
                                      [] n = "p" -> <<"p:ne", "p:gt", "p:ge", "p:lt", "p:le">>[i]]
TheSplit ==
    ("x" :> <<"x", "eq">>) @@ ("p" :> <<"p", "eq">>)
    @@ [k \in Range(WithOps("x")) |-> <<"x", CHOOSE o \in Range(Ops) : \E i \in 1..5 : Ops[i] = o /\ WithOps("x")[i] = k>>]
    @@ [k \in Range(WithOps("p")) |-> <<"p", CHOOSE o \in Range(Ops) : \E i \in 1..5 : Ops[i] = o /\ WithOps("p")[i] = k>>]

-----------------------------------------------------------------------------
(* The columns, each with what is sent for it, and the column beside them. *)
X(kind) == NotNull(Column("x", kind))
Catalogue == [
    string |-> [X("String") EXCEPT !.length = 2, !.min = {1}],
    integer |-> X("Integer"),
    defaulted |-> [X("Integer") EXCEPT !.default = Whole(2)],
    nullable |-> [Column("x", "Integer") EXCEPT !.default = Whole(2)],
    numeric |-> [X("Numeric") EXCEPT !.round = TRUE, !.limit = {8}],
    enum |-> [X("Enum") EXCEPT !.members = {"todo", "issue"}, !.default = <<"enum", "issue">>],
    boolean |-> [X("Boolean") EXCEPT !.default = True],
    zoned |-> [X("DateTime") EXCEPT !.timezone = TRUE],
    moment |-> X("DateTime"),
    date |-> Column("x", "Date"),
    uuid |-> X("UUID"),
    json |-> X("JSON")]
Sent == [
    string |-> {Str(""), Str("a"), Str("ab"), Str("abc"), Str("nul"), Str("NULL"), Null, Whole(1)},
    integer |-> {Whole(1), Large, Half(3), Str("2"), Str("nan"), True, Null},
    defaulted |-> {Whole(1), Null},
    nullable |-> {Whole(1), Str("1.5"), Null},
    numeric |-> {Whole(1), Whole(5), Half(3), Half(5), Str("1.5"), Str("nan"), True},
    enum |-> {Str("todo"), Str("a"), Whole(1), Null},
    boolean |-> {True, <<"bool", FALSE>>, Str("true"), Str("a"), Null},
    zoned |-> {Str("z1"), Str("d1"), Str("n1"), Str("9..9"), Str("a"), Whole(1)},
    moment |-> {Str("z1"), Str("n1"), Str("d1")},
    date |-> {Str("d1"), Str("z1"), Str("9..9"), Str("a"), Null},
    uuid |-> {Str("id"), Str("hex"), Str("a"), Whole(1), Large},
    json |-> {Empty, Obj("k", Str("a")), Obj("k", List(<<Half(3)>>)), Obj("k", Str("NULL")), Str("{}"), Str("a"),
              Null}]
Beside == [Column("p", "String") EXCEPT !.default = Str("a")]

BodiesOf(kind) ==
    {<<"obj", [n \in {"x"} |-> x]>> : x \in Sent[kind]}
    \cup {<<"obj", [n \in {"p"} |-> p]>> : p \in {Str("ab"), Null}}
    \cup {<<"obj", ("x" :> x) @@ ("p" :> p)>> : x \in Sent[kind], p \in {Str("ab"), Null}}

Searchable(cols) ==
    [i \in DOMAIN cols |-> [cols[i] EXCEPT !.ops = WithOps(cols[i].name)]]
Columns(kind) == <<Catalogue[kind], Beside>>

(* A class is a triple: the service, whether it has the defaults of its    *)
(* table, and what the class is called.                                    *)
TableKeys == (DOMAIN Catalogue) \X {"defaults", "none"}
Of(key, name) == <<key[1], key[2], name>>
None == <<"", "none">>
Role_ == <<"role", "none">>
Nested_ == <<"nested", "none">>
Multi_ == <<"multi", "none">>

Permission == <<
    DataField("paths", <<"list", Prim("str")>>, <<>>),
    [DataField("methods", <<"list", Prim("str")>>, <<>>) EXCEPT
        !.items = <<DataField("", Prim("str"), <<[Validator("choice") EXCEPT !.choices = {"a"}]>>)>>],
    JSONField("body", <<"dict", Prim("str")>>),
    [StrField("action", {}, {}) EXCEPT !.default = Str("ab")]>>
Role == <<
    [StrField("name", {}, {}) EXCEPT !.required = "yes"],
    [DataField("permissions", <<"list", <<"class", Of(Role_, "Permission")>>>>, <<>>) EXCEPT
        !.required = "yes"]>>
Multi == <<
    [JSONField("x", <<"union", <<Prim("int"), Prim("str"), Prim("datetime")>>>>) EXCEPT !.required = "yes"],
    DataField("p", <<"union", <<Prim("str"), Prim("none")>>>>, <<>>)>>
Undescribed == <<[BoolField("x") EXCEPT !.described = FALSE]>>
Nested == <<DataField("x", <<"class", Of(Nested_, "Undescribed")>>, <<>>)>>
Ids == <<[UUIDField("id") EXCEPT !.required = "yes"]>>
ErrorFields ==
    (Of(None, "FieldError") :> <<[Plain("field", Prim("str")) EXCEPT !.required = "yes"],
                               [StrField("message", {}, {}) EXCEPT !.required = "yes"]>>)
    @@ (Of(None, "ErrorMessage") :> <<[StrField("message", {}, {}) EXCEPT !.required = "yes"]>>)
    @@ (Of(None, "ValidationErrors") :> <<StrField("message", {}, {}),
            DataField("errors", <<"list", <<"class", Of(None, "FieldError")>>>>, <<>>)>>)
TheErrorClasses == DOMAIN ErrorFields
TheErrorSchema == (404 :> Of(None, "ErrorMessage")) @@ (422 :> Of(None, "ValidationErrors"))

TheFieldsOf ==
    [c \in {Of(k, "body") : k \in TableKeys} |-> DataclassFromTable(Columns(c[1]), TRUE, c[2] = "defaults")]
    @@ [c \in {Of(k, "response") : k \in TableKeys} |-> DataclassFromTable(Columns(c[1]), TRUE, FALSE)]
    @@ [c \in {Of(k, "query") : k \in TableKeys} |->
            DataclassFromTable(SelectSeq(Searchable(Columns(c[1])), LAMBDA col : col.kind # "JSON"), FALSE, FALSE)]
    @@ (Of(None, "Ids") :> Ids) @@ (Of(Role_, "Role") :> Role) @@ (Of(Role_, "Permission") :> Permission)
    @@ (Of(Multi_, "Multi") :> Multi)
    @@ (Of(Nested_, "Nested") :> Nested) @@ (Of(Nested_, "Undescribed") :> Undescribed)
    @@ (Of(<<"other", "none">>, "Role") :> Ids)
    @@ ErrorFields
TheClasses == DOMAIN TheFieldsOf
(* Two classes are both called Role. *)
TheNameOf == [c \in TheClasses |-> IF c[1] \in {"role", "other"} THEN <<c[3]>> ELSE c]
TheNames == Range(TheNameOf)

RECURSIVE Parts(_)
Parts(T) ==
    {T} \cup CASE T[1] \in {"list", "dict"} -> Parts(T[2])
               [] T[1] = "union" -> UNION {Parts(T[2][i]) : i \in DOMAIN T[2]}
               [] OTHER -> {}
TheTypes ==
    UNION {Parts(f.type) : f \in UNION {Range(TheFieldsOf[c]) : c \in TheClasses}}
    \cup UNION {{<<"class", c>>, <<"list", <<"class", c>>>>} : c \in TheClasses}

-----------------------------------------------------------------------------
Method(answer, body, errors, query) ==
    [private |-> FALSE, described |-> TRUE, response |-> answer, body |-> body,
     errors |-> errors, query |-> query]
Path(schema, methods) == [schema |-> schema, private |-> FALSE, described |-> TRUE, methods |-> methods]
Class(c) == <<"class", c>>
Service(paths, body, answer, bodies) ==
    [paths |-> paths, validateDocs |-> TRUE, table |-> <<>>, defaults |-> FALSE,
     body |-> body, query |-> body, response |-> answer, bodies |-> bodies]
Posts(body, answer) ==
    Path({}, {Method({Class(answer)}, {Class(body)}, {422}, {})})

TableService(key) ==
    LET class(n) == Of(key, n) IN
    [Service(
        <<Path({}, {Method({<<"list", Class(class("response"))>>}, {}, {422}, {class("query")}),
                    Method({Class(class("response"))}, {Class(class("body"))}, {422}, {})}),
          Path({Of(None, "Ids")}, {Method({Class(class("response"))}, {Class(class("body"))}, {404, 422}, {}),
                                 Method({}, {}, {404}, {})})>>,
        class("body"), class("response"), BodiesOf(key[1])) EXCEPT
        !.table = Columns(key[1]), !.defaults = (key[2] = "defaults"), !.query = class("query")]

Permissions ==
    {Empty, Whole(1), Obj("paths", List(<<Str("abc")>>)), Obj("paths", List(<<Str("a"), Whole(1)>>)),
     Obj("methods", List(<<Str("a")>>)), Obj("methods", List(<<Str("a"), Str("abc")>>)),
     Obj("paths", List(<<Null>>)), Obj("body", Obj("k", Str("a"))), Obj("body", Str("{}")),
     Obj("body", Obj("k", Whole(1))), Obj("action", Null),
     List(<<List(<<Str("action"), Str("a")>>)>>), List(<<Str("a")>>)}
Roles ==
    {<<"obj", ("name" :> n) @@ ("permissions" :> List(l))>> :
        n \in {Str("a"), Whole(1)}, l \in {<<>>} \cup {<<p>> : p \in Permissions} \cup (Permissions \X Permissions)}
    \cup {Obj("name", Str("a")), Obj("permissions", List(<<>>)), Empty}
Multis ==
    {<<"obj", ("x" :> x) @@ ("p" :> p)>> :
        x \in {Whole(1), Str("a"), Str("1"), Half(3), Empty}, p \in {Str("a"), Null, Whole(1)}}

Documents ==
    LET none == Of(None, "Ids")
        nested == Of(Nested_, "Nested")
        undescribed == Of(Nested_, "Undescribed")
        sends(body) == Service(<<Posts(body, none)>>, body, none, {}) IN
    [role |-> Service(<<Posts(Of(Role_, "Role"), Of(Role_, "Role"))>>, Of(Role_, "Role"), Of(Role_, "Role"), Roles),
     multi |-> Service(<<Posts(Of(Multi_, "Multi"), Of(Multi_, "Multi"))>>, Of(Multi_, "Multi"), Of(Multi_, "Multi"), Multis),
     (* Refused for a field without description, found in the second round. *)
     nested |-> sends(nested),
     lenient |-> [sends(nested) EXCEPT !.validateDocs = FALSE],
     (* Refused for a path without tags, for a parameter without description. *)
     tagless |-> [sends(none) EXCEPT !.paths = <<[Posts(none, none) EXCEPT !.described = FALSE]>>],
     parameter |-> [sends(none) EXCEPT !.paths = <<Path({}, {Method({}, {}, {}, {undescribed})})>>],
     (* A private path, and two classes with one name. *)
     clash |-> [sends(none) EXCEPT !.paths =
                    <<[Posts(undescribed, none) EXCEPT !.private = TRUE],
                      Posts(Of(Role_, "Role"), none), Posts(Of(<<"other", "none">>, "Role"), none)>>]]
TheServices ==
    [k \in TableKeys \cup {<<d, "document">> : d \in DOMAIN Documents} |->
        IF k[2] = "document" THEN Documents[k[1]] ELSE TableService(k)]

-----------------------------------------------------------------------------
(* TLC works out TheReads once, and what a constant is replaced with at    *)
(* every use.                                                              *)
MCReads == TheReads
MCAsUtc == TheAsUtc
MCDayOf == TheDayOf
MCTexts == TheTexts
MCSplit == TheSplit
MCErrorClasses == TheErrorClasses
MCErrorSchema == TheErrorSchema
MCFieldsOf == TheFieldsOf
MCClasses == TheClasses
MCNameOf == TheNameOf
MCNames == TheNames
MCTypes == TheTypes
MCServices == TheServices
MCPrecedes == ThePrecedes
=============================================================================
