------------------------------- MODULE Client -------------------------------
(***************************************************************************)
(* A client of a service: the document of the service is built (SpecDoc),  *)
(* rows are created with create_one or create_list of openapi/db/path.py,  *)
(* and then one is updated or looked for.  What SQL makes of a comparison  *)
(* is external.                                                            *)
(***************************************************************************)
EXTENDS SpecDoc, TableSchema, Validate

CONSTANTS
    Precedes,   \* the order of texts, members and moments: pairs
    Split       \* for each name of a parameter, the field and the operation

(* A class with fields of some columns of a table, each once.              *)
IsOfTable(class, table, defaults) ==
    LET fields == FieldsOf[class] IN
    /\ \A i \in DOMAIN fields : \E k \in DOMAIN table, required, default \in BOOLEAN :
        fields[i] = FieldOf(table[k], required, default) /\ (defaults => default)
    /\ \A i, j \in DOMAIN fields : fields[i].name = fields[j].name => i = j

(* A class of a search: fields of some columns, none of them required or   *)
(* with a default, each with its operations.                               *)
IsOfSearch(class, table) ==
    LET fields == FieldsOf[class] IN
    /\ \A i \in DOMAIN fields : \E k \in DOMAIN table :
        /\ table[k].kind # "JSON" /\ fields[i].ops \in Seq(Range(fields[i].ops))
        /\ fields[i] = [FieldOf(table[k], FALSE, FALSE) EXCEPT !.ops = fields[i].ops]
    /\ \A i, j \in DOMAIN fields : fields[i].name = fields[j].name => i = j

(* A value of a JSON document. *)
IsJson(x) ==
    /\ IsText(x) => x = <<"str", x[2]>> /\ (IsNull(x) \/ x[2] \in DOMAIN Reads)
    /\ IsAmount(x) /\ x[1] \notin {"date", "datetime"}

ASSUME ClientAssumption ==
    \A s \in DOMAIN Services : Services[s].table # <<>> =>
        /\ IsTable(Services[s].table)
        /\ IsOfTable(Services[s].body, Services[s].table, Services[s].defaults)
        /\ IsOfTable(Services[s].response, Services[s].table, FALSE)
        /\ IsOfSearch(Services[s].query, Services[s].table)
        /\ \A f \in Range(FieldsOf[Services[s].query]) : \A key \in Range(FieldOps(f)) :
            Split[key][1] = f.name /\ Split[key][2] \in {"eq", "ne", "gt", "ge", "lt", "le"}
        /\ \A x \in Services[s].bodies : x[1] = "obj" /\ \A n \in DOMAIN x[2] : IsJson(x[2][n])

(* The text of a value reads as that value, and nothing precedes itself.     *)
ASSUME TextsAssumption ==
    /\ \A x \in DOMAIN Texts :
        /\ Texts[x] \in DOMAIN Reads \ {"NULL"}
        /\ LET read == Reads[Texts[x]] IN
            /\ x[1] \in {"int", "nan"} => read.number = x
            /\ x[1] = "dec" => read.number[1] \in {"int", "float", "dec"} /\ read.number[2] = x[2]
            /\ x[1] = "bool" => read.yes = x[2]
    /\ \A t \in Precedes : t[1] # t[2]

VARIABLES
    rows,       \* the rows the client has created, in one request
    response,   \* what was sent back of the first of them
    last        \* the last request: its kind, what was sent, what came of it

clientVars == <<rows, response, last>>
vars == <<docVars, clientVars>>

(* Of the service: the table, or <<>>; the classes of its bodies, its      *)
(* responses and its queries; whether the body class has the defaults of   *)
(* the table; and what is sent.                                            *)
Table == Services[service].table
Body == Services[service].body
Response == Services[service].response
Query == Services[service].query
HasDefaults == Services[service].defaults
Bodies == Services[service].bodies

-----------------------------------------------------------------------------
ClientInit ==
    /\ Init
    /\ rows = <<>> /\ response = Nothing
    /\ last = [does |-> "nothing", sent |-> <<>>, outcome |-> "none"]

(* What is written for validated data, and then read: of a table, or what  *)
(* an endpoint without one sends back.                                     *)
Written(records) == IF Table = <<>> THEN records ELSE InsertMany(Table, records)
Kept(row) == IF Table = <<>> THEN row ELSE Stored(Table, row)

(* A ValidationErrors is answered 422, an IntegrityError and what else is  *)
(* raised 500.                                                             *)
Outcome(validated, refused) ==
    CASE validated[1] = "crash" -> "failed"
      [] validated[1] \in {"invalid", "wrong"} -> "refused"
      [] OTHER -> IF refused THEN "failed" ELSE "done"

Answer(kind, sent, outcome) == last' = [does |-> kind, sent |-> sent, outcome |-> outcome]

Shows(row) == DumpClass(Response, <<"obj", row>>)[2]

Checked(x, strict) == ValidateClass(Body, x, strict, FALSE)

(* What is validated, when it is, is written in one statement, and the     *)
(* first of the rows is dumped.                                            *)
Write(kind, sent, v, written) ==
    LET outcome == Outcome(v, \E i \in DOMAIN written : Violates(Table, written[i])) IN
    /\ Answer(kind, sent, outcome)
    /\ IF outcome = "done"
       THEN rows' = [i \in DOMAIN written |-> Kept(written[i])] /\ response' = Shows(rows'[1])
       ELSE UNCHANGED <<rows, response>>
    /\ UNCHANGED docVars

(* create_one and create_list: each body is validated, and one INSERT      *)
(* writes them.                                                            *)
Insert(sent, v) == Write("create", sent, v, Written([i \in DOMAIN v[2] |-> v[2][i][2]]))

CreateOne(x) ==
    /\ phase = "served" /\ last.does = "nothing"
    /\ Insert(<<x>>, InOrder(<<Checked(x, TRUE)>>))

CreateList(x, y) ==
    /\ phase = "served" /\ last.does = "nothing" /\ Table # <<>>
    /\ Insert(<<x, y>>, InOrder(<<Checked(x, TRUE), Checked(y, TRUE)>>))

(* update_one of the first row, with a body that need not be complete.     *)
(* Nothing to write is a SELECT.                                           *)
UpdateFirst(sent, v) == Write("update", sent, v, [rows EXCEPT ![1] = UpdateOne(rows[1], v[2][2])])

UpdateOneRow(x) ==
    /\ last.does = "create" /\ rows # <<>> /\ Table # <<>>
    /\ UpdateFirst(<<x>>, Checked(x, FALSE))

(* SQL compares values of one type; nothing is true of NULL, and NaN is    *)
(* the greatest number.                                                    *)
Same(a, b) ==
    /\ a # Null /\ b # Null
    /\ IF IsNumber(a) \/ IsNumber(b) THEN IsNumber(a) /\ IsNumber(b) /\ Amount(a) = Amount(b)
       ELSE a[2] = b[2]
Less(a, b) ==
    /\ a # Null /\ b # Null /\ a # NaN
    /\ CASE b = NaN -> TRUE
         [] IsNumber(a) -> Amount(a) < Amount(b)
         [] OTHER -> <<a[2], b[2]>> \in Precedes

(* SQLAlchemy writes = None as IS NULL, and != None as IS NOT NULL.        *)
IsOneOf(kept, values) ==
    (kept = Null /\ values = <<Null>>) \/ \E i \in DOMAIN values : Same(kept, values[i])

\* Mutant: the operations with "or equal" are without.
StrictFilter(op, kept, values) ==
    CASE op = "eq" -> IsOneOf(kept, values)
      [] op = "ne" -> kept # Null /\ ~IsOneOf(kept, values)
      [] op \in {"gt", "ge"} -> Less(values[1], kept)
      [] op \in {"lt", "le"} -> Less(kept, values[1])

(* default_filter_field: several values are a set for eq and ne; for the   *)
(* others the first of them counts.                                        *)
DefaultFilterField(op, kept, values) ==
    CASE op = "eq" -> IsOneOf(kept, values)
      [] op = "ne" -> kept # Null /\ ~IsOneOf(kept, values)
      [] op = "gt" -> Less(values[1], kept)
      [] op = "ge" -> Less(values[1], kept) \/ Same(kept, values[1])
      [] op = "lt" -> Less(kept, values[1])
      [] op = "le" -> Less(kept, values[1]) \/ Same(kept, values[1])

(* get_list with one parameter, given once or several times.  What is      *)
(* found is kept: the rows, by their place.                                *)
FoundBy(key, value) ==
    LET values == IF value[1] = "list" THEN value[2] ELSE <<value>> IN
    {i \in DOMAIN rows : DefaultFilterField(Split[key][2], rows[i][Split[key][1]], values)}

Reply(key, texts, v) ==
    last' = [does |-> "find", sent |-> <<key, texts>>, outcome |-> Outcome(v, FALSE),
             found |-> IF v[1] = "ok" THEN FoundBy(key, v[2][2][key]) ELSE {}]

Find(key, texts) ==
    LET sent == [n \in {key} |-> [i \in DOMAIN texts |-> <<"str", texts[i]>>]] IN
    /\ last.does = "create" /\ rows # <<>> /\ Table # <<>>
    /\ Reply(key, texts, ValidateClass(Query, <<"multi", sent>>, TRUE, TRUE))
    /\ UNCHANGED <<docVars, rows, response>>

-----------------------------------------------------------------------------
(* What a client may do: send one of the bodies the service lists, send    *)
(* back any part of what it was sent, look for a value it was shown and    *)
(* can write as a text, for that one or the other row's, or for null.      *)
Part(S) == <<"obj", [n \in S |-> response[n]]>>
Keys ==
    IF Table = <<>> THEN {}
    ELSE UNION {Range(FieldOps(f)) : f \in Range(FieldsOf[Query])}
ShownTexts(n) ==
    LET shown == {Shows(rows[i]) : i \in DOMAIN rows} IN
    {TextOf(x[n]) : x \in {y \in shown : n \in DOMAIN y /\ HasText(y[n])}}

BuildDocument == Build /\ UNCHANGED clientVars
Create ==
    \/ \E x \in Bodies : CreateOne(x)
    \/ \E x, y \in Bodies : CreateList(x, y)
Update == \E x \in Bodies \cup {Part(S) : S \in SUBSET DOMAIN response} : UpdateOneRow(x)
Search ==
    \E key \in {k \in Keys : Split[k][1] \in DOMAIN response /\ HasText(response[Split[k][1]])} :
        LET mine == TextOf(response[Split[key][1]]) IN
        \/ Find(key, <<"NULL">>)
        \/ \E other \in ShownTexts(Split[key][1]) :
            Find(key, IF other = mine THEN <<mine>> ELSE <<mine, other>>)

ClientNext == BuildDocument \/ Create \/ Update \/ Search
ClientSpec == ClientInit /\ [][ClientNext]_vars

-----------------------------------------------------------------------------
Created == last.does = "create" /\ last.outcome = "done"

(* A list stores what its bodies would store one by one, when the body     *)
(* class has the defaults of the table.                                    *)
ListStoresWhatOneWould ==
    Created /\ HasDefaults =>
        \A i \in DOMAIN rows :
            rows[i] = Kept(Written(<<Checked(last.sent[i], TRUE)[2][2]>>)[1])

(* A client that sends back any part of what it was sent changes nothing:  *)
(* every validator reads what its dump writes (fields.py:244).             *)
RoundTrip ==
    [][last'.does = "update" /\ (\E S \in SUBSET DOMAIN response : last'.sent = <<Part(S)>>)
       => last'.outcome = "done" /\ rows' = rows]_vars

(* An update touches the columns that were sent, in the first row, and no  *)
(* default comes back with it (validate.py:232, path.py:195).              *)
UpdateTouchesWhatWasSent ==
    [][last'.does = "update" =>
        /\ \A i \in DOMAIN rows : i # 1 => rows'[i] = rows[i]
        /\ \A n \in DOMAIN rows[1] :
            n \in DOMAIN last'.sent[1][2] \/ rows'[1][n] = rows[1][n]]_vars

(* The operations that find a row by what it was shown with, and by null. *)
OpsThatFind(texts) == IF texts = <<"NULL">> THEN {"ne"} ELSE {"eq", "ge", "le"}

(* What was shown can be found again: a row is among those that are equal  *)
(* to a value it was shown with, and among those not less and not greater, *)
(* and not among the others; of null it is only not equal (dbmodel.py:294).*)
SearchFindsWhatIsShown ==
    last.does = "find" =>
        /\ last.outcome = "done"
        /\ 1 \in last.found <=> Split[last.sent[1]][2] \in OpsThatFind(last.sent[2])
=============================================================================
