------------------------------ MODULE SpecDoc -------------------------------
(***************************************************************************)
(* openapi/spec/spec.py: the OpenAPI document is built from the routes of  *)
(* a service.  A path mentions classes; the classes they mention in turn   *)
(* are collected by a work list that grows while it is drained.            *)
(***************************************************************************)
EXTENDS Naturals, Sequences, Dataclasses

CONSTANTS
    Names,          \* what they are called
    NameOf,         \* for each class, its __name__
    Types,          \* the annotations of the fields, and what they consist of
    ErrorClasses,   \* ValidationErrors, ErrorMessage and FieldError
    ErrorSchema,    \* for each status of an error, the class of its response
    Services        \* the services by name: their paths and validate_docs

ASSUME SpecDocAssumption ==
    /\ NameOf \in [Classes -> Names]
    /\ ErrorClasses \subseteq Classes
    /\ \A status \in DOMAIN ErrorSchema : ErrorSchema[status] \in ErrorClasses

VARIABLES
    service,   \* the name of the service whose document is built
    built,     \* how many of its paths are in the document
    used,      \* the classes that the paths refer to
    toParse,   \* SchemaParser.schemas_to_parse: the class of each name
    batch,     \* what is left of the round that is being parsed
    parsed,    \* the class that was parsed under each name
    phase      \* "paths", "schemas", "served", or "failed"

docVars == <<service, built, used, toParse, batch, parsed, phase>>

Nothing == [n \in {} |-> {}]

Paths == Services[service].paths
ValidateDocs == Services[service].validateDocs

-----------------------------------------------------------------------------
(* The classes a type refers to: get_schema_info. *)
Mentioned[T \in Types] ==
    CASE T[1] = "class" -> {T[2]}
      [] T[1] \in {"list", "dict"} -> Mentioned[T[2]]
      [] T[1] = "union" -> UNION {Mentioned[T[2][i]] : i \in DOMAIN T[2]}
      [] OTHER -> {}

(* dataclass2json, and get_parameters of a query or a path: the class      *)
(* itself is written out, those of its fields are referred to.             *)
Refers(c) == UNION {Mentioned[f.type] : f \in Shown(c)}

Names_(S) == {NameOf[c] : c \in S}

\* Mutant: a class is only added when nothing waits.
AddToEmpty(pending, S) ==
    IF DOMAIN pending # {} THEN pending
    ELSE [n \in Names_(S) |-> CHOOSE c \in S : NameOf[c] = n]

\* Mutant: every name is given the class that was added last.
AddLast(pending, S) ==
    [n \in DOMAIN pending \cup Names_(S) |-> IF S = {} THEN pending[n] ELSE CHOOSE c \in S : TRUE]

(* add_schema_to_parse, for each of S: the name is the key.  Which one of  *)
(* two classes with one name is kept is not modelled.                      *)
AddSchemas(pending, S) ==
    [n \in DOMAIN pending \cup Names_(S) |->
        IF n \in Names_(S) THEN CHOOSE c \in S : NameOf[c] = n ELSE pending[n]]

Included(path) == {m \in path.methods : ~m.private}

(* _build_path_object: what the path's methods refer to.  The class of a   *)
(* response is collected whatever the statuses of the docstring are.       *)
PathRefers(path) ==
    UNION {Refers(c) : c \in path.schema}
    \cup UNION {
        UNION {Mentioned[T] : T \in m.response \cup m.body}
        \cup (IF m.response = {} THEN {} ELSE {ErrorSchema[s] : s \in m.errors})
        \cup UNION {Refers(c) : c \in m.query} : m \in Included(path)}

(* A type that is no dataclass, and has no schema of its own, is refused    *)
(* when it is met: the others mention classes.                             *)
ASSUME SpecDocTypes ==
    /\ \A c \in Classes : Refers(c) \subseteq Classes
    /\ \A s \in DOMAIN Services :
        /\ Len(Services[s].paths) \in Nat
        /\ \A i \in 1..Len(Services[s].paths) : PathRefers(Services[s].paths[i]) \subseteq Classes

Described(c) == \A f \in Shown(c) : f.described

(* The classes that a path writes out, for its parameters. *)
Parameters(path) == path.schema \cup UNION {m.query : m \in Included(path)}

(* With validate_docs: tags, summary and description of the path's         *)
(* methods, and of the fields of each class that is written out.           *)
PathDescribed(path) ==
    /\ path.described /\ \A m \in Included(path) : m.described
    /\ \A c \in Parameters(path) : Described(c)

-----------------------------------------------------------------------------
Init ==
    /\ service \in DOMAIN Services
    /\ built = 0 /\ used = {} /\ phase = "paths"
    /\ toParse = AddSchemas(Nothing, ErrorClasses)   \* the first lines of __call__
    /\ batch = Nothing /\ parsed = Nothing

Fail == phase' = "failed" /\ UNCHANGED <<service, built, used, toParse, batch, parsed>>

BuildPath ==
    /\ phase = "paths" /\ built < Len(Paths)
    /\ LET path == Paths[built + 1] IN
        IF path.private \/ (ValidateDocs => PathDescribed(path))
        THEN LET refers == IF path.private THEN {} ELSE PathRefers(path) IN
             /\ built' = built + 1
             /\ used' = used \cup refers
             /\ toParse' = AddSchemas(toParse, refers)
             /\ UNCHANGED <<service, batch, parsed, phase>>
        ELSE Fail

(* The head of the loop in parsed_schemas. *)
NextRound ==
    /\ batch = Nothing
    /\ \/ phase = "paths" /\ built = Len(Paths)
       \/ phase = "schemas"
    /\ phase' = IF toParse = Nothing THEN "served" ELSE "schemas"
    /\ batch' = toParse /\ toParse' = Nothing
    /\ UNCHANGED <<service, built, used, parsed>>

Without(f, n) == [m \in DOMAIN f \ {n} |-> f[m]]

(* dataclass2json of one class.  The order is that of a dict; any order is *)
(* allowed here.                                                           *)
Parse(n) ==
    /\ n \in DOMAIN batch
    /\ IF ValidateDocs => Described(batch[n])
       THEN /\ parsed' = [m \in DOMAIN parsed \cup {n} |-> IF m = n THEN batch[n] ELSE parsed[m]]
            /\ toParse' = AddSchemas(toParse, Refers(batch[n]))
            /\ batch' = Without(batch, n)
            /\ UNCHANGED <<service, built, used, phase>>
       ELSE Fail

Build ==
    /\ phase \in {"paths", "schemas"}
    /\ BuildPath \/ NextRound \/ \E n \in Names : Parse(n)

DocSpec == Init /\ [][Build]_docVars

-----------------------------------------------------------------------------
IsSchemas(f) == f \in [DOMAIN f -> Classes] /\ \A n \in DOMAIN f : NameOf[f[n]] = n

(* Schemas are kept under the names of their classes. *)
DocTypeOK ==
    /\ service \in DOMAIN Services /\ phase \in {"paths", "schemas", "served", "failed"}
    /\ used \subseteq Classes
    /\ IsSchemas(toParse) /\ IsSchemas(batch) /\ IsSchemas(parsed)

ReferredTo == used \cup UNION {Refers(parsed[n]) : n \in DOMAIN parsed}

(* A document that is served can be read to the end: every $ref in it,     *)
(* those of the schemas found last included, is among its schemas, and     *)
(* leads to the class that was meant when no other has its name            *)
(* (spec.py:229, 236).                                                     *)
ReferencesResolve ==
    phase = "served" =>
        \A c \in ReferredTo :
            /\ NameOf[c] \in DOMAIN parsed
            /\ (\A d \in Classes : NameOf[d] = NameOf[c] => d = c) => parsed[NameOf[c]] = c

=============================================================================
