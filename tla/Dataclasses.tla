---------------------------- MODULE Dataclasses ----------------------------
(***************************************************************************)
(* The dataclasses of a service.  A field is a record (see Fields.tla); a  *)
(* type is a pair of its kind and what it is of.                           *)
(***************************************************************************)
CONSTANTS
    Classes,    \* the dataclasses
    FieldsOf    \* for each class, the sequence of its fields

Shown(c) == {f \in {FieldsOf[c][i] : i \in DOMAIN FieldsOf[c]} : ~f.hidden}
=============================================================================
