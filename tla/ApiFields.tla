----------------------------- MODULE ApiFields -----------------------------
(* The kinds of field of an API message.  A field has a number, the kind of   *)
(* its value (for an enum or a message also which one) and a label: a plain   *)
(* field is left out when it holds its default, an optional one when it is    *)
(* unset, one of a oneof group when another is set, a repeated one when it is *)
(* empty.                                                                     *)
EXTENDS Naturals, TLC

Field(number, kind, of, label) ==
    [number |-> number, kind |-> kind, of |-> of, label |-> label]

Str(n) == Field(n, "string", "", "plain")
Int(n) == Field(n, "int", "", "plain")
Long(n) == Field(n, "long", "", "plain")
Bool(n) == Field(n, "bool", "", "plain")
Double(n) == Field(n, "double", "", "plain")
Bytes(n) == Field(n, "bytes", "", "plain")
Enum(n, e) == Field(n, "enum", e, "plain")
OptStr(n) == Field(n, "string", "", "optional")
OptInt(n) == Field(n, "int", "", "optional")
Msg(n, t) == Field(n, "message", t, "optional")
OneMsg(n, t) == Field(n, "message", t, "oneof")
ManyStr(n) == Field(n, "string", "", "repeated")
ManyMsg(n, t) == Field(n, "message", t, "repeated")

(* The wire type a kind is written with.                                      *)
WireType(kind) ==
    CASE kind \in {"int", "long", "bool", "enum"} -> 0
      [] kind = "double" -> 1
      [] kind \in {"string", "bytes", "message"} -> 2
=============================================================================
