------------------------------- MODULE Kwargs -------------------------------
(***************************************************************************)
(* utils/kwargs.cc: the arguments of a rule in a BUILD file and the typed  *)
(* access to them.  An argument is a record [kind, value] of a kind "str", *)
(* "list", "dict" or "other" (what Python has besides); the value of a     *)
(* list is a sequence of such records.  A result that is not ok is an      *)
(* exception.                                                              *)
(***************************************************************************)
EXTENDS Sequences, Functions

Str(s) == [kind |-> "str", value |-> s]
List(items) == [kind |-> "list", value |-> items]
Other == [kind |-> "other", value |-> <<>>]

Throws == [ok |-> FALSE]
Ok(value) == [ok |-> TRUE, value |-> value]

\* KwargsValue: the kinds the conversion from Python knows.
Convertible(arg) ==
  /\ arg.kind # "other"
  /\ arg.kind = "list" => \A item \in Range(arg.value) : item.kind # "other"

\* The items of a list, if all of them are strings (std::get<0>).
Strings(arg) ==
  IF \A item \in Range(arg.value) : item.kind = "str"
    THEN Ok([i \in DOMAIN arg.value |-> arg.value[i].value])
    ELSE Throws

StringRequired(args, field) ==
  IF field \in DOMAIN args /\ args[field].kind = "str" THEN Ok(args[field].value) ELSE Throws

\* A string is not a list (index() != 1), and a list is not a string
\* (std::get<0>): once the field is given, this throws.
StringOptional(args, field, default) ==
  IF field \in DOMAIN args THEN Throws ELSE Ok(default)

ListRequired(args, field) ==
  IF field \in DOMAIN args /\ args[field].kind = "list" THEN Strings(args[field]) ELSE Throws

ListOptional(args, field, default) ==
  IF field \in DOMAIN args THEN ListRequired(args, field) ELSE Ok(default)
=============================================================================
