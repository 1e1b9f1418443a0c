---------------------------- MODULE MCFieldValues ----------------------------
(***************************************************************************)
(* FieldValues with a value for each way a conversion goes.  Two bits make *)
(* a byte, and doubles are exact up to 4.                                  *)
(***************************************************************************)
EXTENDS FieldValues

CONSTANT a   \* a string

MCArguments ==
  {<<"nil">>, <<"boolean", TRUE>>, <<"boolean", FALSE>>, <<"number", 3>>,
   <<"string", a>>, <<"table">>}

MCContents ==
  [type : {"number", "bit", "text", "null"}, value : {Null}]
    \cup [type : {"number"}, value : {0, 4, 5, 6, 7}]
    \cup [type : {"bit"}, value : {<<1>>, <<2>>, <<0, 1>>, <<1, 2>>}]
    \cup [type : {"text"}, value : {a, Empty}]

MCColumns ==
  {[name |-> n, type |-> c.type, value |-> c.value] : n \in {"x", "y"}, c \in MCContents}

=============================================================================
