----------------------------- MODULE FieldValues -----------------------------
(***************************************************************************)
(* The values that cross the border between Lua and the client library:    *)
(* the arguments of stmt:execute, copied into buffers the library reads    *)
(* them from later, and the columns of a row, made fields of a Lua table.  *)
(* One behavior binds the arguments of a call or pushes a row.             *)
(***************************************************************************)
EXTENDS Integers, Sequences, SequencesExt

CONSTANTS
  Arguments,      \* the Lua values a program may pass: <<type>>, <<type, value>>
  MaxArguments,   \* how many it may pass, and how many parameters there may be
  Columns,        \* the columns a row may have: [name, type, value]
  MaxColumns,
  Null,           \* SQL NULL
  Empty,          \* the empty string
  MaxExact,       \* 2^53: doubles represent the integers up to it
  Bytes           \* 2^8: the values of a byte

Names == {c.name : c \in Columns}

(* A number is an integer within twice the exact ones, a BIT its bytes.     *)
ASSUME ValuesAssumption ==
  /\ MaxArguments \in Nat /\ MaxColumns \in Nat
  /\ MaxExact \in Nat /\ MaxExact % 4 = 0
  /\ Bytes \in Nat /\ Bytes % 2 = 0
  /\ \A c \in Columns :
       /\ c.type \in {"number", "bit", "null", "text"}
       /\ c.type = "null" => c.value = Null
       /\ c.type \in {"number", "bit"} => c.value # Empty
       /\ c.type = "number" /\ c.value # Null => c.value \in 0..2 * MaxExact
       /\ c.type = "bit" /\ c.value # Null =>
            c.value \in Seq(0..Bytes - 1) /\ c.value # <<>>

VARIABLES
  \* the constructor of ExecuteStatementAction
  passed,      \* the arguments on the Lua stack
  arguments,   \* the binds: [is_null, type, buffer, length], the last three
               \* 0 until set; is_null, buffer and length are addresses
  buffers,     \* what the deque of buffers holds, by address
  valid,       \* the addresses that are still those of a buffer
  raised,      \* luaL_typerror
  \* PushRow
  row,         \* the columns of the row
  is_nulls,    \* the row has NULL flags: it comes from a prepared statement
  fields,      \* the Lua table, by name: a Lua value
  i            \* the next argument or column

bindVars == <<arguments, buffers, valid, raised>>
vars == <<passed, bindVars, row, is_nulls, fields, i>>

Nil == <<"nil">>

(* One is_null buffer per parameter, all set.                               *)
InitBind ==
  /\ passed \in SeqOf(Arguments, MaxArguments + 1)
  /\ \E count \in 0..MaxArguments :
       /\ arguments = [k \in 1..count |->
                         [is_null |-> k, type |-> "none", buffer |-> 0, length |-> 0]]
       /\ buffers = [k \in 1..count |-> TRUE]
       /\ valid = 1..count
  /\ row = <<>> /\ is_nulls = FALSE

InitRow ==
  /\ row \in SeqOf(Columns, MaxColumns) \ {<<>>}
  /\ is_nulls \in BOOLEAN
  /\ passed = <<>> /\ arguments = <<>> /\ buffers = <<>> /\ valid = {}

Init ==
  /\ InitBind \/ InitRow
  /\ raised = FALSE
  /\ fields = [n \in Names |-> Nil]
  /\ i = 1

-----------------------------------------------------------------------------
(* PopulateBind                                                             *)

(* Faulty variant: a vector moves its elements when it grows.               *)
AddressesMoved(old, new) == new

(* push_back does not move the elements of a deque.                         *)
Addresses(old, new) == old \cup new

(* The address the next push_back gives.                                    *)
Fresh == Len(buffers) + 1

NotNull == [buffers EXCEPT ![arguments[i].is_null] = FALSE]

(* A scalar is one buffer; a string two, its bytes and their number.        *)
Bind(type, contents) ==
  /\ buffers' = NotNull \o contents
  /\ valid' = Addresses(valid, Fresh..Len(buffers'))
  /\ arguments' = [arguments EXCEPT
       ![i].type = type, ![i].buffer = Fresh,
       ![i].length = IF Len(contents) = 2 THEN Fresh + 1 ELSE 0]

(* Arguments beyond the parameters are not looked at.                       *)
Binding(type) ==
  /\ i <= Len(passed) /\ i <= Len(arguments) /\ ~ raised
  /\ passed[i][1] = type

BindBoolean ==
  /\ Binding("boolean")
  /\ Bind("TINY", <<IF passed[i][2] THEN 1 ELSE 0>>)

BindNumber ==
  /\ Binding("number")
  /\ Bind("DOUBLE", <<passed[i][2]>>)

BindString ==
  /\ Binding("string")
  /\ Bind("BLOB", <<passed[i][2], "length">>)

BindNil ==
  /\ Binding("nil")
  /\ buffers' = [buffers EXCEPT ![arguments[i].is_null] = TRUE]
  /\ UNCHANGED <<arguments, valid>>

BindTypeError ==
  /\ Binding("table")
  /\ raised' = TRUE
  /\ UNCHANGED <<arguments, buffers, valid, i>>

PopulateBind ==
  /\ \/ BindTypeError
     \/ /\ BindBoolean \/ BindNumber \/ BindString \/ BindNil
        /\ i' = i + 1 /\ UNCHANGED raised
  /\ UNCHANGED <<passed, row, is_nulls, fields>>

-----------------------------------------------------------------------------
(* PushField                                                                *)

(* The nearest double: between MaxExact and twice that, the even integers,  *)
(* and of two equally near ones the one that is a multiple of four.         *)
Double(n) == IF n <= MaxExact \/ n % 2 = 0 THEN n ELSE 4 * ((n + 1) \div 4)

Atof(field) == IF field = Empty THEN 0 ELSE Double(field)

SignedChar(b) == IF b < Bytes \div 2 THEN b ELSE b - Bytes

FirstByte(field) == IF field = Empty THEN 0 ELSE SignedChar(Head(field))

(* The string made of a column; a null pointer of length 0 makes it empty.  *)
Field(c) == IF c.value = Null THEN Empty ELSE c.value

PushField(field, type) ==
  CASE type = "number" -> <<"number", Atof(field)>>
    [] type = "bit"    -> <<"number", FirstByte(field)>>
    [] type = "null"   -> Nil
    [] type = "text"   -> <<"string", field>>

(* Faulty variant: the NULL flags are not looked at.                        *)
PushColumnNotNull(c) == PushField(Field(c), c.type)

PushColumn(c) ==
  IF is_nulls /\ c.value = Null THEN Nil ELSE PushField(Field(c), c.type)

PushRow ==
  /\ i <= Len(row)
  /\ fields' = [fields EXCEPT ![row[i].name] = PushColumn(row[i])]
  /\ i' = i + 1
  /\ UNCHANGED <<passed, bindVars, row, is_nulls>>

Over ==
  /\ raised \/ (i > Len(row) /\ (i > Len(passed) \/ i > Len(arguments)))
  /\ UNCHANGED vars

Next == PopulateBind \/ PushRow \/ Over

Spec == Init /\ [][Next]_vars

-----------------------------------------------------------------------------
(* What the library reads through a bind when it sends the execution.       *)
Sent(b) ==
  IF buffers[b.is_null] THEN Null
  ELSE <<b.type, buffers[b.buffer]>>

Meant(argument) ==
  CASE argument[1] = "boolean" -> <<"TINY", IF argument[2] THEN 1 ELSE 0>>
    [] argument[1] = "number"  -> <<"DOUBLE", argument[2]>>
    [] argument[1] = "string"  -> <<"BLOB", argument[2]>>
    [] argument[1] = "nil"     -> Null

Bound == ~ raised /\ (i > Len(passed) \/ i > Len(arguments))

(* Every parameter is sent the argument in its place, NULL for a missing    *)
(* one, from buffers that are still where they were when it was bound and   *)
(* shared with no other parameter.                                          *)
ParametersFaithful ==
  Bound =>
    \A k \in DOMAIN arguments :
      /\ {arguments[k].is_null, arguments[k].buffer, arguments[k].length} \ {0}
           \subseteq valid
      /\ Sent(arguments[k]) = IF k <= Len(passed) THEN Meant(passed[k]) ELSE Null

(* The value of a BIT column: its bytes, the most significant first.        *)
Number(bytes) == FoldLeft(LAMBDA n, b : n * Bytes + b, 0, bytes)

Image(c) ==
  IF c.value = Null THEN Nil
  ELSE CASE c.type = "number" -> <<"number", c.value>>
         [] c.type = "bit"    -> <<"number", Number(c.value)>>
         [] c.type = "text"   -> <<"string", c.value>>

(* What the conversion loses: a NULL without a flag, an integer a double    *)
(* does not represent, a BIT of more than seven bits.                       *)
Representable(c) ==
  /\ c.value = Null => is_nulls \/ c.type = "null"
  /\ c.type = "number" /\ c.value # Null => c.value <= MaxExact \/ c.value % 2 = 0
  /\ c.type = "bit" /\ c.value # Null => Number(c.value) < Bytes \div 2 /\ Len(c.value) = 1

ColumnsOf(name) == {k \in DOMAIN row : row[k].name = name}

LastColumn(name) == row[Max(ColumnsOf(name))]

(* PushRow gives the table of a row its columns by name, of columns with    *)
(* the same name the last, although it may be NULL, and a field for no      *)
(* other name.  The keys AFFECTED_ROWS and LAST_INSERT_ID, which README.md  *)
(* promises in each row, are not its work and in no row: Finish sets them   *)
(* on the result table.                                                     *)
RowFaithful ==
  row # <<>> /\ i > Len(row) =>
    \A name \in Names :
      IF ColumnsOf(name) = {} THEN fields[name] = Nil
      ELSE Representable(LastColumn(name)) => fields[name] = Image(LastColumn(name))

=============================================================================
