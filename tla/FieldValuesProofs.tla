-------------------------- MODULE FieldValuesProofs --------------------------
(***************************************************************************)
(* Any arguments, any number of parameters, any row: what is sent is what  *)
(* was passed, and what a Lua program reads is what the server sent, but   *)
(* for the values that cannot be represented.                              *)
(***************************************************************************)
EXTENDS FieldValues, SequenceTheorems, TLAPS

(* What a buffer may hold, and a bind.                                      *)
Contents == BOOLEAN \cup {0, 1, "length"} \cup {x[2] : x \in Arguments}

Binds == [is_null : Nat, type : {"none", "TINY", "DOUBLE", "BLOB"}, buffer : Nat, length : Nat]

-----------------------------------------------------------------------------
(* The inductive invariant                                                  *)

PlacesOK ==
  /\ i \in Nat /\ i > 0
  /\ row = <<>> => i <= Len(passed) + 1
  /\ passed \in Seq(Arguments) /\ row \in Seq(Columns)
  /\ row # <<>> => arguments = <<>>
  /\ DOMAIN fields = Names

(* The buffers grow behind the flags, and keep their addresses.             *)
BuffersOK ==
  /\ buffers \in Seq(Contents)
  /\ arguments \in Seq(Binds)
  /\ Len(arguments) <= Len(buffers)
  /\ valid = 1..Len(buffers)

(* Parameter k before its turn, and after a nil.                            *)
Unset(k) ==
  /\ arguments[k].is_null = k /\ arguments[k].buffer = 0 /\ arguments[k].length = 0
  /\ buffers[k] = TRUE

(* Parameter k once it was bound to an argument.                            *)
Set(k) ==
  /\ arguments[k].is_null = k /\ buffers[k] = FALSE
  /\ arguments[k].buffer \in Len(arguments) + 1..Len(buffers)
  /\ arguments[k].length \in 0..Len(buffers)
  /\ <<arguments[k].type, buffers[arguments[k].buffer]>> = Meant(passed[k])

ArgumentsOK ==
  \A k \in DOMAIN arguments :
    IF k < i /\ passed[k][1] # "nil" THEN Set(k) ELSE Unset(k)

(* The columns pushed so far, by name the last.                             *)
FieldsOK ==
  row # <<>> =>
    \A name \in Names :
      \/ fields[name] = Nil /\ \A k \in ColumnsOf(name) : k >= i
      \/ \E k \in ColumnsOf(name) :
           /\ k < i /\ fields[name] = PushColumn(row[k])
           /\ \A j \in ColumnsOf(name) : j > k => j >= i

IInv == PlacesOK /\ BuffersOK /\ ArgumentsOK /\ FieldsOK

-----------------------------------------------------------------------------
(* Initially                                                                *)

(* A bounded sequence is a sequence.                                        *)
LEMMA SeqOfIsSeq ==
  ASSUME NEW S, NEW n \in Nat, NEW s \in SeqOf(S, n)
  PROVE  s \in Seq(S)
<1>1. PICK m \in 0..n : s \in [1..m -> S]
  BY DEF SeqOf
<1> QED
  BY <1>1

LEMMA InitBindIInv ==
  ASSUME InitBind, raised = FALSE, fields = [n \in Names |-> Nil], i = 1
  PROVE  IInv
<1>1. PICK count \in 0..MaxArguments :
        /\ arguments = [k \in 1..count |->
                          [is_null |-> k, type |-> "none", buffer |-> 0, length |-> 0]]
        /\ buffers = [k \in 1..count |-> TRUE]
        /\ valid = 1..count
  BY DEF InitBind
<1>2. count \in Nat /\ MaxArguments + 1 \in Nat
  BY ValuesAssumption DEF ValuesAssumption
<1>3. passed \in Seq(Arguments)
  BY <1>2, SeqOfIsSeq DEF InitBind
<1>4. buffers \in Seq(Contents) /\ Len(buffers) = count
  <2>1. TRUE \in Contents
    BY DEF Contents
  <2>2. buffers \in [1..count -> Contents]
    BY <1>1, <2>1, Zenon
  <2> QED
    BY <1>2, <2>2
<1>5. arguments \in Seq(Binds) /\ Len(arguments) = count /\ DOMAIN arguments = 1..count
  <2>1. \A k \in 1..count :
          [is_null |-> k, type |-> "none", buffer |-> 0, length |-> 0] \in Binds
    BY <1>2 DEF Binds
  <2>2. arguments \in [1..count -> Binds]
    BY <1>1, <2>1, Zenon
  <2> QED
    BY <1>2, <2>2
<1>6. row = <<>> /\ row \in Seq(Columns)
  BY DEF InitBind
<1>7. PlacesOK
  <2>1. Len(passed) \in Nat
    BY <1>3
  <2> QED
    BY <1>3, <1>6, <2>1 DEF PlacesOK
<1>8. BuffersOK
  <2>1. valid = 1..Len(buffers)
    BY <1>1, <1>4
  <2> QED
    BY <1>2, <1>4, <1>5, <2>1 DEF BuffersOK
<1>9. ArgumentsOK
  <2> SUFFICES ASSUME NEW k \in 1..count
               PROVE  ~ k < i /\ Unset(k)
    BY <1>5 DEF ArgumentsOK
  <2>1. ~ k < i
    BY <1>2
  <2> QED
    BY <1>1, <2>1 DEF Unset
<1>10. FieldsOK
  BY <1>6 DEF FieldsOK
<1> QED
  BY <1>7, <1>8, <1>9, <1>10 DEF IInv

LEMMA InitRowIInv ==
  ASSUME InitRow, raised = FALSE, fields = [n \in Names |-> Nil], i = 1
  PROVE  IInv
<1>1. MaxColumns \in Nat
  BY ValuesAssumption DEF ValuesAssumption
<1>2. row \in Seq(Columns)
  BY <1>1, SeqOfIsSeq DEF InitRow
<1>3. passed = <<>> /\ arguments = <<>> /\ buffers = <<>> /\ valid = {}
  BY DEF InitRow
<1>4. PlacesOK
  BY <1>2, <1>3 DEF PlacesOK
<1>5. BuffersOK
  BY <1>3 DEF BuffersOK
<1>6. ArgumentsOK
  BY <1>3 DEF ArgumentsOK
<1>7. FieldsOK
  <2> SUFFICES ASSUME NEW name \in Names
               PROVE  fields[name] = Nil /\ \A k \in ColumnsOf(name) : k >= i
    BY DEF FieldsOK
  <2>1. \A k \in ColumnsOf(name) : k \in 1..Len(row)
    BY <1>2 DEF ColumnsOf
  <2> QED
    BY <1>2, <2>1
<1> QED
  BY <1>4, <1>5, <1>6, <1>7 DEF IInv

LEMMA InitIInv == Init => IInv
BY InitBindIInv, InitRowIInv DEF Init

-----------------------------------------------------------------------------
(* PopulateBind                                                             *)

(* The invariant is not about raised.                                       *)
LEMMA Unmoved ==
  ASSUME IInv, UNCHANGED <<passed, arguments, buffers, valid, row, is_nulls, fields, i>>
  PROVE  IInv'
<1>1. PlacesOK'
  BY DEF IInv, PlacesOK
<1>2. BuffersOK'
  BY DEF IInv, BuffersOK
<1>3. ArgumentsOK'
  <2>1. \A k : Set(k)' = Set(k) /\ Unset(k)' = Unset(k)
    BY Zenon DEF Set, Unset, Meant
  <2> QED
    BY <2>1 DEF IInv, ArgumentsOK
<1>4. FieldsOK'
  <2>1. \A c : PushColumn(c)' = PushColumn(c)
    BY DEF PushColumn
  <2>2. \A name : ColumnsOf(name)' = ColumnsOf(name)
    BY Zenon DEF ColumnsOf
  <2> QED
    BY <2>1, <2>2 DEF IInv, FieldsOK
<1> QED
  BY <1>1, <1>2, <1>3, <1>4 DEF IInv

(* What is put behind a sequence does not move it.                          *)
LEMMA ConcatParts ==
  ASSUME NEW S, NEW s \in Seq(S), NEW t \in Seq(S)
  PROVE  /\ s \o t \in Seq(S)
         /\ Len(s \o t) = Len(s) + Len(t)
         /\ \A k \in 1..Len(s) : (s \o t)[k] = s[k]
         /\ t # <<>> => (s \o t)[Len(s) + 1] = t[1]
<1>1. /\ s \o t \in Seq(S) /\ Len(s \o t) = Len(s) + Len(t)
      /\ \A k \in 1..Len(s) + Len(t) :
           (s \o t)[k] = IF k <= Len(s) THEN s[k] ELSE t[k - Len(s)]
  BY ConcatProperties
<1>2. Len(s) \in Nat /\ Len(t) \in Nat /\ (t # <<>> => Len(t) > 0)
  BY EmptySeq
<1> QED
  BY <1>1, <1>2

(* Where a bind takes place.                                                *)
LEMMA Turn ==
  ASSUME IInv, NEW type, Binding(type)
  PROVE  /\ row = <<>>
         /\ i \in 1..Len(arguments) /\ i \in 1..Len(passed) /\ i \in 1..Len(buffers)
         /\ Len(arguments) \in Nat /\ Len(passed) \in Nat /\ Len(buffers) \in Nat
         /\ DOMAIN arguments = 1..Len(arguments) /\ DOMAIN buffers = 1..Len(buffers)
         /\ passed[i] \in Arguments /\ passed[i][1] = type
         /\ arguments[i] \in Binds /\ arguments[i].is_null = i
<1>1. /\ Len(arguments) \in Nat /\ Len(passed) \in Nat /\ Len(buffers) \in Nat
      /\ DOMAIN arguments = 1..Len(arguments) /\ DOMAIN buffers = 1..Len(buffers)
  BY DEF IInv, PlacesOK, BuffersOK
<1>2. i \in 1..Len(arguments) /\ i \in 1..Len(passed) /\ i \in 1..Len(buffers)
  BY <1>1 DEF IInv, PlacesOK, BuffersOK, Binding
<1>3. row = <<>>
  <2>1. Len(arguments) # 0
    BY <1>1, <1>2
  <2> QED
    BY <2>1 DEF IInv, PlacesOK
<1>4. passed[i] \in Arguments /\ arguments[i] \in Binds
  BY <1>2 DEF IInv, PlacesOK, BuffersOK
<1>5. Unset(i)
  BY <1>1, <1>2 DEF IInv, ArgumentsOK
<1> QED
  BY <1>1, <1>2, <1>3, <1>4, <1>5 DEF Binding, Unset

(* The next argument, the row untouched.                                    *)
LEMMA PlacesAdvance ==
  ASSUME IInv, NEW type, Binding(type), i' = i + 1,
         Len(arguments') = Len(arguments), UNCHANGED <<passed, row, is_nulls, fields>>
  PROVE  PlacesOK' /\ FieldsOK'
<1>1. row = <<>> /\ i \in 1..Len(passed) /\ Len(passed) \in Nat
  BY Turn
<1>2. FieldsOK'
  BY <1>1 DEF FieldsOK
<1> QED
  BY <1>1, <1>2 DEF IInv, PlacesOK

(* A value is bound behind the buffers; the others stay where they are.     *)
LEMMA BindIInv ==
  ASSUME IInv, NEW lua, Binding(lua), lua # "nil",
         NEW type \in {"TINY", "DOUBLE", "BLOB"}, NEW contents \in Seq(Contents),
         Len(contents) \in {1, 2}, Bind(type, contents),
         <<type, contents[1]>> = Meant(passed[i]),
         i' = i + 1, UNCHANGED <<passed, row, is_nulls, fields>>
  PROVE  IInv'
<1>1. /\ i \in 1..Len(arguments) /\ i \in 1..Len(buffers) /\ passed[i][1] # "nil"
      /\ Len(arguments) \in Nat /\ Len(buffers) \in Nat
      /\ DOMAIN arguments = 1..Len(arguments)
      /\ arguments[i] \in Binds /\ arguments[i].is_null = i
  BY Turn
<1>2. /\ buffers \in Seq(Contents) /\ arguments \in Seq(Binds)
      /\ Len(arguments) <= Len(buffers) /\ valid = 1..Len(buffers)
  BY DEF IInv, BuffersOK
<1>3. NotNull = [buffers EXCEPT ![i] = FALSE]
  BY <1>1 DEF NotNull
<1>4. /\ NotNull \in Seq(Contents) /\ Len(NotNull) = Len(buffers)
      /\ \A k \in 1..Len(buffers) : NotNull[k] = IF k = i THEN FALSE ELSE buffers[k]
  <2>1. FALSE \in Contents
    BY DEF Contents
  <2>2. DOMAIN buffers = 1..Len(buffers) /\ buffers \in [1..Len(buffers) -> Contents]
    BY <1>2
  <2>3. \A k \in 1..Len(buffers) : NotNull[k] = IF k = i THEN FALSE ELSE buffers[k]
    BY <1>3, <2>2, Zenon
  <2>4. NotNull \in [1..Len(buffers) -> Contents]
    BY <1>3, <2>1, <2>2, Zenon
  <2> HIDE DEF NotNull
  <2>5. NotNull \in Seq(Contents) /\ Len(NotNull) = Len(buffers)
    BY <1>1, <2>4
  <2> QED
    BY <2>3, <2>5
<1>5. /\ buffers' \in Seq(Contents) /\ Len(buffers') = Len(buffers) + Len(contents)
      /\ \A k \in 1..Len(buffers) : buffers'[k] = NotNull[k]
      /\ buffers'[Fresh] = contents[1]
  <2>1. buffers' = NotNull \o contents
    BY DEF Bind
  <2>2. /\ NotNull \o contents \in Seq(Contents)
        /\ Len(NotNull \o contents) = Len(NotNull) + Len(contents)
        /\ \A k \in 1..Len(NotNull) : (NotNull \o contents)[k] = NotNull[k]
        /\ contents # <<>> => (NotNull \o contents)[Len(NotNull) + 1] = contents[1]
    <3>1. NotNull \in Seq(Contents)
      BY <1>4
    <3> HIDE DEF NotNull
    <3> QED
      BY <3>1, ConcatParts
  <2>3. Fresh = Len(buffers) + 1
    BY DEF Fresh
  <2>4. contents # <<>> /\ Len(contents) \in Nat
    OBVIOUS
  <2> HIDE DEF NotNull
  <2> QED
    BY <1>1, <1>4, <2>1, <2>2, <2>3, <2>4
<1>6. Fresh = Len(buffers) + 1 /\ Fresh \in 1..Len(buffers') /\ Len(buffers') \in Nat
  BY <1>1, <1>5 DEF Fresh
<1>7. valid' = 1..Len(buffers')
  BY <1>1, <1>2, <1>5, <1>6 DEF Bind, Addresses
<1> DEFINE length == IF Len(contents) = 2 THEN Fresh + 1 ELSE 0
           new == [arguments[i] EXCEPT !.type = type, !.buffer = Fresh, !.length = length]
<1>8. length \in 0..Len(buffers')
  <2>1. CASE Len(contents) = 2
    BY <1>1, <1>5, <1>6, <2>1
  <2>2. CASE Len(contents) = 1
    BY <1>6, <2>2
  <2> QED
    BY <2>1, <2>2
<1>9. /\ new \in Binds /\ new.is_null = i /\ new.type = type
      /\ new.buffer = Fresh /\ new.length = length
  <2>1. length \in Nat /\ Fresh \in Nat
    BY <1>6, <1>8
  <2> HIDE DEF length
  <2> QED
    BY <1>1, <2>1 DEF Binds
<1>10. arguments' = [arguments EXCEPT ![i] = new]
  BY <1>1 DEF Bind
<1> HIDE DEF new, length
<1>11. /\ arguments' \in Seq(Binds) /\ Len(arguments') = Len(arguments)
       /\ \A k \in 1..Len(arguments) : arguments'[k] = IF k = i THEN new ELSE arguments[k]
  BY <1>1, <1>2, <1>9, <1>10, ExceptSeq
<1>12. PlacesOK' /\ FieldsOK'
  BY <1>11, PlacesAdvance
<1>13. BuffersOK'
  BY <1>1, <1>2, <1>5, <1>7, <1>11 DEF BuffersOK
<1>14. ASSUME NEW k \in 1..Len(arguments)
       PROVE  IF k < i' /\ passed'[k][1] # "nil" THEN Set(k)' ELSE Unset(k)'
  <2>1. /\ arguments'[i] = new /\ (k # i => arguments'[k] = arguments[k])
        /\ (k # i => buffers'[k] = buffers[k]) /\ buffers'[i] = FALSE
    <3>1. k \in 1..Len(buffers)
      BY <1>1, <1>2
    <3>2. NotNull[i] = FALSE /\ (k # i => NotNull[k] = buffers[k])
      BY <1>1, <1>4, <3>1, Zenon
    <3>3. buffers'[i] = NotNull[i] /\ buffers'[k] = NotNull[k]
      BY <1>1, <1>5, <3>1, Zenon
    <3>4. arguments'[i] = new /\ (k # i => arguments'[k] = arguments[k])
      BY <1>1, <1>11, Zenon
    <3> QED
      BY <3>2, <3>3, <3>4, Zenon
  <2>2. CASE k = i
    <3>1. <<type, contents[1]>> = Meant(passed[k])'
      BY <2>2, Zenon DEF Meant
    <3>2. Set(k)'
      <4>1. /\ arguments'[k] = new /\ buffers'[k] = FALSE /\ new.is_null = k
            /\ new.type = type /\ new.buffer = Fresh
            /\ new.length \in 0..Len(buffers') /\ buffers'[Fresh] = contents[1]
        BY <1>5, <1>8, <1>9, <2>1, <2>2
      <4>2. Fresh \in Len(arguments') + 1..Len(buffers')
        BY <1>1, <1>2, <1>6, <1>11
      <4> QED
        BY <3>1, <4>1, <4>2 DEF Set
    <3> QED
      BY <1>1, <2>2, <3>2
  <2>3. CASE k # i
    <3>1. k < i' <=> k < i
      BY <1>1, <2>3
    <3>2. ASSUME Set(k) PROVE Set(k)'
      <4>1. Meant(passed[k]) = Meant(passed[k])'
        BY DEF Meant
      <4>2. arguments[k].buffer \in 1..Len(buffers) /\ arguments[k].buffer # i
        BY <1>1, <1>2, <3>2 DEF Set
      <4>3. buffers'[arguments[k].buffer] = buffers[arguments[k].buffer]
        BY <1>4, <1>5, <4>2
      <4>4. /\ arguments'[k] = arguments[k] /\ buffers'[k] = buffers[k]
            /\ Len(arguments') = Len(arguments)
            /\ Len(arguments) \in Nat /\ Len(buffers) \in Nat
            /\ Len(buffers') \in Nat /\ Len(buffers) <= Len(buffers')
        BY <1>1, <1>5, <1>6, <1>11, <2>1, <2>3
      <4> QED
        BY <3>2, <4>1, <4>3, <4>4 DEF Set
    <3>3. ASSUME Unset(k) PROVE Unset(k)'
      BY <2>1, <2>3, <3>3 DEF Unset
    <3>4. IF k < i /\ passed[k][1] # "nil" THEN Set(k) ELSE Unset(k)
      BY <1>1 DEF IInv, ArgumentsOK
    <3> QED
      BY <3>1, <3>2, <3>3, <3>4
  <2> QED
    BY <2>2, <2>3
<1>15. ArgumentsOK'
  <2>1. DOMAIN arguments' = 1..Len(arguments)
    BY <1>11
  <2> QED
    BY <1>14, <2>1 DEF ArgumentsOK
<1> QED
  BY <1>12, <1>13, <1>15 DEF IInv

LEMMA BindNilIInv ==
  ASSUME IInv, BindNil, i' = i + 1, UNCHANGED <<passed, row, is_nulls, fields>>
  PROVE  IInv'
<1> Binding("nil")
  BY DEF BindNil
<1>1. /\ i \in 1..Len(arguments) /\ i \in 1..Len(buffers) /\ passed[i][1] = "nil"
      /\ Len(arguments) \in Nat /\ Len(buffers) \in Nat
      /\ DOMAIN arguments = 1..Len(arguments) /\ arguments[i].is_null = i
  BY Turn
<1>2. UNCHANGED <<arguments, valid>> /\ Unset(i)
  BY <1>1 DEF BindNil, IInv, ArgumentsOK
<1>3. UNCHANGED buffers
  <2>1. buffers' = [buffers EXCEPT ![i] = TRUE] /\ buffers[i] = TRUE
    BY <1>1, <1>2 DEF BindNil, Unset
  <2>2. buffers \in Seq(Contents)
    BY DEF IInv, BuffersOK
  <2> QED
    BY <1>1, <2>1, <2>2
<1>4. PlacesOK' /\ FieldsOK'
  BY <1>2, PlacesAdvance
<1>5. BuffersOK'
  BY <1>2, <1>3 DEF IInv, BuffersOK
<1>6. ArgumentsOK'
  <2>1. ASSUME NEW k \in 1..Len(arguments)
        PROVE  IF k < i' /\ passed'[k][1] # "nil" THEN Set(k)' ELSE Unset(k)'
    <3>1. Set(k) = Set(k)' /\ Unset(k) = Unset(k)'
      BY <1>2, <1>3 DEF Set, Unset, Meant
    <3>2. k < i' <=> k < i \/ k = i
      BY <1>1
    <3>3. IF k < i /\ passed[k][1] # "nil" THEN Set(k) ELSE Unset(k)
      BY <1>1 DEF IInv, ArgumentsOK
    <3> QED
      BY <1>1, <1>2, <3>1, <3>2, <3>3
  <2> QED
    BY <1>1, <1>2, <2>1 DEF ArgumentsOK
<1> QED
  BY <1>4, <1>5, <1>6 DEF IInv

LEMMA PopulateBindIInv ==
  ASSUME IInv, PopulateBind
  PROVE  IInv'
<1>1. UNCHANGED <<passed, row, is_nulls, fields>>
  BY DEF PopulateBind
<1>2. CASE BindTypeError
  <2>1. UNCHANGED <<arguments, buffers, valid, i>>
    BY <1>2 DEF BindTypeError
  <2> QED
    BY <1>1, <2>1, Unmoved
<1>3. CASE BindBoolean /\ i' = i + 1
  <2> DEFINE content == IF passed[i][2] THEN 1 ELSE 0
  <2>1. Binding("boolean") /\ Bind("TINY", <<content>>)
    BY <1>3 DEF BindBoolean
  <2>2. passed[i][1] = "boolean"
    BY <2>1 DEF Binding
  <2>3. content \in Contents /\ <<"TINY", content>> = Meant(passed[i])
    BY <2>2 DEF Contents, Meant
  <2> HIDE DEF content
  <2>4. <<content>> \in Seq(Contents) /\ Len(<<content>>) = 1 /\ <<content>>[1] = content
    BY <2>3
  <2> QED
    BY <1>1, <1>3, <2>1, <2>3, <2>4, BindIInv
<1>4. CASE BindNumber /\ i' = i + 1
  <2> DEFINE content == passed[i][2]
  <2>1. Binding("number") /\ Bind("DOUBLE", <<content>>)
    BY <1>4 DEF BindNumber
  <2>2. passed[i][1] = "number" /\ passed[i] \in Arguments
    BY <2>1, Turn
  <2>3. content \in Contents /\ <<"DOUBLE", content>> = Meant(passed[i])
    BY <2>2 DEF Contents, Meant
  <2> HIDE DEF content
  <2>4. <<content>> \in Seq(Contents) /\ Len(<<content>>) = 1 /\ <<content>>[1] = content
    BY <2>3
  <2> QED
    BY <1>1, <1>4, <2>1, <2>3, <2>4, BindIInv
<1>5. CASE BindString /\ i' = i + 1
  <2> DEFINE content == passed[i][2]
  <2>1. Binding("string") /\ Bind("BLOB", <<content, "length">>)
    BY <1>5 DEF BindString
  <2>2. passed[i][1] = "string" /\ passed[i] \in Arguments
    BY <2>1, Turn
  <2>3. content \in Contents /\ <<"BLOB", content>> = Meant(passed[i])
    BY <2>2 DEF Contents, Meant
  <2>4. "length" \in Contents
    BY DEF Contents
  <2> HIDE DEF content
  <2>5. /\ <<content, "length">> \in Seq(Contents) /\ Len(<<content, "length">>) = 2
        /\ <<content, "length">>[1] = content
    BY <2>3, <2>4
  <2> QED
    BY <1>1, <1>5, <2>1, <2>3, <2>5, BindIInv
<1>6. CASE BindNil /\ i' = i + 1
  BY <1>1, <1>6, BindNilIInv
<1> QED
  BY <1>2, <1>3, <1>4, <1>5, <1>6 DEF PopulateBind

-----------------------------------------------------------------------------
(* PushRow                                                                  *)

LEMMA PushRowIInv ==
  ASSUME IInv, PushRow
  PROVE  IInv'
<1>1. /\ i \in 1..Len(row) /\ Len(row) \in Nat /\ DOMAIN row = 1..Len(row)
      /\ i' = i + 1 /\ UNCHANGED <<passed, bindVars, row, is_nulls>>
      /\ fields' = [fields EXCEPT ![row[i].name] = PushColumn(row[i])]
  BY DEF IInv, PlacesOK, PushRow
<1>2. row # <<>> /\ arguments = <<>> /\ UNCHANGED <<arguments, buffers, valid>>
  <2>1. row # <<>>
    BY <1>1
  <2> QED
    BY <1>1, <2>1 DEF IInv, PlacesOK, bindVars
<1>3. row[i].name \in Names
  <2>1. row[i] \in Columns
    BY <1>1 DEF IInv, PlacesOK
  <2> QED
    BY <2>1 DEF Names
<1>4. DOMAIN fields = Names
  BY DEF IInv, PlacesOK
<1>5. \A name \in Names :
        fields'[name] = IF name = row[i].name THEN PushColumn(row[i]) ELSE fields[name]
  BY <1>1, <1>4, Zenon
<1>6. PlacesOK'
  <2>1. DOMAIN fields' = Names
    BY <1>1, <1>4
  <2> QED
    BY <1>1, <1>2, <2>1 DEF IInv, PlacesOK
<1>7. BuffersOK'
  BY <1>2 DEF IInv, BuffersOK
<1>8. ArgumentsOK'
  BY <1>2 DEF ArgumentsOK
<1>9. ASSUME NEW name \in Names
      PROVE  \/ fields'[name] = Nil /\ \A k \in ColumnsOf(name) : k >= i'
             \/ \E k \in ColumnsOf(name) :
                  /\ k < i' /\ fields'[name] = PushColumn(row[k])
                  /\ \A j \in ColumnsOf(name) : j > k => j >= i'
  <2>1. /\ \A k \in ColumnsOf(name) : k \in Nat /\ row[k].name = name
        /\ row[i].name = name => i \in ColumnsOf(name)
    BY <1>1 DEF ColumnsOf
  <2>2. CASE row[i].name = name
    <3>1. i < i' /\ fields'[name] = PushColumn(row[i])
      BY <1>1, <1>5, <2>2
    <3>2. \A j \in ColumnsOf(name) : j > i => j >= i'
      BY <1>1, <2>1
    <3> QED
      BY <2>1, <2>2, <3>1, <3>2
  <2>3. CASE row[i].name # name
    <3>1. fields'[name] = fields[name]
      BY <1>5, <2>3
    <3>2. \A j \in ColumnsOf(name) : j # i
      BY <2>1, <2>3
    <3>3. \A j \in ColumnsOf(name) : (j >= i => j >= i') /\ (j < i => j < i')
      BY <1>1, <2>1, <3>2
    <3>4. \/ fields[name] = Nil /\ \A k \in ColumnsOf(name) : k >= i
          \/ \E k \in ColumnsOf(name) :
               /\ k < i /\ fields[name] = PushColumn(row[k])
               /\ \A j \in ColumnsOf(name) : j > k => j >= i
      BY <1>2 DEF IInv, FieldsOK
    <3> QED
      BY <3>1, <3>3, <3>4
  <2> QED
    BY <2>2, <2>3
<1>10. FieldsOK'
  <2>1. \A c : PushColumn(c)' = PushColumn(c)
    BY <1>1 DEF PushColumn
  <2>2. \A name : ColumnsOf(name)' = ColumnsOf(name)
    BY <1>1 DEF ColumnsOf
  <2>3. row' = row
    BY <1>1
  <2> QED
    BY <1>9, <2>1, <2>2, <2>3 DEF FieldsOK
<1> QED
  BY <1>6, <1>7, <1>8, <1>10 DEF IInv

LEMMA NextIInv == IInv /\ [Next]_vars => IInv'
<1> SUFFICES ASSUME IInv, [Next]_vars PROVE IInv'
  OBVIOUS
<1>1. CASE UNCHANGED vars
  BY <1>1, Unmoved DEF vars, bindVars
<1> QED
  BY <1>1, PopulateBindIInv, PushRowIInv DEF Next, Over

LEMMA Invariance == Spec => []IInv
BY InitIInv, NextIInv, PTL DEF Spec

-----------------------------------------------------------------------------
(* Parameters                                                               *)

LEMMA BoundFaithful == IInv => ParametersFaithful
<1> SUFFICES ASSUME IInv, Bound, NEW k \in DOMAIN arguments
             PROVE  /\ {arguments[k].is_null, arguments[k].buffer, arguments[k].length} \ {0}
                         \subseteq valid
                    /\ Sent(arguments[k]) =
                         IF k <= Len(passed) THEN Meant(passed[k]) ELSE Null
  BY DEF ParametersFaithful
<1>1. /\ k \in 1..Len(arguments) /\ Len(arguments) \in Nat /\ Len(buffers) \in Nat
      /\ k \in 1..Len(buffers) /\ valid = 1..Len(buffers) /\ Len(passed) \in Nat
  BY DEF IInv, BuffersOK, PlacesOK
<1>2. row = <<>> /\ i \in Nat /\ i <= Len(passed) + 1
  <2>1. Len(arguments) # 0
    BY <1>1
  <2> QED
    BY <2>1 DEF IInv, PlacesOK
<1>3. k < i <=> k <= Len(passed)
  BY <1>1, <1>2 DEF Bound
<1>4. IF k < i /\ passed[k][1] # "nil" THEN Set(k) ELSE Unset(k)
  BY DEF IInv, ArgumentsOK
<1>5. CASE Set(k) /\ k < i
  <2>1. arguments[k].buffer \in 1..Len(buffers)
    BY <1>1, <1>5 DEF Set
  <2> QED
    BY <1>1, <1>3, <1>5, <2>1 DEF Set, Sent
<1>6. CASE Unset(k)
  <2>1. Sent(arguments[k]) = Null
    BY <1>6 DEF Unset, Sent
  <2>2. k <= Len(passed) => Meant(passed[k]) = Null
    <3>1. CASE k < i /\ passed[k][1] # "nil"
      BY <1>4, <1>6, <3>1 DEF Set, Unset
    <3>2. CASE passed[k][1] = "nil"
      BY <3>2 DEF Meant
    <3> QED
      BY <1>3, <3>1, <3>2
  <2> QED
    BY <1>1, <1>6, <2>1, <2>2 DEF Unset
<1> QED
  BY <1>4, <1>5, <1>6

(* Every parameter of an execution is sent the argument in its place, NULL  *)
(* for a missing one and a nil, from buffers nothing moved or overwrote     *)
(* since, however many parameters and arguments there are.                  *)
THEOREM Parameters == Spec => []ParametersFaithful
BY Invariance, BoundFaithful, PTL

-----------------------------------------------------------------------------
(* Rows                                                                     *)

(* The greatest of a set of numbers, when it has one.                       *)
LEMMA MaxOf ==
  ASSUME NEW S \in SUBSET Nat, NEW m \in S, \A k \in S : m >= k
  PROVE  Max(S) = m
<1>1. Max(S) \in S /\ \A k \in S : Max(S) >= k
  BY Zenon DEF Max
<1>2. Max(S) \in Nat /\ m \in Nat /\ m >= Max(S) /\ Max(S) >= m
  BY <1>1
<1> QED
  BY <1>2

(* One byte is its own value.  The fold of Number is a recursive function,  *)
(* iter, chosen to satisfy Step; g0 shows that there is one.                *)
LEMMA NumberOne ==
  ASSUME Bytes \in Nat, NEW b \in Nat
  PROVE  Number(<<b>>) = b
<1> DEFINE Step(g) == [s \in SUBSET {1} |->
                         IF s = {} THEN 0
                         ELSE LET x == Max(s) IN g[s \ {x}] * Bytes + <<b>>[x]]
           g0 == [s \in SUBSET {1} |-> IF s = {} THEN 0 ELSE b]
           iter == CHOOSE g : g = Step(g)
<1>1. Number(<<b>>) = iter[DOMAIN <<b>>]
  BY DEF Number, FoldLeft, MapThenFoldSet
<1>2. Max({1}) = 1
  BY MaxOf
<1>3. g0 = Step(g0)
  <2>1. ASSUME NEW s \in SUBSET {1}
        PROVE  g0[s] = IF s = {} THEN 0
                       ELSE LET x == Max(s) IN g0[s \ {x}] * Bytes + <<b>>[x]
    <3>1. s = {} \/ s = {1}
      OBVIOUS
    <3>2. g0[{}] = 0 /\ {1} \ {1} = {}
      OBVIOUS
    <3>3. CASE s = {}
      BY <3>3
    <3>4. CASE s = {1}
      <4>1. g0[s] = b /\ g0[s \ {Max(s)}] = 0 /\ <<b>>[Max(s)] = b
        BY <3>2, <3>4, <1>2
      <4>2. s # {}
        BY <3>4
      <4>3. 0 * Bytes + b = b
        OBVIOUS
      <4> HIDE DEF g0
      <4> QED
        BY <4>1, <4>2, <4>3, Zenon
    <3> QED
      BY <3>1, <3>3, <3>4
  <2> QED
    BY <2>1, Zenon
<1>4. iter = Step(iter)
  <2>1. \E g : g = Step(g)
    BY <1>3, Zenon
  <2> HIDE DEF Step
  <2> QED
    BY <2>1, Zenon
<1> HIDE DEF iter
<1>5. iter[{}] = 0
  BY <1>4
<1>6. iter[{1}] = iter[{1} \ {Max({1})}] * Bytes + <<b>>[Max({1})]
  BY <1>4
<1>7. {1} \ {1} = {}
  OBVIOUS
<1>8. DOMAIN <<b>> = {1}
  OBVIOUS
<1> QED
  BY <1>1, <1>2, <1>5, <1>6, <1>7, <1>8

(* A value that can be represented is converted to what it means.           *)
LEMMA ColumnFaithful ==
  ASSUME NEW c \in Columns, Representable(c)
  PROVE  PushColumn(c) = Image(c)
<1>1. /\ c.type \in {"number", "bit", "null", "text"}
      /\ c.type = "null" => c.value = Null
      /\ c.type \in {"number", "bit"} => c.value # Empty
      /\ c.type = "number" /\ c.value # Null => c.value \in 0..2 * MaxExact
      /\ c.type = "bit" /\ c.value # Null => c.value \in Seq(0..Bytes - 1) /\ c.value # <<>>
      /\ Bytes \in Nat /\ MaxExact \in Nat
  BY ValuesAssumption DEF ValuesAssumption
<1>2. CASE c.value = Null
  <2>1. Image(c) = Nil
    BY <1>2 DEF Image
  <2>2. is_nulls \/ c.type = "null"
    BY <1>2 DEF Representable
  <2> QED
    BY <1>2, <2>1, <2>2 DEF PushColumn, PushField
<1>3. CASE c.value # Null /\ c.type = "number"
  <2>1. Image(c) = <<"number", c.value>>
    BY <1>3 DEF Image
  <2>2. c.value <= MaxExact \/ c.value % 2 = 0
    BY <1>3 DEF Representable
  <2>3. Atof(c.value) = c.value
    BY <1>1, <1>3, <2>2 DEF Atof, Double
  <2> QED
    BY <1>3, <2>1, <2>3 DEF PushColumn, PushField, Field
<1>4. CASE c.value # Null /\ c.type = "bit"
  <2>1. Image(c) = <<"number", Number(c.value)>>
    BY <1>4 DEF Image
  <2>2. Number(c.value) < Bytes \div 2 /\ Len(c.value) = 1
    BY <1>4 DEF Representable
  <2>3. PICK b \in 0..Bytes - 1 : c.value = <<b>>
    BY <1>1, <1>4, <2>2
  <2>4. Number(c.value) = b
    BY <1>1, <2>3, NumberOne
  <2>5. FirstByte(c.value) = b
    <3>1. Head(c.value) = b /\ b < Bytes \div 2 /\ c.value # Empty
      BY <1>1, <1>4, <2>2, <2>3, <2>4
    <3> QED
      BY <3>1 DEF FirstByte, SignedChar
  <2> QED
    BY <1>4, <2>1, <2>4, <2>5 DEF PushColumn, PushField, Field
<1>5. CASE c.value # Null /\ c.type = "text"
  BY <1>5 DEF Image, PushColumn, PushField, Field
<1> QED
  BY <1>1, <1>2, <1>3, <1>4, <1>5

LEMMA PushedFaithful == IInv => RowFaithful
<1> SUFFICES ASSUME IInv, row # <<>>, i > Len(row), NEW name \in Names
             PROVE  IF ColumnsOf(name) = {} THEN fields[name] = Nil
                    ELSE Representable(LastColumn(name)) =>
                           fields[name] = Image(LastColumn(name))
  BY DEF RowFaithful
<1>1. \A k \in ColumnsOf(name) : k \in Nat /\ k < i /\ row[k] \in Columns
  BY DEF IInv, PlacesOK, ColumnsOf
<1>2. \/ fields[name] = Nil /\ \A k \in ColumnsOf(name) : k >= i
      \/ \E k \in ColumnsOf(name) :
           /\ k < i /\ fields[name] = PushColumn(row[k])
           /\ \A j \in ColumnsOf(name) : j > k => j >= i
  BY DEF IInv, FieldsOK
<1>3. i \in Nat
  BY DEF IInv, PlacesOK
<1>4. CASE ColumnsOf(name) = {}
  BY <1>2, <1>4
<1>5. CASE ColumnsOf(name) # {}
  <2>1. PICK k \in ColumnsOf(name) :
          /\ fields[name] = PushColumn(row[k])
          /\ \A j \in ColumnsOf(name) : j > k => j >= i
    BY <1>1, <1>2, <1>3, <1>5
  <2>2. \A j \in ColumnsOf(name) : k >= j
    BY <1>1, <1>3, <2>1
  <2>3. LastColumn(name) = row[k]
    BY <1>1, <2>2, MaxOf DEF LastColumn
  <2>4. Representable(row[k]) => PushColumn(row[k]) = Image(row[k])
    BY <1>1, ColumnFaithful
  <2> QED
    BY <1>5, <2>1, <2>3, <2>4
<1> QED
  BY <1>4, <1>5

(* A row is a table of its columns by name, of columns with the same name   *)
(* the last, for every value the conversion does not lose; of any width,    *)
(* with and without NULL flags.                                             *)
THEOREM Rows == Spec => []RowFaithful
BY Invariance, PushedFaithful, PTL

=============================================================================
