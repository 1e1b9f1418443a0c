\* Two parameters and up to three arguments; rows of up to two columns of two
\* names, each value with one of every kind of conversion.
CONSTANTS
  Null = Null
  Empty = Empty
  a = a
  MaxArguments = 2
  MaxColumns = 2
  MaxExact = 4
  Bytes = 4
  Arguments <- MCArguments
  Columns <- MCColumns
SPECIFICATION Spec
INVARIANTS
  ParametersFaithful
  RowFaithful
