\* Three handlers: one that fires, one that replaces it, one for the other
\* outcome; of four attachments two can be early and two late.
CONSTANTS
  h1 = h1
  h2 = h2
  h3 = h3
  None = None
  MaxAttached = 4
  Handlers = {h1, h2, h3}
SPECIFICATION Spec
INVARIANTS
  TypeOK
  OneHandlerForResult
  DueHandlerCalled
