\* One handler, which example.lua tries to attach.
CONSTANTS
  h1 = h1
  None = None
  MaxAttached = 4
  Handlers = {h1}
SPECIFICATION Spec
INVARIANT MethodsAttach
