SPECIFICATION Spec
CONSTANTS
  h1 = h1
  h2 = h2
  Handlers = {h1, h2}
  Principal = Principal
  Nadie = Nadie
  MaxSenales = 1
  MaxLlamadas = 0
INVARIANT DestructorApaga
CHECK_DEADLOCK FALSE
