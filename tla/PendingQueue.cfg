\* Three containers, the event listener and one Leave handler; the clock passes
\* the maximal age twice.
SPECIFICATION Spec
CONSTANTS
  Name = {a, b, c}
  Registrar = {listener, leave}
  MaxAge = 1
  MaxTime = 3
INVARIANTS TypeOK UniqueNames ForwardFirst OrderedByAge MetaCoversQueue
PROPERTY ServesInOrder
