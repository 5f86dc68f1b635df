SPECIFICATION Spec
CONSTANTS
  Queues = {q1, q2}
  Elems = {e1, e2, e3, e4}
  NULL = NULL
INVARIANTS TypeOK fila_correta OwnedByOneQueue
PROPERTIES ImplementsSequences
