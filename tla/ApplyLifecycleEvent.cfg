CONSTANTS
  Callers = {c1, c2}
SPECIFICATION Spec
INVARIANTS TypeOK
PROPERTIES TerminalOnlyRestarts ImplementsRegister
