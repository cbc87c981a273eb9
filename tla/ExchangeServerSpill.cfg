SPECIFICATION Spec
CONSTANTS
  Fds = {f1, f2}
  MsgLen = 2
  GreetingSizes = {2}
  DROP_BYTES = 3
  SizeMod = 16
  MaxConns = 2
  MaxMsgs = 2
INVARIANT SpilledIsArmed
SYMMETRY FdSymmetry
CHECK_DEADLOCK FALSE
