SPECIFICATION Spec
CONSTANTS
  Threads = {t1, t2}
  Files = {f1, f2}
  Stderr = Stderr
  None = None
  MAX_CALLBACKS = 1
  MaxLevel = 1
  MaxCalls = 1
INVARIANTS LinesWhole TimeIsOwn Delivered IInv
