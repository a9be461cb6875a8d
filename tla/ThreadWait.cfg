SPECIFICATION Spec
CONSTANTS
  Waiter = {descriptors, device}
  Thread = {t1, t2, t3}
  Main = Main
  None = None
  Most = 2
  Blocks = {descriptors}
  CanFail = {descriptors, device}
INVARIANT TypeOK
INVARIANT OneThread
INVARIANT NothingUncounted
INVARIANT NoLostWakeup
PROPERTY DestroyEnds
PROPERTY ArrivalsRead
CHECK_DEADLOCK FALSE
