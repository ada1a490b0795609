\* Every job ends within its TTL; processes die, answers are lost.
SPECIFICATION FairLockSpec
CONSTANTS
  s1 = s1
  s2 = s2
  a1 = a1
  Executions = {s1, s2, a1}
  Names <- MCNames
  NameOf <- MCCodeNames
  Asked <- MCTTL
  MayOverrun = FALSE
  Failures = {"die", "lost_answer"}
  Nobody = Nobody
INVARIANTS
  LockTypeOK
  NoDoubleExecution
PROPERTIES
  LockNotStuck
