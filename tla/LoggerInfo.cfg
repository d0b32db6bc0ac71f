CONSTANTS
  t1 = t1
  t2 = t2
  Thread = {t1, t2}
  UseLevel = {3, 6}
  Quota <- MCQuota
  MaxSet = 1
  Env <- MCEnv
SPECIFICATION Spec
INVARIANTS InfoHasItsFile
