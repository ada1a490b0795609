\* Two overlapping runs about one alert; calls may fail.
SPECIFICATION Spec
CONSTANTS
  f1 = f1
  Alerts = {x1}
  Users = {f1}
  OwnerOf <- MCOwnerOf
  Workers = {w1, w2}
  MaxSms = 3
  Cooldown = 2
  MaxRun = 2
  MaxTime = 6
  MayFail = TRUE
  Never = Never
  None = None
INVARIANTS
  TypeOK
  CooldownKept
  CountExact
  CooldownHasCause
  QuietAfterOff
