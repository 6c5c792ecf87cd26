SPECIFICATION FairSmsSpec
CONSTANTS
  Null = Null
  Sms = {m1}
  Handler = {h1, h2}
  Kinds <- CodeAndTemplate
  Setups <- BothSetups
  Consumers = 1
  MaxAttempts = 2
  MaxStatusChecks = 1
  OtpWindow = 1
  MaxTime = 1
  MaxOutages = 1
  MaxFaults = 1
INVARIANTS NeverLost NoSecondSms AttemptsAreBudgeted
PROPERTIES QueueDrains RecordIsResolved
CHECK_DEADLOCK FALSE
