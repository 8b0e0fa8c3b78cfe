SPECIFICATION MCSpec
CONSTANTS
  Notifications = {n1}
  Channels = {email, push, sms}
  Workers = {w1, w2}
  MaxAttempts = 2
  MaxLost = 1
  MaxCrashes = 1
  Mails = {m1}
  Senders = {s1, s2}
  Requests = {r1, r2}
  MaxChanges = 4
  MaxStops = 1
  MaxBusy = 4
INVARIANTS StatusTrue SentOncePerLoss SentOncePerClaim
PROPERTIES ImplementsQueue NotificationCompletes MailEnds
CHECK_DEADLOCK FALSE
