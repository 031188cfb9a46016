CONSTANTS
  w1 = w1
  c1 = c1
  r1 = r1
  b1 = b1
  k1 = k1
  Workers = {w1, w2}
  Mortal = {w1}
  Nobody = Nobody
  Broadcasts = {b1, k1}
  Campaigns = {k1}
  Recipients = {r1, r2}
  Callers = {c1, c2}
  MaxDeletions = 1
  MaxDrafts = 2
  MaxLaunches = 2
  Clients = {d1, d2}
  OtpMaxAttempts = 1
  MaxCodes = 2
  MaxTokens = 2
  AccountChanges = 1
  Requests = {q1, q2, q3}
  RequestLimit = 1
  Windows = 3
  Scenes = {"create", "send", "renew", "activate", "launch", "campaign", "signin", "limits"}
SPECIFICATION ServicesSpec
INVARIANTS
  ServicesTypeOK
  ProgressAddsUp
  QuotaIsHeld
  CampaignFollowsBroadcast
  AcceptedOnce
  SessionsHoldCurrentPassword
  WindowKeepsLimit
CHECK_DEADLOCK FALSE
