CONSTANTS
  u1 = u1
  pay1 = pay1
  pay2 = pay2
  Workers = {w1, w2}
  Mortal = {w1}
  Nobody = Nobody
  Emails <- MCEmails
  MaxEmailAttempts = 2
  Payments = {pay1, pay2}
  Users = {u1}
  Payer <- MCPayer
  PlanOf <- MCPlanOf
  MonthsOf <- MCMonthsOf
  Calendar <- MCCalendar
  AdminEdits = 1
  Events = {e1}
  Endpoints = {x1}
  MaxOutboxAttempts = 1
  MaxDeliveryAttempts = 2
  EndpointChanges = 1
  ReplayedStatuses = {"CANCELLED"}
  Triggers = {t1, t2}
  MaxTriggerAttempts = 2
  ReplyLimit = 2
  RuleEdits = 1
  Pauses = 1
  Schedules = {s1}
  Plans <- MCPlans
  ActiveLimit = 1
  MaxScheduleAttempts = 2
  MaxVersion = 2
  MaxRun = 1
  Outages = 1
  Processes = {p1}
  Perishable = {p1}
  NoProcess = NoProcess
  Instances = {i1, i2}
  NoInstance = NoInstance
  MaxReconnects = 1
  OwnerCalls = 1
  Troubles = 1
  Components = {"emails", "payments", "webhooks", "replies", "schedules", "devices"}
SPECIFICATION ComponentsSpec
INVARIANTS
  ComponentsTypeOK
  ThrottleCountsReplies
  ClosedRunsAreQueued
  AttemptLogsAgree
  FanOutIsComplete
CHECK_DEADLOCK FALSE
