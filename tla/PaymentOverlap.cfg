CONSTANTS
  Requests = {r1, r2}
  PayIds = {p1}
  Elsewhere = {}
  WebhookSecret = TRUE
  Calls = {"create", "verify", "forged", "webhook", "invoice"}
  NoPay = nopay
  MaxFailures = 1
SPECIFICATION FairSpec
INVARIANTS GatewayBacked AckedImpliesRecorded
PROPERTY EventuallyRecorded
