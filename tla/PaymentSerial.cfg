CONSTANTS
  Requests = {r1}
  PayIds = {p1}
  Elsewhere = {e1}
  WebhookSecret = FALSE
  Calls = {"create", "verify", "forged", "webhook", "unsigned", "confirm", "decline", "refund", "invoice", "cancel", "deliver", "placed", "payment_received", "accepted", "out_for_delivery", "delivered", "cancelled"}
  NoPay = nopay
  MaxFailures = 2
SPECIFICATION Spec
SYMMETRY Symmetry
INVARIANTS TypeOK PaidRowsAgree
PROPERTY RazorpayKeepsPaid
