\* What an evidence bundle says of its child refund.
SPECIFICATION Spec
CONSTANTS
  Outpoints = {u1}
  NamedOutpoint = u1
  NoOutpoint = none
  MinConfirmations = 1
  RefundDelay = 3
  MaxReorgs = 0
  MaxFailures = 0
INVARIANT BundleRefundIsTimelocked
CHECK_DEADLOCK FALSE
