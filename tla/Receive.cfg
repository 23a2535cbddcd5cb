SPECIFICATION Spec
CONSTANTS
  Descriptions = {"default", "own"}
  DefaultDescription = "default"
  Amounts = {0, 1}
  NoAmount = 0
  Entries <- MCEntries
  MaxRequests = 2
  MaxDeaths = 1
  MaxFails = 0
  MaxAways = 1
INVARIANTS DisplayIsOneRequest ConfirmedIsAsked PaidIsReplaced ReceivedIsRecorded
PROPERTY RequestAppears
