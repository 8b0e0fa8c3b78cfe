SPECIFICATION MCSpec
CONSTANTS
  Months <- MCMonths
  Totals = {0, 2}
  PayIds = {p1, p2}
  RefundIds = {r1}
  CreditIds = {c1}
  MaxRequests = 6
  Clerks = {t1, t2}
  Notices <- MCNotices
  MaxPeriods = 2
  MaxInvoices = 2
  MaxCheckouts = 1
  Credits = {0, 1}
  Charges = {0, 1, 2}
  MaxAsked = 5
  MaxBusy = 4
SYMMETRY FinanceSymmetry
INVARIANTS SerialLedgerSound BillsSound
PROPERTIES LockedPeriodKept
CHECK_DEADLOCK FALSE
