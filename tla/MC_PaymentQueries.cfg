\* Two calls of the payment API, two chats, three server invoices.
CONSTANTS
    Requests = {r1, r2}
    Dialogs = {d1, d2}
    NoDialog = NoDialog
    MaxAmount <- MCMaxAmount
    Sentinel <- MCSentinel
    RawInvoices <- MCRawInvoices
SPECIFICATION Spec
\* The model has a bounded number of calls: once each is answered, or Td
\* has closed, nothing is left to happen.
CHECK_DEADLOCK FALSE
INVARIANTS
    ResolvedOnceWhenDone
    DialogErrorsReported
    DeliveredAmountsSane
    DeliveredTipsSane
PROPERTIES
    EveryCallAnswered
