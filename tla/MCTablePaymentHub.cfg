SPECIFICATION HubSpec
CONSTANTS
    Players = {p1, p2}
    Hands = {0, 1}
    MaxCalls = 3
    Amounts <- MCAmounts
INVARIANTS
    HubTypeOK
    ReceiptsInOrder
    ReceiptsCoverBooks
    BooksBalance
PROPERTIES
    ImplementsLedger
    EveryTickIsReceipted
CHECK_DEADLOCK FALSE
