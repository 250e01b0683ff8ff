SPECIFICATION Spec
CONSTANTS
    MaxInt64 = 1023
    Commands <- MCCommands
    OtherDigits <- MCOtherDigits
    OtherCapitals <- MCOtherCapitals
    OtherSpaces <- MCOtherSpaces
    Uppercase <- MCUppercase
    PayerOpening = 800
    PayeeOpening = 500
    MaxPosts = 2
INVARIANTS  RetryTrue StoredAmountReads MoneyConserved CompensationFits
CHECK_DEADLOCK FALSE
