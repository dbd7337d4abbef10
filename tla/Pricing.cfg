SPECIFICATION Spec
CONSTANTS
    NoPromotion = NoPromotion
    MaxDates = 3
    Payloads <- MCPayloads
CHECK_DEADLOCK FALSE
INVARIANT TypeOK
INVARIANT FeesAddUp
INVARIANT DiscountsAddUp
INVARIANT DatesPricedAlone
