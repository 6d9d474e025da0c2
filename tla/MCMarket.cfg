CONSTANTS
    ann = ann
    bob = bob
    Players = {ann, bob}
    Amounts = {1, 2}
    Prices = {1}
    Fee = 1
    Wealth <- MCWealth
    MaxOffers = 2
    MaxChecks = 2
SPECIFICATION FairSpec
INVARIANTS
    TypeOK
    Conserved
PROPERTY ExpiredComesBack
CHECK_DEADLOCK FALSE
