SPECIFICATION FairSpec
CONSTANTS
    MaxSeats = 1
    Hold = 1
    MaxFaults = 1
PROPERTY
    UnpaidIsAlwaysReleased
