SPECIFICATION FairSpec
CONSTANTS
    MaxSeats = 2
    Hold = 2
    MaxFaults = 2
INVARIANTS
    TypeOK
    OneTimerPerBooking
    AbandonedOnlyByFault
PROPERTIES
    SeatContract
    UnpaidIsReleased
