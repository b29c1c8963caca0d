CONSTANTS
    IntMax <- MCIntMax
    MaxPreciseMuteFor <- MCMaxPreciseMuteFor
    Clock <- MCClock
    MuteFors <- MCMuteFors
    ServerMuteUntils <- MCServerMuteUntils
SPECIFICATION Spec
INVARIANTS
    MuteHonoured
    LocalFieldsFollowClient
