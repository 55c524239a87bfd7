SPECIFICATION FairSpec
CONSTANTS
    p1 = p1
    p2 = p2
    a = a
    b = b
    NoPipe = NoPipe
    Pipes <- TwoPipes
    GraphOf <- ChainAndShortcut
    LaunchFails = TRUE
    MaxFetches = 2
    MaxSockets = 4
    MaxChoices = 4
    MaxClicks = 1
INVARIANTS ConnectedHasSocket ShownNotClosed Told TreeOfShown
PROPERTIES RunIsCarriedOut
CHECK_DEADLOCK FALSE
