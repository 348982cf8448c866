SPECIFICATION WaySpec
CONSTANTS
    Sockets = {1, 2}
    MaxDelay = 30
    MaxErrors = 12
INVARIANTS
    ClientIsSound
PROPERTIES
    ViewSettles
    ComesBack
