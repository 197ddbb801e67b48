SPECIFICATION Spec
CONSTANTS
    Packets <- Somewhere
INVARIANTS StreamInStep ReadAsPut AllIsFound
