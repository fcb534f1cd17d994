\* The number of damages is bounded
CHECK_DEADLOCK FALSE
CONSTANTS
    Tables <- MCTables
    MaxByte = 2
    MaxDamages = 3
SPECIFICATION Spec
INVARIANTS DamageDetected ChangesLocated RootDistinguishes
