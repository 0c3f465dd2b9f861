\* Two wrong guesses lock for two steps of the clock.
SPECIFICATION Spec
CONSTANTS
  MaxFails = 2
  Window = 2
INVARIANTS TypeOK GuessesBounded OwnPasswordFirst
PROPERTY TakesOnlyAllowed
