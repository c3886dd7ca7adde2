SPECIFICATION Spec
CONSTANTS
  Messages <- SomeMessages
  ForeignFrames <- SomeForeign
  MaxContenders = 2
INVARIANTS Understood Canonical NoCollision
PROPERTIES MostUrgentWins
