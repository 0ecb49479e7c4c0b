SPECIFICATION Spec
CONSTANTS
  Width = 2
  Height = 2
  Packets <- MCPackets
  Scancodes = {30}
INVARIANTS TypeOK PointerFollows NoPhantomClick
PROPERTIES KeyEatenOnlyForPolled PressBecomesClick
