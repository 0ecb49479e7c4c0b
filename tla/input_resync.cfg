SPECIFICATION Spec
CONSTANTS
  Width = 2
  Height = 2
  Packets <- MCSlides
  Scancodes = {30}
PROPERTY Resyncs
