SPECIFICATION Spec
CONSTANTS
  None = None
  Torn = Torn
  Size = 2
  Decoded <- DocumentOf
  Histories <- Published
  Numbers <- TwoEach
  InPlace = {"manifest.json"}
INVARIANTS
  TypeOK
  AcceptedIsOneRelease
  ReadWasThere
  AcceptedIsSound
\* The command ends and the publisher has nothing left to publish.
CHECK_DEADLOCK FALSE
