SPECIFICATION MCSpec
\* Of the connection: queues of one, three messages of each writer.
CONSTANTS
  Writer = {"w1", "w2"}
  TextCap = 1
  AudioCap = 1
  MaxTexts = 3
  MaxFrames = 3
PROPERTIES
  ControlLeaves
  KeepsPromise
  SoundFlows
  Closes
CHECK_DEADLOCK FALSE
