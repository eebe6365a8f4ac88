SPECIFICATION SpecData
CONSTANTS
  Alphabet = {0, 65, 73, 105, 254, 255}
  MaxLen = 4
  Edges = 1
  PayloadSize = 4
\* Of the settings: one of each kind.
CONSTANTS
  Fields = {"peer", "device", "user_version", "capture", "control", "audio", "cert", "key"}
  Flags = {"capture"}
  Emulated = {"device", "user_version"}
  Zero = "zero"
  Absent = "absent"
  Bad = "bad"
  Default <- DefaultOf
  Slashed <- WithSlash
  Files <- SomeFiles
\* Of the converters: pieces of up to four samples, signals of up to six.
CONSTANTS
  RatePairs <- SomeRates
  InputSamples <- SomeSamples
  Coeffs <- SomeCoeffs
  MaxPiece = 4
  MaxLength = 6
\* Of the profile: names have three characters in an identity.
CONSTANTS
  Blank = "blank"
  Odd = "odd"
  Underscore = "underscore"
  Width = 3
  NameOf <- DefaultName
  Port = "net3"
  Nil = Nil
  Configs <- SomeConfigs
  Codes <- SomeCodes
  AutoDevice = "auto"
INVARIANTS
  FramesRoundTrip
  CodecNearest
  LabelsKeyed
  SettingsMerge
  PiecesDontMatter
  ProfileRead
CHECK_DEADLOCK FALSE
