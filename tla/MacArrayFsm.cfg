CONSTANTS
  M = 4
  NOCH = 2
SPECIFICATION FairSpec
INVARIANTS
  TypeOK
  ZoneMatchesPixel
  PaddingCorrect
  TagNamesPixel
  DoneMeansDrained
  HalfUntilChannelEnd
PROPERTIES
  ReadsInStep
  ConvolutionEnds
