SPECIFICATION Spec
CONSTANTS
  INT64_MIN <- Int64Min
  INT64_MAX = 15
  FLOAT_MIN <- FloatMin
  FLOAT_MAX = 98
  DOUBLE_MIN <- DoubleMin
  DOUBLE_MAX = 102
  FloatStep = 2
  DecimalStep = 3
  Unit = 6
  RepMin <- MCRepMin
  RepMax <- MCRepMax
  HalfPi = 9
  ScanKits <- MCScanKits
  MoreKits <- MCMoreKits
  PointKits <- MCPointKits
  GroupKits <- MCGroupKits
  ImageKits <- MCImageKits
  MoreImages <- MCMoreImages
  ByteKits <- MCByteKits
  ByteRanges <- MCByteRanges
  Options <- MCOptions
  RawKits <- MCRawKits
  RawFields <- MCRawFields
  ReadSizes = {1, 3}
  MaxItems = 2
  MaxWrites = 1
INVARIANTS
  TypeOK
  HeaderKept
  CopyStable
  PointsKept
  FailureLeavesNoPoints
  FilledLimitsHold
  NeverWraps
  SizesAgree
  ImagesKept
CHECK_DEADLOCK FALSE
