SPECIFICATION RecloseSpec
CONSTANTS
  CV = {c1, c2}
  Blob = {b1}
  Handle = {h1, h2}
  BlobSize = 1
  XmlSize = 2
  PageSize = 4
  MaxRecords = 2
  MaxUnused = 6
SYMMETRY Symmetry
INVARIANT CountsMatch
