------------------------------ MODULE SimpleApi ------------------------------
(***************************************************************************)
(* Writer and Reader of the Simple API: a file is written by a sequence of *)
(* calls, some of which throw, closed, and opened again.                   *)
(*                                                                         *)
(* data3D and images2D are the two vectors of the file.  answer is the     *)
(* outcome of the last call.  The calls of a Reader change nothing, so     *)
(* each is made of a file that has just been opened.                       *)
(***************************************************************************)
EXTENDS SimpleWriter, SimpleReader

CONSTANTS
  Options,     \* [guid, coordinateMetadata]: WriterOptions
  ScanKits,    \* [header, coord, allocate, data]: the scans a caller may write
  MoreKits,    \* those of ScanKits that may come second
  PointKits,   \* [coord, data, count]: points for a scan that exists
  GroupKits,   \* [data, count]: groups
  ImageKits,   \* headers of images
  MoreImages,  \* those of ImageKits that may come second
  ByteKits,    \* [projection, type, bytes, start]: parts of images
  ByteRanges,  \* [projection, type, start, count]: parts read
  RawKits,     \* [rep, doConversion, doScaling, base, stride]: callers' own buffers
  RawFields,   \* the fields read through them
  ReadSizes,   \* capacities of the buffers points are read into
  MaxItems, MaxWrites   \* bounds on the scans and images, and on later writes

(***************************************************************************)
(* Headers, points and images are values of the structs of                 *)
(* E57SimpleData.h: what they have to be for the proofs.                   *)
(***************************************************************************)
IsData3D(h) ==
  /\ DOMAIN h = DOMAIN Data3D
  /\ h.texts \in [Texts -> STRING]
  /\ h.indexBounds \in [DOMAIN IndexBounds -> Int]
  /\ h.grouping \in [idElementName : STRING, groupsSize : Nat, pointCountSize : Nat]

IsImage2D(h) ==
  /\ DOMAIN h = DOMAIN Image2D
  /\ h.texts \in [ImageTexts -> STRING]
  /\ h.acquisitionDateTime.dateTimeValue \in Int
  /\ h.representations \in
       [Range(Representations) ->
          [jpegImage : Nat, pngImage : Nat, imageMask : Nat, geometry : Int]]
  /\ h.distortion \in Seq([cameraNumber : Int, CV : Int]) /\ Len(h.distortion) <= 1

ASSUME ScanAssumption == \A kit \in ScanKits : IsData3D(kit.header)
ASSUME ImageAssumption == \A h \in ImageKits : IsImage2D(h)

ASSUME ByteAssumption ==
  /\ \A kit \in ByteKits :
       /\ kit.projection \in Range(Representations) /\ kit.type \in ImageTypes
       /\ kit.bytes \in Seq(Int) /\ kit.start \in Nat
  /\ \A range \in ByteRanges :
       /\ range.projection \in Range(Representations) /\ range.type \in ImageTypes
       /\ range.start \in Nat /\ range.count \in Nat

ASSUME SizeAssumption == ReadSizes \subseteq Nat

VARIABLES phase, root, data3D, images2D, extensions, saturates, answer,
          log, imageLog, writes

\* What the caller gave, for each scan and image, and what came of it: log
\* and imageLog are history, as is writes, the number of later writes.
file == <<root, data3D, images2D, extensions>>
vars == <<phase, root, data3D, images2D, extensions, saturates, answer,
          log, imageLog, writes>>

Answer(op, index, error, value) ==
  [op |-> op, index |-> index, error |-> error, value |-> value]

\* The constructor of WriterImpl, given WriterOptions.
RootElements(options) ==
  Element("guid", Guid(options))
  ++ When(options.coordinateMetadata # "",
          Element("coordinateMetadata", options.coordinateMetadata))

Init ==
  /\ phase = "write"
  /\ root \in {RootElements(options) : options \in Options}
  /\ data3D = <<>> /\ images2D = <<>> /\ extensions = {}
  /\ saturates \in BOOLEAN
  /\ answer = Answer("none", 0, "none", 0)
  /\ log = <<>> /\ imageLog = <<>> /\ writes = 0

\* A scan or image after the first is from a smaller set.
Items == Len(data3D) + Len(images2D)
MayAdd(kit) == Items < MaxItems /\ (Items = 0 \/ kit \in MoreKits)
MayAddImage(h) == Items < MaxItems /\ (Items = 0 \/ h \in MoreImages)

\* The index a caller gives: that of a scan, or one too large.
Indices0(vector) == 0 .. Len(vector)

-----------------------------------------------------------------------------
(* Writing. *)

\* The header as the caller has it when it calls the writer.
HeaderOf(kit) ==
  IF kit.allocate THEN Data3DPointsData(kit.header, kit.coord)
  ELSE [error |-> "none", header |-> kit.header]

\* What is known of a scan after NewData3D.
Entry(h, auto, made) ==
  [header |-> [h EXCEPT !.guid = Guid(h)], auto |-> auto, made |-> made,
   wrote |-> "unwritten", coord |-> "double", data |-> <<>>, count |-> 0,
   groupsWrote |-> "unwritten", groups |-> <<>>, groupCount |-> 0]

\* The fields whose limits _fillMinMaxData computed.
Computed(before, after) ==
  (IF before.pointRangeMinimum # after.pointRangeMinimum
      \/ before.pointRangeMaximum # after.pointRangeMaximum
   THEN Cartesian \cup {"sphericalRange"} ELSE {})
  \cup (IF before.angleMinimum # after.angleMinimum
           \/ before.angleMaximum # after.angleMaximum THEN Angles ELSE {})
  \cup (IF before.timeMinimum # after.timeMinimum
           \/ before.timeMaximum # after.timeMaximum THEN {"timeStamp"} ELSE {})

\* Writer::NewData3D
NewScan(kit) ==
  /\ MayAdd(kit)
  /\ \E h \in {HeaderOf(kit)} :
       IF h.error # "none"
       THEN /\ answer' = Answer("Data3DPointsData", 0, h.error, 0)
            /\ UNCHANGED <<file, log>>
       ELSE \E r \in {NewData3D(h.header, saturates)} :
              /\ data3D' = Append(data3D, r.scan)
              /\ extensions' = extensions \cup r.extensions
              /\ log' = Append(log, Entry(h.header, {}, r.error))
              /\ answer' = Answer("NewData3D", Len(data3D), r.error, 0)
              /\ UNCHANGED <<root, images2D>>
  /\ UNCHANGED <<phase, saturates, imageLog, writes>>

\* Writer::WriteData3DData
WriteScan(kit) ==
  /\ MayAdd(kit)
  /\ \E h \in {HeaderOf(kit)} :
       IF h.error # "none"
       THEN /\ answer' = Answer("Data3DPointsData", 0, h.error, 0)
            /\ UNCHANGED <<file, log>>
       ELSE /\ Fillable(h.header, kit.coord, kit.data)
            /\ \E filled \in {FillMinMaxData(h.header, kit.coord, kit.data)} :
               \E r \in {NewData3D(filled, saturates)} :
               \E w \in IF r.error # "none" THEN {[error |-> "unwritten", vector |-> <<>>]}
                        ELSE WritePoints(r.scan["points"], kit.coord, kit.data,
                                         filled.pointCount, saturates) :
                 /\ data3D' = Append(data3D, IF r.error # "none" THEN r.scan
                                             ELSE [r.scan EXCEPT !["points"] = w.vector])
                 /\ extensions' = extensions \cup r.extensions
                 /\ log' = Append(log,
                      [Entry(filled, Computed(h.header.pointFields, filled.pointFields),
                             r.error) EXCEPT
                         !.wrote = w.error, !.coord = kit.coord, !.data = kit.data,
                         !.count = filled.pointCount])
                 /\ answer' = Answer("WriteData3DData", Len(data3D),
                                     IF r.error # "none" THEN r.error ELSE w.error, 0)
                 /\ UNCHANGED <<root, images2D>>
  /\ UNCHANGED <<phase, saturates, imageLog, writes>>

\* SetUpData3DPointsData of the Writer, write and close, for a scan that
\* exists; a new write replaces what an earlier one wrote.
WriteData(i, kit) ==
  /\ writes < MaxWrites
  /\ IF i = Len(data3D)
     THEN /\ answer' = Answer("WriteData", i, "ChildIndexOutOfBounds", 0)
          /\ UNCHANGED <<data3D, log>>
     ELSE IF "points" \notin DOMAIN data3D[i + 1]
     THEN /\ answer' = Answer("WriteData", i, "PathUndefined", 0)
          /\ UNCHANGED <<data3D, log>>
     ELSE \E w \in WritePoints(data3D[i + 1]["points"], kit.coord, kit.data, kit.count,
                               saturates) :
            /\ data3D' = [data3D EXCEPT ![i + 1]["points"] = w.vector]
            /\ log' = IF w.error \in {"BadAPIArgument", "NoBufferForElement"} THEN log
                      ELSE [log EXCEPT ![i + 1] =
                              [@ EXCEPT !.wrote = w.error, !.auto = {}, !.coord = kit.coord,
                                        !.data = kit.data, !.count = kit.count]]
            /\ answer' = Answer("WriteData", i, w.error, 0)
  /\ writes' = writes + 1
  /\ UNCHANGED <<phase, root, images2D, extensions, saturates, imageLog>>

\* WriteData3DGroupsData
WriteGroupsData(i, kit) ==
  /\ writes < MaxWrites
  /\ IF i = Len(data3D) \/ "pointGroupingSchemes" \notin DOMAIN data3D[i + 1]
     THEN /\ answer' = Answer("WriteGroupsData", i, "none", FALSE)
          /\ UNCHANGED <<data3D, log>>
     ELSE \E w \in WriteGroups(data3D[i + 1]["pointGroupingSchemes"].groups, kit.data,
                               kit.count, saturates) :
            /\ data3D' = [data3D EXCEPT ![i + 1]["pointGroupingSchemes"].groups = w.vector]
            /\ log' = [log EXCEPT ![i + 1] =
                         [@ EXCEPT !.groupsWrote = w.error, !.groups = kit.data,
                                   !.groupCount = kit.count]]
            /\ answer' = Answer("WriteGroupsData", i, w.error, w.error = "none")
  /\ writes' = writes + 1
  /\ UNCHANGED <<phase, root, images2D, extensions, saturates, imageLog>>

\* Writer::NewImage2D
NewImage(h) ==
  /\ MayAddImage(h)
  /\ images2D' = Append(images2D, NewImage2D(h).image)
  /\ extensions' = extensions \cup NewImage2D(h).extensions
  /\ imageLog' = Append(imageLog, [header |-> [h EXCEPT !.guid = Guid(h)], parts |-> <<>>])
  /\ answer' = Answer("NewImage2D", Len(images2D), "none", 0)
  /\ UNCHANGED <<phase, root, data3D, saturates, log, writes>>

\* Writer::WriteImage2DData, for an image that exists.
WriteImage(i, kit) ==
  /\ writes < MaxWrites
  /\ IF i = Len(images2D)
     THEN /\ answer' = Answer("WriteImage2DData", i, "none", 0)
          /\ UNCHANGED <<images2D, imageLog>>
     ELSE \E w \in {WriteImage2DData(images2D[i + 1], kit.projection, kit.type, kit.bytes,
                                     kit.start)} :
            /\ images2D' = [images2D EXCEPT ![i + 1] = w.image]
            /\ imageLog' = IF w.value = 0 THEN imageLog
                           ELSE [imageLog EXCEPT ![i + 1].parts = Append(@, kit)]
            /\ answer' = Answer("WriteImage2DData", i, w.error, w.value)
  /\ writes' = writes + 1
  /\ UNCHANGED <<phase, root, data3D, extensions, saturates, log>>

\* Writer::WriteImage2DData with a header: NewImage2D, then the data.
WriteNewImage(h, kit) ==
  /\ MayAddImage(h)
  /\ \E n \in {NewImage2D(h)} :
     \E w \in {WriteImage2DData(n.image, kit.projection, kit.type, kit.bytes, kit.start)} :
       /\ images2D' = Append(images2D, w.image)
       /\ extensions' = extensions \cup n.extensions
       /\ imageLog' = Append(imageLog, [header |-> [h EXCEPT !.guid = Guid(h)],
                                        parts |-> IF w.value = 0 THEN <<>> ELSE <<kit>>])
       /\ answer' = Answer("WriteImage2DData", Len(images2D), w.error, w.value)
  /\ UNCHANGED <<phase, root, data3D, saturates, log, writes>>

-----------------------------------------------------------------------------
(* The file, closed and opened.  Only floats change with their text. *)

StoreVector(vector) == [vector EXCEPT !.proto = StoreEach(@)]

StoreScan(scan) ==
  [name \in DOMAIN scan |->
     CASE name \in Weather -> Store(scan[name])
       [] name \in {"indexBounds", "intensityLimits", "colorLimits", "cartesianBounds",
                    "sphericalBounds"} -> StoreEach(scan[name])
       [] name = "points" -> StoreVector(scan[name])
       [] name = "pointGroupingSchemes" -> [scan[name] EXCEPT !.groups = StoreVector(@)]
       [] OTHER -> scan[name]]

\* The parser checks a leaf that has text against its bounds: the limits of
\* the intensity may be floats.  (The leaves of a prototype are 0, which is
\* not written, and those of the other boxes are exact.)
Legible(scan) ==
  "intensityLimits" \in DOMAIN scan =>
    \A leaf \in Range(scan["intensityLimits"]) :
      leaf.attr.value # 0 => ValidateValue(leaf.type, Store(leaf).attr)

\* Writer::Close, and the constructor of a Reader, which throws if a leaf
\* cannot be read.
CloseAndOpen ==
  /\ phase = "write"
  /\ IF \A i \in DOMAIN data3D : Legible(data3D[i])
     THEN /\ phase' = "read"
          /\ data3D' = [i \in DOMAIN data3D |-> StoreScan(data3D[i])]
          /\ answer' = Answer("none", 0, "none", 0)
     ELSE /\ phase' = "refused"
          /\ answer' = Answer("Reader", 0, "ValueOutOfBounds", 0)
          /\ UNCHANGED data3D
  /\ UNCHANGED <<root, images2D, extensions, saturates, log, imageLog, writes>>

-----------------------------------------------------------------------------
(* Reading. *)

Reads(op, i, error, value) ==
  /\ answer' = Answer(op, i, error, value)
  /\ UNCHANGED <<phase, root, data3D, images2D, extensions, saturates, log, imageLog, writes>>

Reading == phase = "read" /\ answer.op = "none"

\* Reader::GetE57Root
GetE57Root ==
  Reads("GetE57Root", 0, "none",
        [guid |-> root["guid"], coordinateMetadata |-> Get(root, "coordinateMetadata", ""),
         data3DSize |-> Len(data3D), images2DSize |-> Len(images2D)])

\* Reader::ReadData3D
ReadHeader(i) ==
  IF i = Len(data3D) THEN Reads("ReadData3D", i, "none", FALSE)
  ELSE \E r \in {ReadData3D(data3D[i + 1], extensions)} :
         Reads("ReadData3D", i, r.error, r.header)

\* Reader::GetData3DSizes
ReadScanSizes(i) ==
  IF i = Len(data3D) THEN Reads("GetData3DSizes", i, "none", FALSE)
  ELSE Reads("GetData3DSizes", i, GetData3DSizes(data3D[i + 1]).error,
             GetData3DSizes(data3D[i + 1]))

\* Reader::SetUpData3DPointsData and read.
ReadData(i, coord, size) ==
  IF i = Len(data3D) THEN Reads("ReadData", i, "ChildIndexOutOfBounds", FALSE)
  ELSE IF "points" \notin DOMAIN data3D[i + 1] THEN Reads("ReadData", i, "PathUndefined", FALSE)
  ELSE \E r \in {ReadPoints(data3D[i + 1]["points"], coord, Range(Fields), size,
                            extensions, saturates)} :
         Reads("ReadData", i, r.error, [coord |-> coord, size |-> size, values |-> r.values])

\* One field, through a buffer of the caller's own, of the only scan.
ReadRaw(i) ==
  /\ Items = 1 /\ i < Len(data3D) /\ "points" \in DOMAIN data3D[i + 1]
  /\ \E v \in {data3D[i + 1]["points"]} :
     \E field \in RawFields \cap DOMAIN v.proto, kit \in RawKits :
       IF CheckState(kit.rep, kit.base, kit.stride) # "none"
       THEN Reads("ReadRaw", i, CheckState(kit.rep, kit.base, kit.stride), FALSE)
       ELSE \E r \in {ReadVector(v, Element(field, Buffer(field, kit.rep, Empty(v.count),
                                                          kit.doConversion, kit.doScaling,
                                                          kit.stride)),
                                 saturates)} :
              Reads("ReadRaw", i, r.error, [field |-> field, kit |-> kit, values |-> r.values])

\* Reader::ReadData3DGroupsData
ReadGroupsData(i, size) ==
  IF i = Len(data3D) \/ "pointGroupingSchemes" \notin DOMAIN data3D[i + 1]
  THEN Reads("ReadGroupsData", i, "none", FALSE)
  ELSE \E r \in {ReadGroups(data3D[i + 1]["pointGroupingSchemes"].groups, size, saturates)} :
         Reads("ReadGroupsData", i, r.error, [size |-> size, values |-> r.values])

\* Reader::ReadImage2D
ReadImageHeader(i) ==
  IF i = Len(images2D) THEN Reads("ReadImage2D", i, "none", FALSE)
  ELSE Reads("ReadImage2D", i, "none", ReadImage2D(images2D[i + 1], extensions))

\* Reader::GetImage2DSizes
ReadImageSizes(i) ==
  IF i = Len(images2D) THEN Reads("GetImage2DSizes", i, "none", FALSE)
  ELSE Reads("GetImage2DSizes", i, "none", GetImage2DSizes(images2D[i + 1]))

\* Reader::ReadImage2DData
ReadImage(i, range) ==
  IF i = Len(images2D) THEN Reads("ReadImage2DData", i, "none", FALSE)
  ELSE \E r \in {ReadImage2DData(images2D[i + 1], range.projection, range.type,
                                 range.start, range.count)} :
         Reads("ReadImage2DData", i, r.error, [range |-> range, bytes |-> r.bytes])

-----------------------------------------------------------------------------
\* The operations of a Writer, until it is closed.
Write ==
  /\ phase = "write"
  /\ \/ \E kit \in ScanKits : NewScan(kit) \/ WriteScan(kit)
     \/ \E i \in Indices0(data3D) :
          \/ \E kit \in PointKits : WriteData(i, kit)
          \/ \E kit \in GroupKits : WriteGroupsData(i, kit)
     \/ \E h \in ImageKits : NewImage(h) \/ \E kit \in ByteKits : WriteNewImage(h, kit)
     \/ \E i \in Indices0(images2D), kit \in ByteKits : WriteImage(i, kit)

\* Those of a Reader.
Read ==
  /\ Reading
  /\ \/ GetE57Root
     \/ \E i \in Indices0(data3D) :
          \/ ReadHeader(i) \/ ReadScanSizes(i)
          \/ \E size \in ReadSizes :
               ReadGroupsData(i, size) \/ \E coord \in {"float", "double"} : ReadData(i, coord, size)
          \/ ReadRaw(i)
     \/ \E i \in Indices0(images2D) :
          \/ ReadImageHeader(i) \/ ReadImageSizes(i)
          \/ \E range \in ByteRanges : ReadImage(i, range)

Next == Write \/ CloseAndOpen \/ Read

Spec == Init /\ [][Next]_vars

-----------------------------------------------------------------------------
(* Properties. *)

\* Every vector has a leaf that its default value fits, a code within the
\* bits of the leaf for each of its records and, with no section, no record.
VectorOK(vector) ==
  /\ vector.section \in {"none", "bare", "packets"}
  /\ vector.section = "none" => vector.count = 0
  /\ \A f \in DOMAIN vector.proto : LET leaf == vector.proto[f] IN
       /\ ValidateValue(leaf.type, leaf.attr)
       /\ Len(vector.codes[f]) = vector.count
       /\ leaf.type # "Float" =>
            Range(vector.codes[f])
              \subseteq 0 .. (2^BitsNeeded(leaf.attr.minimum, leaf.attr.maximum) - 1)

\* Type invariant: what the Writer has made of the file so far.
TypeOK ==
  /\ phase \in {"write", "read", "refused"}
  /\ extensions \subseteq {"nor", "dist"} /\ saturates \in BOOLEAN
  /\ Len(log) = Len(data3D) /\ Len(imageLog) = Len(images2D)
  /\ Items <= MaxItems /\ writes <= MaxWrites
  /\ \A scan \in Range(data3D) :
       /\ "guid" \in DOMAIN scan
       /\ "points" \in DOMAIN scan => VectorOK(scan["points"])
       /\ "pointGroupingSchemes" \in DOMAIN scan =>
            VectorOK(scan["pointGroupingSchemes"].groups)

\* A Reader has been asked about a scan that is there.
Asked(op) == phase = "read" /\ answer.op = op /\ answer.index < Len(log)
Past == log[answer.index + 1]
Scan == data3D[answer.index + 1]

Distance(x, y) == IF x < y THEN y - x ELSE x - y

\* Only a time after the epoch is written.
KeptTime(time) == IF time.dateTimeValue > 0 THEN time ELSE NoTime

\* A limit as a leaf of the type keeps it: within half a scale, without its
\* fraction, as the eight digits of a float in range, or as it is.  One that
\* no int64_t holds is one of the extremes.
LimitKept(type, scale, given, got) ==
  CASE type = "Integer" ->
         got = ToReal(Truncate(given)) \/ ~InRep("Int64", Truncate(given))
    [] type = "ScaledInteger" ->
         \/ 2 * Distance(given, got) <= Distance(scale, 0)
         \/ scale = 0 \/ ~InRep("Int64", RoundedQuotient(given, scale))
    [] type = "Float" ->
         2 * Distance(Max({FLOAT_MIN, Min({FLOAT_MAX, given})}), got)
           <= FloatStep + DecimalStep
    [] type = "Double" -> got = given

\* The types and limits of the points, the angles and the times.
RangesKept(g, h) ==
  /\ g.fields \cap {"cartesianX", "sphericalRange"} # {} =>
       /\ h.pointRangeNodeType = g.pointRangeNodeType
       /\ LimitKept(g.pointRangeNodeType, g.pointRangeScale, g.pointRangeMinimum,
                    h.pointRangeMinimum)
       /\ LimitKept(g.pointRangeNodeType, g.pointRangeScale, g.pointRangeMaximum,
                    h.pointRangeMaximum)
  /\ "sphericalAzimuth" \in g.fields =>
       /\ h.angleNodeType = g.angleNodeType
       /\ LimitKept(g.angleNodeType, g.angleScale, g.angleMinimum, h.angleMinimum)
       /\ LimitKept(g.angleNodeType, g.angleScale, g.angleMaximum, h.angleMaximum)
  /\ "timeStamp" \in g.fields =>
       /\ h.timeNodeType = g.timeNodeType
       /\ g.timeNodeType \in {"Integer", "ScaledInteger"} =>
            /\ LimitKept(g.timeNodeType, g.timeScale, g.timeMinimum, h.timeMinimum)
            /\ LimitKept(g.timeNodeType, g.timeScale, g.timeMaximum, h.timeMaximum)
  /\ "rowIndex" \in g.fields => h.rowIndexMaximum = g.rowIndexMaximum
  /\ "columnIndex" \in g.fields => h.columnIndexMaximum = g.columnIndexMaximum
  /\ "returnIndex" \in g.fields => h.returnMaximum = g.returnMaximum

\* Colour limits are for numbers of 16 bits.
ColorsFit(g) ==
  \A c \in DOMAIN ColorLimits : Truncate(g.colorLimits[c]) \in 0 .. RepMax["UInt16"]

\* The limits of a colour come back, in the box if there are limits for red,
\* and else from the leaf of the colour.
ColorKept(g, h, field, low, high) ==
  LET box == g.colorLimits.colorRedMinimum # 0 \/ g.colorLimits.colorRedMaximum # 0
  IN  \A c \in {low, high} :
        h.colorLimits[c] = IF box \/ field \in g.pointFields.fields
                           THEN ToReal(Truncate(g.colorLimits[c])) ELSE 0

\* The limits of the intensity are floats, and one of them the largest or
\* the smallest there is.
IntensityExtreme(g) ==
  LET limits == Range(g.intensityLimits)
  IN  /\ g.pointFields.intensityNodeType = "Float"
      /\ limits \subseteq FLOAT_MIN .. FLOAT_MAX
      /\ \E x \in limits : Single(x) \in {FLOAT_MIN, FLOAT_MAX}

(***************************************************************************)
(* The header ReadData3D fills in is the one NewData3D was given: what is  *)
(* omitted because it has its default comes back as the default, and a     *)
(* limit is what its leaf can hold of it.  Bounds come as boxes: all of    *)
(* them if those of x, of the range or of red are given, or else none.     *)
(* The types and limits of points are those of x or the range, those of    *)
(* angles those of the azimuth; a time that is a float has no limits.      *)
(*                                                                         *)
(* A file is refused, and all its headers lost, exactly when an intensity  *)
(* limit is FLT_MAX or -FLT_MAX, written as a float: its eight digits are  *)
(* out of the bounds FloatNodeImpl holds them to when they are read.       *)
(***************************************************************************)
HeaderKept ==
  /\ phase # "write" =>
       (phase = "refused" <=> \E i \in DOMAIN log : IntensityExtreme(log[i].header))
  /\ Asked("ReadData3D") /\ Past.made = "none" =>
    LET g == Past.header
        h == answer.value
        b == g.cartesianBounds
        s == g.sphericalBounds
        intensity(bound) == LimitKept(g.pointFields.intensityNodeType,
                                      g.pointFields.intensityScale,
                                      g.intensityLimits[bound], h.intensityLimits[bound])
    IN  /\ answer.error = "none"
        /\ \A part \in {"guid", "texts", "originalGuids", "weather", "pose", "indexBounds"} :
             h[part] = g[part]
        /\ \A part \in {"acquisitionStart", "acquisitionEnd"} : h[part] = KeptTime(g[part])
        /\ h.pointCount = IF Past.wrote = "none" THEN Past.count ELSE 0
        /\ h.cartesianBounds = IF b.xMinimum = DOUBLE_MIN /\ b.xMaximum = DOUBLE_MAX
                               THEN CartesianBounds ELSE b
        /\ h.sphericalBounds = IF s.rangeMinimum = 0 /\ s.rangeMaximum = DOUBLE_MAX
                               THEN SphericalBounds ELSE s
        /\ h.pointFields.fields = g.pointFields.fields
        /\ RangesKept(g.pointFields, h.pointFields)
        /\ intensity("intensityMinimum") /\ intensity("intensityMaximum")
        /\ ColorsFit(g) =>
             /\ ColorKept(g, h, "colorRed", "colorRedMinimum", "colorRedMaximum")
             /\ ColorKept(g, h, "colorGreen", "colorGreenMinimum", "colorGreenMaximum")
             /\ ColorKept(g, h, "colorBlue", "colorBlueMinimum", "colorBlueMaximum")
        /\ h.grouping.groupsSize = IF Past.groupsWrote = "none" THEN Past.groupCount ELSE 0
        /\ g.grouping.idElementName # "" =>
             /\ h.grouping.idElementName =
                  IF g.grouping.idElementName = "rowIndex" THEN "rowIndex" ELSE "columnIndex"
             /\ h.grouping.pointCountSize = g.grouping.pointCountSize

\* What NewData3D makes of a scan: its elements, and of its vectors the
\* prototypes.
Outline(scan) ==
  [name \in DOMAIN scan |->
     CASE name = "points" -> scan[name].proto
       [] name = "pointGroupingSchemes" ->
            [idElementName |-> scan[name].idElementName, proto |-> scan[name].groups.proto]
       [] OTHER -> scan[name]]

(***************************************************************************)
(* A header ReadData3D can give back in full.  It takes the type and the   *)
(* limits of several fields from one of them: those of y and z from x, or  *)
(* from the range; the elevation's from the azimuth; the maximum of        *)
(* returnCount from returnIndex; the type of the intensity limits from the *)
(* intensity, or else it is Float.  A scale of 0, which only points and    *)
(* angles are checked for, makes no sense of the limits, and colour limits *)
(* are cut to 16 bits.  The groups and points a header announces are those *)
(* that have been written.  A box of limits that are 0 once they lose      *)
(* their fraction is not made again.                                       *)
(***************************************************************************)
Copyable(entry, scan) ==
  LET g == entry.header
      p == g.pointFields
  IN  /\ Cartesian \cap p.fields # {} => {"cartesianX", "sphericalRange"} \cap p.fields # {}
      /\ "sphericalElevation" \in p.fields => "sphericalAzimuth" \in p.fields
      /\ "returnCount" \in p.fields => "returnIndex" \in p.fields
      /\ "intensity" \in p.fields \/ p.intensityNodeType = "Float"
           \/ g.intensityLimits = IntensityLimits
      /\ p.intensityNodeType = "ScaledInteger" => p.intensityScale # 0
      /\ "timeStamp" \in p.fields /\ p.timeNodeType = "ScaledInteger" => p.timeScale # 0
      /\ ColorsFit(g)
      /\ "intensityLimits" \in DOMAIN scan =>
           \E leaf \in Range(scan["intensityLimits"]) : leaf.attr.value # 0
      /\ "colorLimits" \in DOMAIN scan =>
           \E bound \in {"colorRedMinimum", "colorRedMaximum"} :
             scan["colorLimits"][bound].attr.value # 0
      /\ g.grouping.idElementName # "" =>
           /\ entry.wrote = "none" /\ entry.count = g.pointCount
           /\ entry.groupsWrote = "none" /\ entry.groupCount = g.grouping.groupsSize

(***************************************************************************)
(* A scan whose header is Copyable can be copied: the header that          *)
(* ReadData3D yields, given to NewData3D, makes a scan with the same       *)
(* elements, types and limits, which can be read in turn.                  *)
(***************************************************************************)
CopyStable ==
  Asked("ReadData3D") /\ answer.error = "none" /\ Copyable(Past, Scan) =>
    \E copy \in {NewData3D(answer.value, saturates)} :
      /\ copy.error = "none"
      /\ Legible(copy.scan)
      /\ Outline(StoreScan(copy.scan)) = Outline(Scan)

\* The values are the first of those given, up to the capacity.
GroupsBack ==
  Asked("ReadGroupsData") /\ Past.groupsWrote = "none" =>
    /\ answer.error = "none"
    /\ \A f \in DOMAIN Past.groups :
         answer.value.values[f] =
           SubSeq(Past.groups[f], 1, Min({answer.value.size, Past.groupCount}))

(***************************************************************************)
(* Points and groups come back: as many as the buffers hold, in their      *)
(* order, and each value within half a scale, without its fraction for an  *)
(* Integer, and as a float where the leaf or the buffer is one, infinite   *)
(* if it is too large for a float.  Not kept are values no int64_t holds,  *)
(* which getNextInt64 lets pass for an Integer, and 2^63 also scaled, and  *)
(* those of a constant ScaledInteger, which are taken unscaled.  Scans of  *)
(* constant fields only are left out: their section has no packet, and     *)
(* they cannot be read at all.                                             *)
(***************************************************************************)
PointsKept ==
  /\ GroupsBack
  /\ Asked("ReadData") /\ Past.wrote = "none" /\ Scan["points"].section = "packets" =>
       /\ answer.error = "none"
       /\ DOMAIN answer.value.values = Past.header.pointFields.fields
       /\ \A f \in DOMAIN answer.value.values :
            LET values == answer.value.values[f]
                leaf == Scan["points"].proto[f]
                rep == BufferRep(f, answer.value.coord)
                scaled == leaf.type = "ScaledInteger"
                float == TypeOf(leaf) = "Float" \/ rep = "Real32"
                slack == (IF scaled THEN Distance(leaf.attr.scale, 0) ELSE 0)
                         + (IF float THEN FloatStep ELSE 0)
                whole == leaf.type = "Integer" /\ rep \in RealReps
                given(k) == IF whole THEN ToReal(Truncate(Past.data[f][k]))
                            ELSE Past.data[f][k]
                raw(k) == IF scaled THEN RoundedQuotient(given(k), leaf.attr.scale)
                          ELSE Truncate(given(k))
                kept(k) == IF scaled THEN raw(k) * leaf.attr.scale ELSE given(k)
            IN  /\ Len(values) = Min({answer.value.size, Past.count})
                /\ \A k \in DOMAIN values :
                     \/ 2 * Distance(values[k], given(k)) <= slack
                     \/ scaled /\ IsConstant(leaf)
                     \/ (scaled \/ whole) /\ ~InRep("Int64", raw(k))
                     \/ /\ float /\ Single(kept(k)) \notin FLOAT_MIN .. FLOAT_MAX
                        /\ values[k] \notin DOUBLE_MIN .. DOUBLE_MAX

(***************************************************************************)
(* A call that throws leaves no points behind: a scan of which NewData3D   *)
(* gave up is refused by every call of the Reader, and one whose last      *)
(* write threw, or that was never written, has no records.  It keeps its   *)
(* place, so that the indices of the others are right.                     *)
(***************************************************************************)
FailureLeavesNoPoints ==
  /\ answer.op = "GetE57Root" => /\ answer.value.data3DSize = Len(log)
                                 /\ answer.value.images2DSize = Len(imageLog)
  /\ \A op \in {"ReadData3D", "GetData3DSizes", "ReadData"} :
       Asked(op) /\ Past.made # "none" => answer.error = "PathUndefined"
  /\ Asked("ReadData3D") /\ Past.made = "none" /\ Past.wrote # "none" =>
       answer.value.pointCount = 0
  /\ Asked("GetData3DSizes") /\ Past.made = "none" /\ Past.wrote # "none" =>
       answer.value.pointsSize = 0
  /\ \/ Asked("ReadData") /\ Past.made = "none" /\ Past.wrote # "none"
     \/ Asked("ReadGroupsData") /\ "pointGroupingSchemes" \in DOMAIN Scan
        /\ Past.groupsWrote # "none"
     => \/ answer.error # "none"
        \/ \A f \in DOMAIN answer.value.values : answer.value.values[f] = <<>>

\* The values of the fields have 0 between them, and raw values that fit.
SpansZero(entry, fields, scale) ==
  LET values == {entry.data[f][k] : f \in fields, k \in 1 .. entry.count}
  IN  /\ \E x, y \in values : x <= 0 /\ 0 <= y
      /\ scale > 0 /\ \A x \in values : InRep("Int64", RoundedQuotient(x, scale))

\* So have those that limits were computed from: y and z only with x.
AutoSpansZero(entry) ==
  LET p == entry.header.pointFields
      points == (IF "cartesianX" \in p.fields THEN Cartesian ELSE {})
                \cup (p.fields \cap {"sphericalRange"})
  IN  /\ "cartesianX" \in entry.auto => SpansZero(entry, points, p.pointRangeScale)
      /\ "sphericalAzimuth" \in entry.auto => SpansZero(entry, Angles, p.angleScale)
      /\ "timeStamp" \in entry.auto => SpansZero(entry, {"timeStamp"}, p.timeScale)

(***************************************************************************)
(* Limits that _fillMinMaxData computed admit the points they were         *)
(* computed from: if writing them throws ErrorValueOutOfBounds, it is for  *)
(* the value of a field with limits of the caller's own.  A ScaledInteger  *)
(* of one value only is encoded unscaled.  And NewData3D, which gives each *)
(* leaf the value 0, takes limits computed from points on both sides of 0: *)
(* it throws only if it would without the fields they are for.             *)
(***************************************************************************)
FilledLimitsHold ==
  \A i \in DOMAIN log :
    /\ log[i].wrote = "ValueOutOfBounds" =>
         \E f \in log[i].header.pointFields.fields : LET leaf == data3D[i]["points"].proto[f] IN
           \/ f \notin log[i].auto /\ leaf.type # "Float"
           \/ f \in log[i].auto /\ IsConstant(leaf)
    /\ log[i].auto # {} /\ log[i].made # "none" /\ AutoSpansZero(log[i]) =>
         NewData3D([log[i].header EXCEPT !.pointFields.fields = @ \ log[i].auto],
                   saturates).error # "none"

\* The value of a record, as its leaf defines it.
StoredValue(leaf, code) ==
  IF leaf.type = "Float" THEN code
  ELSE ValueOf([leaf EXCEPT !.attr.value = leaf.attr.minimum + code])

\* Values that are stored in an integer they do not fit: a scaled one in an
\* int64_t, and of the values of a FloatNode the one above the maximum, where
\* the maximum is compared as a float or double that rounds up to it.
Unchecked(leaf, rep, doScaling, value) ==
  \/ /\ leaf.type = "ScaledInteger" /\ doScaling
     /\ rep = "Int64" /\ ~InRep(rep, Rounded(value))
  \/ /\ leaf.type = "Float" /\ value = ToReal(RepMax[rep] + 1)
     /\ \/ rep = "Int64"
        \/ rep \in {"Int32", "UInt32"} /\ leaf.attr.precision = "single"

(***************************************************************************)
(* A field is read through a buffer of any representation as the value it  *)
(* has, or as the raw integer if no scaling is asked for, or not at all:   *)
(* an integer is less than 1 away from it, a double exact and a float the  *)
(* nearest, infinite if there is none; a bool is its opposite.  It never   *)
(* wraps around in a representation it does not fit, but for the values    *)
(* that are Unchecked, which become the maximum or the minimum.            *)
(***************************************************************************)
NeverWraps ==
  Asked("ReadRaw") /\ answer.error = "none" =>
    LET kit == answer.value.kit
        f == answer.value.field
        leaf == Scan["points"].proto[f]
        codes == Scan["points"].codes[f]
        values == answer.value.values[f]
        value(k) == IF leaf.type = "ScaledInteger" /\ ~kit.doScaling
                    THEN ToReal(leaf.attr.minimum + codes[k])
                    ELSE StoredValue(leaf, codes[k])
    IN  /\ Len(values) = Len(codes)
        /\ \A k \in DOMAIN values :
             CASE kit.rep \in IntegerReps ->
                    IF Unchecked(leaf, kit.rep, kit.doScaling, value(k))
                    THEN values[k] \in {RepMin[kit.rep], RepMax[kit.rep]}
                    ELSE Distance(ToReal(values[k]), value(k)) < Unit
               [] kit.rep = "Bool" ->
                    values[k] = IF leaf.type = "Float" THEN value(k) = 0 ELSE Rounded(value(k)) = 0
               [] kit.rep = "Real32" ->
                    \/ 2 * Distance(values[k], value(k)) <= FloatStep
                    \/ /\ values[k] \notin FLOAT_MIN .. FLOAT_MAX
                       /\ Single(value(k)) \notin FLOAT_MIN .. FLOAT_MAX
               [] kit.rep = "Real64" -> values[k] = value(k)

(***************************************************************************)
(* GetData3DSizes describes the scan NewData3D was asked for: rows and     *)
(* columns are the extents of indexBounds, or else (also for an extent of  *)
(* 0) the number of lines and the points of a line, by the element the     *)
(* lines are numbered by; the groups are those that were written.          *)
(***************************************************************************)
SizesAgree ==
  Asked("GetData3DSizes") /\ Past.made = "none" =>
    LET g == Past.header.grouping
        b == Past.header.indexBounds
        sizes == answer.value
        grouped == g.idElementName # ""
        lines == IF grouped THEN g.groupsSize ELSE 0
        points == IF grouped THEN g.pointCountSize ELSE 0
        byRow == g.idElementName = "rowIndex"
        extent(low, high, other) ==
          IF (b[low] = 0 /\ b[high] = 0) \/ b[high] + 1 = b[low] THEN other
          ELSE b[high] - b[low] + 1
    IN  /\ sizes.row = extent("rowMinimum", "rowMaximum", IF byRow THEN lines ELSE points)
        /\ sizes.column =
             extent("columnMinimum", "columnMaximum", IF byRow THEN points ELSE lines)
        /\ sizes.bColumnIndex = (grouped /\ ~byRow)
        /\ sizes.groupsSize = IF Past.groupsWrote = "none" THEN Past.groupCount ELSE 0
        /\ sizes.countSize = points

\* The byte of an image that the last part to cover it wrote.
ByteOf(parts, projection, type, at) ==
  LET covering == {k \in DOMAIN parts : /\ parts[k].projection = projection
                                        /\ parts[k].type = type
                                        /\ at - parts[k].start \in DOMAIN parts[k].bytes}
      part == parts[Max(covering)]
  IN  IF covering = {} THEN 0 ELSE part.bytes[at - part.start]

(***************************************************************************)
(* An image comes back with one representation, the first that has a JPEG  *)
(* or PNG image, in which a JPEG image hides a PNG image, and its bytes    *)
(* are those last written; ReadImage2D, GetImage2DSizes and                *)
(* ReadImage2DData agree about it.                                         *)
(***************************************************************************)
ImagesKept ==
  answer.index < Len(imageLog) =>
    LET g == imageLog[answer.index + 1].header
        parts == imageLog[answer.index + 1].parts
        h == answer.value
        kept == IF Depicted(g) = {} THEN "none" ELSE Representations[Min(Depicted(g))]
        r == g.representations[kept]
        type == IF r.jpegImage > 0 THEN "jpegImage" ELSE "pngImage"
    IN  /\ answer.op = "ReadImage2D" =>
             /\ \A part \in {"guid", "texts", "pose"} : h[part] = g[part]
             /\ h.acquisitionDateTime = KeptTime(g.acquisitionDateTime)
             /\ \A name \in Range(Representations) :
                  h.representations[name] =
                    IF name # kept THEN NoRepresentation
                    ELSE [r EXCEPT !.pngImage = IF r.jpegImage > 0 THEN 0 ELSE @]
             /\ Len(h.distortion) = Len(g.distortion)
             /\ g.distortion # <<>> =>
                  h.distortion[1] = [g.distortion[1] EXCEPT !.cameraNumber = Max({@, 0})]
        /\ answer.op = "GetImage2DSizes" =>
             /\ h.value = (kept # "none")
             /\ h.value => h.projection = kept /\ h.type = type /\ h.imageSize = r[type]
        /\ answer.op = "ReadImage2DData" =>
             \A k \in DOMAIN h.bytes :
               h.bytes[k] = ByteOf(parts, h.range.projection, h.range.type, h.range.start + k)
=============================================================================
