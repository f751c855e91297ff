---------------------------- MODULE SimpleReader ----------------------------
(***************************************************************************)
(* ReaderImpl.cpp: how the header, the sizes, the points and the groups of *)
(* a scan, and an image, are read back.  A call that throws yields its     *)
(* error; no call changes the file.                                        *)
(***************************************************************************)
EXTENDS SimpleData

-----------------------------------------------------------------------------
(* The header of a scan. *)

Has(box, name) == name \in DOMAIN box
Get(box, name, default) == IF Has(box, name) THEN box[name] ELSE default

\* The limits of a numeric leaf, as doubles.
LowOf(leaf) == ValueOf([leaf EXCEPT !.attr.value = leaf.attr.minimum])

\* Mutant: the raw maximum, not scaled.
HighOfRaw(leaf) ==
  IF leaf.type = "Float" THEN leaf.attr.maximum ELSE ToReal(leaf.attr.maximum)

HighOf(leaf) == ValueOf([leaf EXCEPT !.attr.value = leaf.attr.maximum])

\* The NumericalNodeType of a leaf.
TypeOf(leaf) ==
  IF leaf.type # "Float" THEN leaf.type
  ELSE IF leaf.attr.precision = "single" THEN "Float"
  ELSE "Double"

\* The values of a box of bounds: ScaledIntegers or Floats.
BoundsOf(scan, name, default) ==
  IF ~Has(scan, name) THEN default
  ELSE [bound \in DOMAIN default |-> ValueOf(scan[name][bound])]

\* indexBounds, where a minimum is read only with its maximum.
ReadIndexBounds(scan) ==
  LET box == Get(scan, "indexBounds", <<>>)
      pair(low, high) == IF Has(box, high)
                         THEN Element(low, box[low].attr.value)
                              ++ Element(high, box[high].attr.value)
                         ELSE <<>>
  IN  pair("rowMinimum", "rowMaximum") ++ pair("columnMinimum", "columnMaximum")
      ++ pair("returnMinimum", "returnMaximum") ++ IndexBounds

\* The number of groups is that of the records.
ReadGrouping(scan) ==
  IF ~Has(scan, "pointGroupingSchemes") THEN Data3D.grouping
  ELSE LET line == scan["pointGroupingSchemes"]
       IN  [idElementName |-> line.idElementName, groupsSize |-> line.groups.count,
            pointCountSize |-> line.groups.proto["pointCount"].attr.maximum]

\* The strings, originalGuids, temperature and so on, pose and times.
ReadDescription(scan) ==
  [Data3D EXCEPT
     !.guid = scan["guid"],
     !.texts = [name \in Texts |-> Get(scan, name, "")],
     !.originalGuids = Get(scan, "originalGuids", <<>>),
     !.weather = [name \in Weather |->
                    IF Has(scan, name) THEN ToFloat(ValueOf(scan[name])) ELSE FLOAT_MAX],
     !.pose = Get(scan, "pose", Identity),
     !.acquisitionStart = Get(scan, "acquisitionStart", NoTime),
     !.acquisitionEnd = Get(scan, "acquisitionEnd", NoTime)]

\* The type, scale and limits of the points, from cartesianX, or else from
\* sphericalRange.  An Integer leaves the defaults, with limits of 0.
ReadPointRange(p, proto) ==
  LET none == [p EXCEPT !.pointRangeMinimum = 0, !.pointRangeMaximum = 0]
      leaf == IF Has(proto, "cartesianX") THEN proto["cartesianX"] ELSE proto["sphericalRange"]
  IN  IF ~Has(proto, "cartesianX") /\ ~Has(proto, "sphericalRange") THEN none
      ELSE IF leaf.type = "Integer" THEN none
      ELSE [p EXCEPT !.pointRangeMinimum = LowOf(leaf), !.pointRangeMaximum = HighOf(leaf),
                     !.pointRangeNodeType = TypeOf(leaf),
                     !.pointRangeScale = IF leaf.type = "Float" THEN @ ELSE leaf.attr.scale]

\* The same of the angles, from sphericalAzimuth.
ReadAngles(p, proto) ==
  LET leaf == proto["sphericalAzimuth"]
  IN  IF ~Has(proto, "sphericalAzimuth")
      THEN [p EXCEPT !.angleMinimum = 0, !.angleMaximum = 0]
      ELSE [p EXCEPT !.angleMinimum = LowOf(leaf), !.angleMaximum = HighOf(leaf),
                     !.angleNodeType = TypeOf(leaf),
                     !.angleScale = IF leaf.type = "Float" THEN @ ELSE leaf.attr.scale]

\* static_cast of a maximum to the unsigned type of the header.
MaximumOf(proto, field, rep) ==
  IF Has(proto, field) THEN proto[field].attr.maximum % (RepMax[rep] + 1) ELSE 0

ReadIndexMaxima(p, proto) ==
  [p EXCEPT !.rowIndexMaximum = MaximumOf(proto, "rowIndex", "UInt32"),
            !.columnIndexMaximum = MaximumOf(proto, "columnIndex", "UInt32"),
            !.returnMaximum = MaximumOf(proto, "returnIndex", "UInt8")]

ReadTime(p, proto) ==
  LET leaf == proto["timeStamp"]
  IN  IF ~Has(proto, "timeStamp") THEN [p EXCEPT !.timeMinimum = 0, !.timeMaximum = 0]
      ELSE [p EXCEPT !.timeMinimum = LowOf(leaf), !.timeMaximum = HighOf(leaf),
                     !.timeNodeType = TypeOf(leaf),
                     !.timeScale = IF leaf.type = "ScaledInteger" THEN leaf.attr.scale ELSE @]

ReadIntensityType(p, proto) ==
  LET leaf == proto["intensity"]
  IN  IF ~Has(proto, "intensity") THEN p
      ELSE [p EXCEPT !.intensityNodeType = TypeOf(leaf),
                     !.intensityScale =
                       IF leaf.type = "ScaledInteger" THEN leaf.attr.scale ELSE @]

\* intensityLimits; those of the prototype where the limits have a maximum
\* of 0, and always if it is a float.
ReadIntensityLimits(scan, proto) ==
  LET box == BoundsOf(scan, "intensityLimits", IntensityLimits)
      leaf == proto["intensity"]
  IN  IF Has(proto, "intensity") /\ (leaf.type = "Float" \/ box.intensityMaximum = 0)
      THEN [intensityMinimum |-> LowOf(leaf), intensityMaximum |-> HighOf(leaf)]
      ELSE box

\* colorLimits and _readColourRanges, which casts the limits of the
\* prototype to uint16_t.
ReadColorLimits(scan, proto) ==
  LET box == BoundsOf(scan, "colorLimits", ColorLimits)
      wrap(n) == n % (RepMax["UInt16"] + 1)
      cut(leaf, n) == CASE leaf.type = "Integer" -> ToReal(wrap(n))
                        [] leaf.type = "ScaledInteger" ->
                             (wrap(n) * leaf.attr.scale) + leaf.attr.offset
                        [] leaf.type = "Float" -> ToReal(wrap(Truncate(n)))
      range(field, low, high) ==
        IF Has(proto, field) /\ box[high] = 0
        THEN Element(low, cut(proto[field], proto[field].attr.minimum))
             ++ Element(high, cut(proto[field], proto[field].attr.maximum))
        ELSE <<>>
  IN  range("colorRed", "colorRedMinimum", "colorRedMaximum")
      ++ range("colorGreen", "colorGreenMinimum", "colorGreenMaximum")
      ++ range("colorBlue", "colorBlueMinimum", "colorBlueMaximum") ++ box

\* The flags of the fields; those of the normals need their extension.
ReadFields(proto, extensions) ==
  (DOMAIN proto) \ (IF "nor" \in extensions THEN {} ELSE Normals)

\* ReadData3D: [error, header].
ReadData3D(scan, extensions) ==
  LET proto == scan["points"].proto
      p == [PointFields EXCEPT !.fields = ReadFields(proto, extensions)]
      typed == ReadIntensityType(ReadTime(ReadIndexMaxima(
                 ReadAngles(ReadPointRange(p, proto), proto), proto), proto), proto)
  IN  IF ~Has(scan, "points") THEN [error |-> "PathUndefined", header |-> Data3D]
      ELSE [error |-> "none",
            header |-> [ReadDescription(scan) EXCEPT
              !.pointCount = scan["points"].count,
              !.indexBounds = ReadIndexBounds(scan),
              !.grouping = ReadGrouping(scan),
              !.cartesianBounds = BoundsOf(scan, "cartesianBounds", CartesianBounds),
              !.sphericalBounds = BoundsOf(scan, "sphericalBounds", SphericalBounds),
              !.pointFields = typed,
              !.intensityLimits = ReadIntensityLimits(scan, proto),
              !.colorLimits = ReadColorLimits(scan, proto)]]

-----------------------------------------------------------------------------
(* Sizes, points and groups. *)

\* Mutant: the lines and the points of a line are exchanged.
LinesSwapped(byColumn, elementSize, countSize) ==
  [row |-> IF byColumn THEN elementSize ELSE countSize,
   column |-> IF byColumn THEN countSize ELSE elementSize]

\* The rows and columns when indexBounds does not give them.
LinesOf(byColumn, elementSize, countSize) ==
  [row |-> IF byColumn THEN countSize ELSE elementSize,
   column |-> IF byColumn THEN elementSize ELSE countSize]

\* GetData3DSizes
GetData3DSizes(scan) ==
  LET box == Get(scan, "indexBounds", <<>>)
      extent(low, high) == IF Has(box, high) THEN box[high].attr.value - box[low].attr.value + 1
                           ELSE 0
      grouped == Has(scan, "pointGroupingSchemes")
      line == scan["pointGroupingSchemes"]
      byColumn == grouped /\ line.idElementName = "columnIndex"
      id == line.groups.proto["idElementValue"].attr
      elementSize == IF grouped THEN id.maximum - id.minimum + 1 ELSE 0
      countSize == IF grouped THEN line.groups.proto["pointCount"].attr.maximum ELSE 0
      row == extent("rowMinimum", "rowMaximum")
      column == extent("columnMinimum", "columnMaximum")
      missing == LinesOf(byColumn, elementSize, countSize)
      sizes(e, r, c, n, g, k, b) ==
        [error |-> e, row |-> r, column |-> c, pointsSize |-> n, groupsSize |-> g,
         countSize |-> k, bColumnIndex |-> b]
  IN  IF ~Has(scan, "points") THEN sizes("PathUndefined", 0, 0, 0, 0, 0, FALSE)
      ELSE sizes("none", IF row = 0 THEN missing.row ELSE row,
                 IF column = 0 THEN missing.column ELSE column, scan["points"].count,
                 IF grouped THEN line.groups.count ELSE 0, countSize, byColumn)

(***************************************************************************)
(* A reader of the vector that is given the buffers and reads once:        *)
(* [error, values].  It yields as many records as there are, up to the     *)
(* capacity.  Without a data packet there is no packet to begin with.      *)
(***************************************************************************)
ReadVector(vector, buffers, saturates) ==
  LET count(f) == Min({vector.count, Capacity(buffers[f])})
      run == [f \in DOMAIN buffers |->
                DecodeField(vector.proto[f], SubSeq(vector.codes[f], 1, count(f)),
                            buffers[f], saturates)]
      errors == {run[f].error : f \in DOMAIN run} \ {"none"}
  IN  IF buffers = <<>> THEN [error |-> "BadAPIArgument", values |-> <<>>]
      ELSE IF vector.section = "none"
           THEN [error |-> "Data3DReadInvalidZeroRecords", values |-> <<>>]
      ELSE IF vector.section = "bare" THEN [error |-> "Internal", values |-> <<>>]
      ELSE IF errors # {} THEN [error |-> CHOOSE e \in errors : TRUE, values |-> <<>>]
      ELSE [error |-> "none",
            values |-> [f \in DOMAIN run |-> SubSeq(run[f].buf.data, 1, count(f))]]

\* The memory of a field before anything is read.
Empty(size) == [i \in 1 .. size |-> 0]

\* SetUpData3DPointsData, where pointers are the fields whose pointer is
\* not null; then read().
ReadPoints(vector, coord, pointers, size, extensions, saturates) ==
  LET present == {f \in DOMAIN vector.proto \cap pointers :
                    f \in Normals => "nor" \in extensions}
      scaled(f) == (Scales(f) \/ f \in Colors) /\ vector.proto[f].type = "ScaledInteger"
  IN  ReadVector(vector, [f \in present |-> Buffer(f, BufferRep(f, coord), Empty(size),
                                                   TRUE, scaled(f), 1)], saturates)

\* ReadData3DGroupsData
ReadGroups(vector, size, saturates) ==
  ReadVector(vector, [f \in DOMAIN vector.proto |->
                        Buffer(f, "Int64", Empty(size), TRUE, FALSE, 1)], saturates)

-----------------------------------------------------------------------------
(* Images. *)

ReadRepresentation(r) ==
  [name \in ImageTypes |-> Len(Get(r, name, <<>>))] ++ Element("geometry", r["geometry"])

\* Visual is read, and the first of the others.
ReadRepresentations(image) ==
  LET there == {i \in 2 .. Len(Representations) : Has(image, Representations[i])}
      read == (IF Has(image, Representations[1]) THEN {1} ELSE {})
              \cup (IF there = {} THEN {} ELSE {Min(there)})
  IN  [name \in Range(Representations) |->
         IF \E i \in read : Representations[i] = name THEN ReadRepresentation(image[name])
         ELSE NoRepresentation]

\* pinholeCameraDistortionExt
ReadDistortion(image, extensions) ==
  LET distortion == image["dist:distortion"]
  IN  IF "dist" \notin extensions \/ ~Has(image, "dist:distortion") THEN <<>>
      ELSE <<[cameraNumber |-> Get(distortion, "dist:CameraNumber", 0),
              CV |-> distortion["dist:CV"]]>>

\* ReadImage2D
ReadImage2D(image, extensions) ==
  [guid |-> image["guid"], texts |-> [name \in ImageTexts |-> Get(image, name, "")],
   acquisitionDateTime |-> Get(image, "acquisitionDateTime", NoTime),
   pose |-> Get(image, "pose", Identity),
   representations |-> ReadRepresentations(image),
   distortion |-> ReadDistortion(image, extensions)]

\* GetImage2DSizes and _getImage2DNodeSizes; the value is what is returned.
GetImage2DSizes(image) ==
  LET there == {i \in DOMAIN Representations : Has(image, Representations[i])}
      name == Representations[Min(there)]
      r == image[name]
      type == IF Has(r, "jpegImage") THEN "jpegImage"
              ELSE IF Has(r, "pngImage") THEN "pngImage"
              ELSE IF Has(r, "imageMask") THEN "imageMask"
              ELSE "ImageNone"
  IN  IF there = {}
      THEN [value |-> FALSE, projection |-> "ProjectionNone", type |-> "ImageNone",
            imageSize |-> 0, geometry |-> 0, mask |-> FALSE, visual |-> "ImageNone"]
      ELSE [value |-> TRUE, projection |-> name, type |-> type,
            imageSize |-> Len(Get(r, type, <<>>)), geometry |-> r["geometry"],
            mask |-> Has(r, "imageMask"),
            visual |-> IF name = Representations[1] THEN type ELSE "ImageNone"]

\* ReadImage2DData and _readImage2DNode: [error, value, bytes].
ReadImage2DData(image, projection, type, start, count) ==
  LET blob == image[projection][type]
  IN  IF ~Has(image, projection) \/ ~Has(image[projection], type)
      THEN [error |-> "none", value |-> 0, bytes |-> <<>>]
      ELSE IF start + count > Len(blob)
      THEN [error |-> "BadAPIArgument", value |-> 0, bytes |-> <<>>]
      ELSE [error |-> "none", value |-> count, bytes |-> SubSeq(blob, start + 1, start + count)]
=============================================================================
