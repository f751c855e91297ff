---------------------------- MODULE SimpleWriter ----------------------------
(***************************************************************************)
(* WriterImpl.cpp and E57SimpleWriter.cpp: how a header and its points     *)
(* become a scan, and an image header an image.  The operators yield what  *)
(* a call leaves behind also when it throws part way.                      *)
(***************************************************************************)
EXTENDS SimpleData

-----------------------------------------------------------------------------
(* The elements of a scan. *)

\* The elements set if the condition holds.
When(condition, elements) == IF condition THEN elements ELSE <<>>

\* A GUID that the library makes up.
generateRandomGUID == "generated"

Guid(h) == IF h.guid = "" THEN generateRandomGUID ELSE h.guid

\* The strings that are not empty.
TextElements(texts) ==
  [name \in {n \in DOMAIN texts : texts[n] # ""} |-> texts[name]]

\* guid, name, description, originalGuids and the sensor strings.
Identification(h) ==
  Element("guid", Guid(h)) ++ TextElements(h.texts)
  ++ When(h.originalGuids # <<>>, Element("originalGuids", h.originalGuids))

\* temperature, relativeHumidity, atmosphericPressure
WeatherElements(h) ==
  [name \in {n \in Weather : h.weather[n] # FLOAT_MAX} |-> PlainDouble(h.weather[name])]

\* Mutant: an index whose minimum is 0 is left out.
IndexBoundsByMinimum(h) ==
  LET b == h.indexBounds
      pair(low, high) == When(b[low] # 0, Element(low, PlainInteger(b[low]))
                                          ++ Element(high, PlainInteger(b[high])))
  IN  When(b # IndexBounds,
           Element("indexBounds", pair("rowMinimum", "rowMaximum")
                                  ++ pair("columnMinimum", "columnMaximum")
                                  ++ pair("returnMinimum", "returnMaximum")))

IndexBoundsElement(h) ==
  LET b == h.indexBounds
      pair(low, high) == When(b[low] # 0 \/ b[high] # 0,
                              Element(low, PlainInteger(b[low]))
                              ++ Element(high, PlainInteger(b[high])))
  IN  When(b # IndexBounds,
           Element("indexBounds", pair("rowMinimum", "rowMaximum")
                                  ++ pair("columnMinimum", "columnMaximum")
                                  ++ pair("returnMinimum", "returnMaximum")))

\* floor(x / scale + .5), converted.  A scale of 0 makes the quotient
\* infinite, or not a number, which saturates to 0.
RawValue(x, scale, saturates) ==
  IF scale # 0 THEN Cast(RoundedQuotient(x, scale), saturates)
  ELSE IF ~saturates \/ x < 0 THEN INT64_MIN
  ELSE IF x = 0 THEN 0
  ELSE INT64_MAX

\* A leaf of one of the four types that holds a double.
LimitNode(value, low, high, type, scale, saturates) ==
  LET raw(x) == RawValue(x, scale, saturates)
  IN  CASE type = "Integer" -> IntegerNode(Cast(Truncate(value), saturates), INT64_MIN, INT64_MAX)
        [] type = "ScaledInteger" -> ScaledIntegerNode(raw(value), raw(low), raw(high), scale)
        [] type = "Float" -> FloatNode(value, "single", DOUBLE_MIN, DOUBLE_MAX)
        [] type = "Double" -> FloatNode(value, "double", DOUBLE_MIN, DOUBLE_MAX)

\* intensityLimits: [error, elements].
IntensityLimitsElement(h, saturates) ==
  LET low == h.intensityLimits.intensityMinimum
      high == h.intensityLimits.intensityMaximum
      node(x) == LimitNode(x, low, high, h.pointFields.intensityNodeType,
                           h.pointFields.intensityScale, saturates)
  IN  IF low = 0 /\ high = 0 THEN [error |-> "none", elements |-> <<>>]
      ELSE IF "ValueOutOfBounds" \in {node(low).error, node(high).error}
           THEN [error |-> "ValueOutOfBounds", elements |-> <<>>]
      ELSE [error |-> "none",
            elements |->
              Element("intensityLimits", [intensityMinimum |-> node(low).node,
                                          intensityMaximum |-> node(high).node])]

\* colorLimits, if there are limits for red.
ColorLimitsElement(h, saturates) ==
  When(h.colorLimits.colorRedMaximum # 0 \/ h.colorLimits.colorRedMinimum # 0,
       Element("colorLimits", [name \in DOMAIN ColorLimits |->
                                 PlainInteger(Cast(Truncate(h.colorLimits[name]), saturates))]))

\* cartesianBounds, if there are bounds for x.
CartesianBoundsElement(h) ==
  When(h.cartesianBounds.xMinimum # DOUBLE_MIN \/ h.cartesianBounds.xMaximum # DOUBLE_MAX,
       Element("cartesianBounds", [name \in DOMAIN CartesianBounds |->
                                     PlainDouble(h.cartesianBounds[name])]))

\* sphericalBounds, if there are bounds for the range.
SphericalBoundsElement(h) ==
  When(h.sphericalBounds.rangeMinimum # 0 \/ h.sphericalBounds.rangeMaximum # DOUBLE_MAX,
       Element("sphericalBounds", [name \in DOMAIN SphericalBounds |->
                                     PlainDouble(h.sphericalBounds[name])]))

PoseElement(pose) == When(pose # Identity, Element("pose", pose))

\* A time element; one that is not positive is not written.
TimeElement(name, time) == When(time.dateTimeValue > 0, Element(name, time))

AcquisitionElements(h) ==
  TimeElement("acquisitionStart", h.acquisitionStart)
  ++ TimeElement("acquisitionEnd", h.acquisitionEnd)

\* A compressed vector with the prototype, not written yet.  section is
\* "none", "bare" for one without a data packet, or "packets".
CompressedVector(proto) ==
  [proto |-> proto, section |-> "none", count |-> 0,
   codes |-> [field \in DOMAIN proto |-> <<>>]]

\* pointGroupingSchemes: [error, elements].
GroupingElement(h) ==
  LET g == h.grouping
      start == IntegerNode(0, 0, h.pointCount - 1)
      id == IntegerNode(0, 0, g.groupsSize - 1)
      count == IntegerNode(0, 0, g.pointCountSize)
      line == IF g.idElementName = "rowIndex" THEN "rowIndex" ELSE "columnIndex"
      proto == [startPointIndex |-> start.node, idElementValue |-> id.node,
                pointCount |-> count.node]
  IN  IF g.idElementName = "" THEN [error |-> "none", elements |-> <<>>]
      ELSE IF "ValueOutOfBounds" \in {start.error, id.error, count.error}
           THEN [error |-> "ValueOutOfBounds", elements |-> <<>>]
      ELSE [error |-> "none",
            elements |->
              Element("pointGroupingSchemes", [idElementName |-> line,
                                               groups |-> CompressedVector(proto)])]

-----------------------------------------------------------------------------
(* The prototype of the points: the leaf of each field, [error, node]. *)

Refuse(e) == [error |-> e, node |-> PlainInteger(0)]

\* A coordinate, whose type is not Integer and whose scale is not 0.
CoordinateNode(type, scale, low, high, saturates) ==
  LET raw(x) == RawValue(x, scale, saturates)
  IN  CASE type = "Integer" -> Refuse("InvalidNodeType")
        [] type = "ScaledInteger" ->
             IF scale = 0 THEN Refuse("InvalidData3DValue")
             ELSE ScaledIntegerNode(0, raw(low), raw(high), scale)
        [] type = "Float" -> FloatNode(0, "single", low, high)
        [] type = "Double" -> FloatNode(0, "double", low, high)

\* getPointProto
PointProto(p, saturates) ==
  CoordinateNode(p.pointRangeNodeType, p.pointRangeScale,
                 p.pointRangeMinimum, p.pointRangeMaximum, saturates)

\* getAngleProto
AngleProto(p, saturates) ==
  CoordinateNode(p.angleNodeType, p.angleScale, p.angleMinimum, p.angleMaximum, saturates)

\* The limits are those of the header, also if they are 0.
IntensityProto(h, saturates) ==
  LET p == h.pointFields
      low == h.intensityLimits.intensityMinimum
      high == h.intensityLimits.intensityMaximum
      raw(x) == RawValue(x, p.intensityScale, saturates)
  IN  CASE p.intensityNodeType = "Integer" ->
             IntegerNode(0, Cast(Truncate(low), saturates), Cast(Truncate(high), saturates))
        [] p.intensityNodeType = "ScaledInteger" ->
             ScaledIntegerNode(0, raw(low), raw(high), p.intensityScale)
        [] p.intensityNodeType = "Float" -> FloatNode(0, "single", low, high)
        [] p.intensityNodeType = "Double" -> FloatNode(0, "double", low, high)

ColorProto(h, field, saturates) ==
  LET bound(name) == Cast(Truncate(h.colorLimits[name]), saturates)
  IN  CASE field = "colorRed" ->
             IntegerNode(0, bound("colorRedMinimum"), bound("colorRedMaximum"))
        [] field = "colorGreen" ->
             IntegerNode(0, bound("colorGreenMinimum"), bound("colorGreenMaximum"))
        [] field = "colorBlue" ->
             IntegerNode(0, bound("colorBlueMinimum"), bound("colorBlueMaximum"))

\* returnIndex, returnCount, rowIndex, columnIndex
IndexProto(p, field) ==
  IntegerNode(0, 0, CASE field \in ReturnFields -> p.returnMaximum
                      [] field = "rowIndex" -> p.rowIndexMaximum
                      [] field = "columnIndex" -> p.columnIndexMaximum)

\* A float has no limits other than its own.
TimeProto(p, saturates) ==
  LET raw(x) == RawValue(x, p.timeScale, saturates)
  IN  CASE p.timeNodeType = "Integer" ->
             IntegerNode(0, Cast(Truncate(p.timeMinimum), saturates),
                            Cast(Truncate(p.timeMaximum), saturates))
        [] p.timeNodeType = "ScaledInteger" ->
             ScaledIntegerNode(0, raw(p.timeMinimum), raw(p.timeMaximum), p.timeScale)
        [] p.timeNodeType = "Float" -> FloatNode(0, "single", FLOAT_MIN, FLOAT_MAX)
        [] p.timeNodeType = "Double" -> FloatNode(0, "double", DOUBLE_MIN, DOUBLE_MAX)

InvalidProto(field) == IntegerNode(0, 0, IF field \in States THEN 2 ELSE 1)

NormalProto == FloatNode(0, "single", -Unit, Unit)

FieldProto(h, field, saturates) ==
  CASE field \in Cartesian \cup {"sphericalRange"} -> PointProto(h.pointFields, saturates)
    [] field \in Angles -> AngleProto(h.pointFields, saturates)
    [] field = "intensity" -> IntensityProto(h, saturates)
    [] field \in Colors -> ColorProto(h, field, saturates)
    [] field \in ReturnFields \cup Indices -> IndexProto(h.pointFields, field)
    [] field = "timeStamp" -> TimeProto(h.pointFields, saturates)
    [] field \in States \cup Flags -> InvalidProto(field)
    [] field \in Normals -> NormalProto

\* The first field, in the order of the file, whose leaf cannot be made.
BadFields(h, saturates) ==
  {i \in DOMAIN Fields : /\ Fields[i] \in h.pointFields.fields
                         /\ FieldProto(h, Fields[i], saturates).error # "none"}

PointsElement(h, saturates) ==
  Element("points", CompressedVector([field \in h.pointFields.fields |->
                                        FieldProto(h, field, saturates).node]))

\* The elements set before intensityLimits, and those set after it.
FirstElements(h) == Identification(h) ++ WeatherElements(h) ++ IndexBoundsElement(h)

OtherElements(h, saturates) ==
  ColorLimitsElement(h, saturates)
  ++ CartesianBoundsElement(h) ++ SphericalBoundsElement(h)
  ++ PoseElement(h.pose) ++ AcquisitionElements(h)

(***************************************************************************)
(* NewData3D: [error, scan, extensions].  The scan is in the file before   *)
(* its elements are set, and stays there if one of them cannot be.         *)
(***************************************************************************)
NewData3D(h, saturates) ==
  LET intensity == IntensityLimitsElement(h, saturates)
      groups == GroupingElement(h)
      bad == BadFields(h, saturates)
      one == FirstElements(h)
      two == one ++ intensity.elements ++ OtherElements(h, saturates)
      three == two ++ groups.elements
      extensions == IF h.pointFields.fields \cap Normals = {} THEN {} ELSE {"nor"}
      result(e, scan, ext) == [error |-> e, scan |-> scan, extensions |-> ext]
  IN  IF intensity.error # "none" THEN result(intensity.error, one, {})
      ELSE IF groups.error # "none" THEN result(groups.error, two, {})
      ELSE IF bad # {}
           THEN result(FieldProto(h, Fields[Min(bad)], saturates).error, three, {})
      ELSE result("none", three ++ PointsElement(h, saturates), extensions)

-----------------------------------------------------------------------------
(* Writing points.  data is a function from the fields whose pointer is    *)
(* not null to their values, one for each record.                          *)

\* numeric_limits<COORDTYPE>::lowest() and max()
CoordMin(coord) == IF coord = "float" THEN FLOAT_MIN ELSE DOUBLE_MIN
CoordMax(coord) == IF coord = "float" THEN FLOAT_MAX ELSE DOUBLE_MAX

\* A ScaledInteger whose limits were left at their defaults.
Unlimited(type, low, high, coord) ==
  type = "ScaledInteger" /\ low = CoordMin(coord) /\ high = CoordMax(coord)

\* The fields whose values _fillMinMaxData looks at, by the limits they are
\* for: x stands for y and z, and the angles are not asked for.
RangeSources(p, coord) ==
  IF ~Unlimited(p.pointRangeNodeType, p.pointRangeMinimum, p.pointRangeMaximum, coord) THEN {}
  ELSE (IF "cartesianX" \in p.fields THEN Cartesian ELSE {})
       \cup (p.fields \cap {"sphericalRange"})
AngleSources(p, coord) ==
  IF Unlimited(p.angleNodeType, p.angleMinimum, p.angleMaximum, coord) THEN Angles ELSE {}
TimeSources(p, coord) ==
  IF Unlimited(p.timeNodeType, p.timeMinimum, p.timeMaximum, coord)
  THEN p.fields \cap {"timeStamp"} ELSE {}

\* None of the pointers _fillMinMaxData follows is null.
Fillable(h, coord, data) ==
  LET p == h.pointFields
  IN  h.pointCount > 0 =>
        RangeSources(p, coord) \cup AngleSources(p, coord) \cup TimeSources(p, coord)
          \subseteq DOMAIN data

\* Mutant: only x counts.
FillMinMaxDataOfX(h, coord, data) ==
  LET p == h.pointFields
      values == Range(data["cartesianX"])
  IN  IF p.pointRangeNodeType = "ScaledInteger" /\ "cartesianX" \in p.fields /\ values # {}
      THEN [h EXCEPT !.pointFields.pointRangeMinimum = Min(values),
                     !.pointFields.pointRangeMaximum = Max(values)]
      ELSE h

\* _fillMinMaxData: limits that were left at their defaults.
FillMinMaxData(h, coord, data) ==
  LET p == h.pointFields
      cMin == CoordMin(coord)
      cMax == CoordMax(coord)
      values(fields) == UNION {{data[f][i] : i \in 1 .. h.pointCount} : f \in fields}
      points == values(RangeSources(p, coord))
      angles == values(AngleSources(p, coord))
      times == values(TimeSources(p, coord))
      writePointRange ==
        Unlimited(p.pointRangeNodeType, p.pointRangeMinimum, p.pointRangeMaximum, coord)
      writeAngle == AngleSources(p, coord) # {}
      writeTimeStamp == TimeSources(p, coord) # {}
      filled == [p EXCEPT
        !.pointRangeMinimum = IF writePointRange THEN Min(points \cup {cMax}) ELSE @,
        !.pointRangeMaximum = IF writePointRange THEN Max(points \cup {cMin}) ELSE @,
        !.angleMinimum = IF writeAngle THEN Min(angles \cup {cMax}) ELSE @,
        !.angleMaximum = IF writeAngle THEN Max(angles \cup {cMin}) ELSE @,
        !.timeMinimum = IF writeTimeStamp THEN Min(times \cup {DOUBLE_MAX}) ELSE @,
        !.timeMaximum = IF writeTimeStamp THEN Max(times \cup {DOUBLE_MIN}) ELSE @]
  IN  [h EXCEPT !.pointFields = filled]

\* SetUpData3DPointsData: a buffer of every field with a pointer.
SourceBuffers(vector, coord, data) ==
  [field \in DOMAIN vector.proto \cap DOMAIN data |->
     Buffer(field, BufferRep(field, coord), data[field], TRUE, Scales(field), 1)]

\* BlobNode: zeros, until it is written.
Blob(size) == [i \in 1 .. size |-> 0]

\* Mutant: the records are counted before they are encoded.
AbandonedCounted(proto, section, count) ==
  [CompressedVector(proto) EXCEPT !.section = section, !.count = count,
                                  !.codes = [f \in DOMAIN proto |-> Blob(count)]]

\* The vector when write has thrown and the writer is destroyed.
Abandoned(proto, section, count) ==
  [CompressedVector(proto) EXCEPT !.section = section]

(***************************************************************************)
(* A writer of the vector that writes count records, fewer than the 50     *)
(* that go to a bytestream at a time, and is closed, or destroyed when     *)
(* write throws: the set of possible [error, vector].  The bytestreams are *)
(* encoded one after the other; the record count is set only when all are. *)
(* What has been encoded is a packet all the same, but whether the records *)
(* before the one that throws are depends on how they fill words.          *)
(***************************************************************************)
WriteVector(vector, order, buffers, count, saturates) ==
  LET streams == {i \in DOMAIN order : order[i] \in DOMAIN vector.proto}
      constant(i) == IsConstant(vector.proto[order[i]])
      run == [f \in DOMAIN buffers |->
                EncodeField(vector.proto[f], buffers[f], count, saturates)]
      failed == {i \in streams : run[order[i]].error # "none"}
      written(section, n) == [CompressedVector(vector.proto) EXCEPT
                                !.section = section, !.count = n]
  IN  IF buffers = <<>> THEN {[error |-> "BadAPIArgument", vector |-> vector]}
      ELSE IF DOMAIN buffers # DOMAIN vector.proto
           THEN {[error |-> "NoBufferForElement", vector |-> vector]}
      ELSE IF count = 0 THEN {[error |-> "none", vector |-> written("packets", 0)]}
      ELSE IF failed = {}
           THEN LET all == \A i \in streams : constant(i)
                IN  {[error |-> "none",
                      vector |-> [written(IF all THEN "bare" ELSE "packets", count) EXCEPT
                                    !.codes = [f \in DOMAIN run |-> run[f].codes]]]}
      ELSE LET k == Min(failed)
               before == \E i \in streams : i < k /\ ~constant(i)
               partly == run[order[k]].codes # <<>> /\ ~constant(k)
           IN  {[error |-> run[order[k]].error, vector |-> Abandoned(vector.proto, section, count)] :
                  section \in IF before THEN {"packets"}
                              ELSE IF partly THEN {"packets", "bare"}
                              ELSE {"bare"}}

WritePoints(vector, coord, data, count, saturates) ==
  WriteVector(vector, Fields, SourceBuffers(vector, coord, data), count, saturates)

\* WriteData3DGroupsData, of a scan that has groups.
WriteGroups(vector, data, count, saturates) ==
  WriteVector(vector, <<"startPointIndex", "idElementValue", "pointCount">>,
              [field \in DOMAIN vector.proto |->
                 Buffer(field, "Int64", data[field], TRUE, FALSE, 1)],
              count, saturates)

-----------------------------------------------------------------------------
(* Images. *)

\* The representations that have an image; the first is written.
Depicted(h) ==
  {i \in DOMAIN Representations :
     LET r == h.representations[Representations[i]] IN r.jpegImage > 0 \/ r.pngImage > 0}

RepresentationElement(r) ==
  When(r.jpegImage > 0, Element("jpegImage", Blob(r.jpegImage)))
  ++ When(r.jpegImage = 0 /\ r.pngImage > 0, Element("pngImage", Blob(r.pngImage)))
  ++ When(r.imageMask > 0, Element("imageMask", Blob(r.imageMask)))
  ++ Element("geometry", r.geometry)

\* dist:distortion; the camera number is left out unless it is positive.
DistortionElement(h) ==
  When(h.distortion # <<>>,
       Element("dist:distortion",
               When(h.distortion[1].cameraNumber > 0,
                    Element("dist:CameraNumber", h.distortion[1].cameraNumber))
               ++ Element("dist:CV", h.distortion[1].CV)))

\* NewImage2D: [image, extensions].
NewImage2D(h) ==
  LET name == Representations[Min(Depicted(h))]
  IN  [image |-> Element("guid", Guid(h)) ++ TextElements(h.texts)
                 ++ TimeElement("acquisitionDateTime", h.acquisitionDateTime)
                 ++ PoseElement(h.pose)
                 ++ When(Depicted(h) # {},
                         Element(name, RepresentationElement(h.representations[name])))
                 ++ DistortionElement(h),
       extensions |-> IF h.distortion = <<>> THEN {} ELSE {"dist"}]

\* Mutant: the bytes go to the beginning of the image, whatever start is.
WriteImageAtZero(image, projection, type, bytes, start) ==
  LET blob == image[projection][type]
  IN  IF projection \notin DOMAIN image \/ type \notin DOMAIN image[projection]
      THEN [error |-> "none", value |-> 0, image |-> image]
      ELSE IF start + Len(bytes) > Len(blob)
      THEN [error |-> "BadAPIArgument", value |-> 0, image |-> image]
      ELSE [error |-> "none", value |-> Len(bytes),
            image |-> [image EXCEPT ![projection][type] =
                         [i \in DOMAIN blob |->
                            IF i \in DOMAIN bytes THEN bytes[i] ELSE blob[i]]]]

\* WriteImage2DData and _writeImage2DNode: [error, value, image], the value
\* returned being the number of bytes.
WriteImage2DData(image, projection, type, bytes, start) ==
  LET blob == image[projection][type]
  IN  IF projection \notin DOMAIN image \/ type \notin DOMAIN image[projection]
      THEN [error |-> "none", value |-> 0, image |-> image]
      ELSE IF start + Len(bytes) > Len(blob)
      THEN [error |-> "BadAPIArgument", value |-> 0, image |-> image]
      ELSE [error |-> "none", value |-> Len(bytes),
            image |-> [image EXCEPT ![projection][type] =
                         [i \in DOMAIN blob |->
                            IF i - start \in DOMAIN bytes THEN bytes[i - start]
                            ELSE blob[i]]]]
=============================================================================
