----------------------------- MODULE SimpleData -----------------------------
(***************************************************************************)
(* E57SimpleData.h and E57SimpleData.cpp: the headers and point buffers of *)
(* the Simple API, with their defaults, and the elements they become.      *)
(*                                                                         *)
(* A structure of a file is a function from element names to elements, a   *)
(* vector a sequence, a leaf a record [type, attr] as in NodeTree.  The    *)
(* flags xxxField of a header are the set fields of the names whose flag   *)
(* is set.  A rotation or a translation is a number, 0 the identity.       *)
(***************************************************************************)
EXTENDS SourceDestBuffer

CONSTANT HalfPi   \* M_PI / 2, in units

ASSUME HalfPiAssumption == HalfPi \in 1 .. DOUBLE_MAX \div 2

-----------------------------------------------------------------------------
(* Structures. *)

\* A structure of one element, and one of the elements of two; where both
\* have an element, it is that of the first.
Element(name, value) == [x \in {name} |-> value]
f ++ g ==
  [x \in (DOMAIN f) \cup (DOMAIN g) |-> IF x \in DOMAIN f THEN f[x] ELSE g[x]]

-----------------------------------------------------------------------------
(* Leaves. *)

\* The constructors of the numeric nodes: [error, node].
Construct(type, attr) ==
  LET a == LeafCtor(type, attr)
  IN  [error |-> IF ValidateValue(type, a) THEN "none" ELSE "ValueOutOfBounds",
       node |-> [type |-> type, attr |-> a]]

IntegerNode(value, minimum, maximum) ==
  Construct("Integer", [value |-> value, minimum |-> minimum, maximum |-> maximum])

ScaledIntegerNode(value, minimum, maximum, scale) ==
  Construct("ScaledInteger", [value |-> value, minimum |-> minimum,
                              maximum |-> maximum, scale |-> scale, offset |-> 0])

FloatNode(value, precision, minimum, maximum) ==
  Construct("Float", [value |-> value, precision |-> precision,
                      minimum |-> minimum, maximum |-> maximum])

\* Leaves with the default bounds, which no int64_t or double is out of.
PlainInteger(value) == IntegerNode(value, INT64_MIN, INT64_MAX).node
PlainDouble(value) == FloatNode(value, "double", DOUBLE_MIN, DOUBLE_MAX).node

\* The value of a leaf as a double: value() or scaledValue().
ValueOf(leaf) ==
  CASE leaf.type = "Integer" -> ToReal(leaf.attr.value)
    [] leaf.type = "ScaledInteger" -> (leaf.attr.value * leaf.attr.scale) + leaf.attr.offset
    [] leaf.type = "Float" -> leaf.attr.value

\* A number after its XML text, for each leaf of a structure.
Store(leaf) == [leaf EXCEPT !.attr = StoredAttr(leaf.type, @)]
StoreEach(box) == [name \in DOMAIN box |-> Store(box[name])]

-----------------------------------------------------------------------------
(* Point fields. *)

Cartesian == {"cartesianX", "cartesianY", "cartesianZ"}
Angles == {"sphericalAzimuth", "sphericalElevation"}
Colors == {"colorRed", "colorGreen", "colorBlue"}
ReturnFields == {"returnIndex", "returnCount"}
Indices == {"rowIndex", "columnIndex"}
States == {"cartesianInvalidState", "sphericalInvalidState"}
Flags == {"isIntensityInvalid", "isColorInvalid", "isTimeStampInvalid"}
Normals == {"nor:normalX", "nor:normalY", "nor:normalZ"}

\* In the order NewData3D sets them, which is that of the bytestreams.
Fields ==
  <<"cartesianX", "cartesianY", "cartesianZ", "sphericalRange",
    "sphericalAzimuth", "sphericalElevation", "intensity",
    "colorRed", "colorGreen", "colorBlue", "returnIndex", "returnCount",
    "rowIndex", "columnIndex", "timeStamp", "cartesianInvalidState",
    "sphericalInvalidState", "isIntensityInvalid", "isColorInvalid",
    "isTimeStampInvalid", "nor:normalX", "nor:normalY", "nor:normalZ">>

\* The members of Data3DPointsData_t; coord is its COORDTYPE.
BufferRep(field, coord) ==
  CASE field \in Cartesian \cup {"sphericalRange"} \cup Angles ->
         IF coord = "float" THEN "Real32" ELSE "Real64"
    [] field \in {"intensity", "timeStamp"} -> "Real64"
    [] field \in Colors -> "UInt16"
    [] field \in Indices -> "Int32"
    [] field \in ReturnFields \cup States \cup Flags -> "Int8"
    [] field \in Normals -> "Real32"

\* The fields whose source buffer asks for scaling (SetUpData3DPointsData).
Scales(field) ==
  field \in Cartesian \cup {"sphericalRange", "intensity", "timeStamp"} \cup Angles \cup Normals

-----------------------------------------------------------------------------
(* Headers. *)

Texts == {"name", "description", "sensorVendor", "sensorModel",
          "sensorSerialNumber", "sensorHardwareVersion",
          "sensorSoftwareVersion", "sensorFirmwareVersion"}
Weather == {"temperature", "relativeHumidity", "atmosphericPressure"}
Identity == [rotation |-> 0, translation |-> 0]
NoTime == [dateTimeValue |-> 0, isAtomicClockReferenced |-> 0]

IndexBounds ==
  [name \in {"rowMinimum", "rowMaximum", "columnMinimum", "columnMaximum",
             "returnMinimum", "returnMaximum"} |-> 0]

CartesianBounds ==
  [name \in {"xMinimum", "yMinimum", "zMinimum"} |-> DOUBLE_MIN] ++
  [name \in {"xMaximum", "yMaximum", "zMaximum"} |-> DOUBLE_MAX]

SphericalBounds ==
  [rangeMinimum |-> 0, rangeMaximum |-> DOUBLE_MAX,
   azimuthStart |-> -2 * HalfPi, azimuthEnd |-> 2 * HalfPi,
   elevationMinimum |-> -HalfPi, elevationMaximum |-> HalfPi]

IntensityLimits == [intensityMinimum |-> 0, intensityMaximum |-> 0]

ColorLimits ==
  [name \in {"colorRedMinimum", "colorRedMaximum", "colorGreenMinimum",
             "colorGreenMaximum", "colorBlueMinimum", "colorBlueMaximum"} |-> 0]

\* PointStandardizedFieldsAvailable
PointFields ==
  [fields |-> {},
   pointRangeMinimum |-> DOUBLE_MIN, pointRangeMaximum |-> DOUBLE_MAX,
   pointRangeNodeType |-> "Float", pointRangeScale |-> 0,
   angleMinimum |-> DOUBLE_MIN, angleMaximum |-> DOUBLE_MAX,
   angleNodeType |-> "Float", angleScale |-> 0,
   timeMinimum |-> DOUBLE_MIN, timeMaximum |-> DOUBLE_MAX,
   timeNodeType |-> "Float", timeScale |-> 0,
   intensityNodeType |-> "Float", intensityScale |-> 0,
   rowIndexMaximum |-> RepMax["UInt32"], columnIndexMaximum |-> RepMax["UInt32"],
   returnMaximum |-> RepMax["UInt8"]]

Data3D ==
  [guid |-> "", texts |-> [name \in Texts |-> ""], originalGuids |-> <<>>,
   weather |-> [name \in Weather |-> FLOAT_MAX],
   acquisitionStart |-> NoTime, acquisitionEnd |-> NoTime, pose |-> Identity,
   indexBounds |-> IndexBounds, cartesianBounds |-> CartesianBounds,
   sphericalBounds |-> SphericalBounds, intensityLimits |-> IntensityLimits,
   colorLimits |-> ColorLimits,
   grouping |-> [idElementName |-> "", groupsSize |-> 0, pointCountSize |-> 0],
   pointFields |-> PointFields, pointCount |-> 0]

\* The constructor of Data3DPointsData_t, which also adjusts the header:
\* [error, header].
Data3DPointsData(h, coord) ==
  LET p == h.pointFields
      floating == IF coord = "float" THEN "Float" ELSE "Double"
      typed == [p EXCEPT
                  !.pointRangeNodeType = IF @ = "ScaledInteger" THEN @ ELSE floating,
                  !.angleNodeType = IF @ = "ScaledInteger" THEN @ ELSE floating]
      limited == [typed EXCEPT
                    !.pointRangeMinimum = FLOAT_MIN, !.pointRangeMaximum = FLOAT_MAX,
                    !.angleMinimum = FLOAT_MIN, !.angleMaximum = FLOAT_MAX,
                    !.timeMinimum = FLOAT_MIN, !.timeMaximum = FLOAT_MAX]
  IN  IF "Integer" \in {p.pointRangeNodeType, p.angleNodeType}
      THEN [error |-> "InvalidNodeType", header |-> h]
      ELSE [error |-> "none",
            header |-> [h EXCEPT !.pointFields =
                          IF coord = "float" THEN limited ELSE typed]]

-----------------------------------------------------------------------------
(* Images. *)

Representations == <<"visualReferenceRepresentation", "pinholeRepresentation",
                     "sphericalRepresentation", "cylindricalRepresentation">>
ImageTexts == {"name", "description", "sensorVendor", "sensorModel",
               "sensorSerialNumber", "associatedData3DGuid"}
ImageTypes == {"jpegImage", "pngImage", "imageMask"}

\* One of the four; geometry stands for the widths, heights, focal lengths.
\* The camera distortion of an image is a sequence, empty for a null pointer.
NoRepresentation == [jpegImage |-> 0, pngImage |-> 0, imageMask |-> 0, geometry |-> 0]

Image2D ==
  [guid |-> "", texts |-> [name \in ImageTexts |-> ""], acquisitionDateTime |-> NoTime,
   pose |-> Identity,
   representations |-> [name \in Range(Representations) |-> NoRepresentation],
   distortion |-> <<>>]
=============================================================================
