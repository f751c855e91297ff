----------------------------- MODULE MCSimpleApi -----------------------------
EXTENDS SimpleApi, TLC

Int64Min == -16
FloatMin == -98
DoubleMin == -102

MCRepMin == [Int8 |-> -2, UInt8 |-> 0, Int16 |-> -4, UInt16 |-> 0, Int32 |-> -8,
             UInt32 |-> 0, Int64 |-> -16]
MCRepMax == [Int8 |-> 1, UInt8 |-> 3, Int16 |-> 3, UInt16 |-> 7, Int32 |-> 7,
             UInt32 |-> 15, Int64 |-> 15]

Kit(header, coord, allocate, data) ==
  [header |-> header, coord |-> coord, allocate |-> allocate, data |-> data]

\* A header with the fields and the number of points.
Header(fields, n) == [Data3D EXCEPT !.pointFields.fields = fields, !.pointCount = n]

\* x, y and z; y and z go beyond x.
XYZ == [cartesianX |-> <<3, -1>>, cartesianY |-> <<-7, 2>>, cartesianZ |-> <<0, 10>>]
WholeXYZ == [cartesianX |-> <<4, -2>>, cartesianY |-> <<-8, 2>>, cartesianZ |-> <<0, 10>>]
Positive == [f \in Cartesian |-> <<8, 9>>]
Zeros(fields, n) == [f \in fields |-> [i \in 1 .. n |-> 0]]

Scaled(h, scale) ==
  [h EXCEPT !.pointFields.pointRangeNodeType = "ScaledInteger",
            !.pointFields.pointRangeScale = scale]
Intensity(h, type, scale, low, high) ==
  [h EXCEPT !.pointFields.intensityNodeType = type, !.pointFields.intensityScale = scale,
            !.intensityLimits = [intensityMinimum |-> low, intensityMaximum |-> high]]
Time(h, type, scale, low, high) ==
  [h EXCEPT !.pointFields.timeNodeType = type, !.pointFields.timeScale = scale,
            !.pointFields.timeMinimum = low, !.pointFields.timeMaximum = high]
Grouped(h, line, groups, points) ==
  [h EXCEPT !.grouping = [idElementName |-> line, groupsSize |-> groups,
                          pointCountSize |-> points]]
Bounded(h, rows) ==
  [h EXCEPT !.indexBounds = [IndexBounds EXCEPT !["rowMaximum"] = rows,
                                                !["columnMinimum"] = 1,
                                                !["columnMaximum"] = 2]]

ColorBox(red, green) ==
  [ColorLimits EXCEPT !["colorRedMaximum"] = red, !["colorGreenMaximum"] = green,
                      !["colorBlueMaximum"] = green]

Described ==
  [Header(Cartesian, 2) EXCEPT
     !.guid = "g1", !.texts["name"] = "n", !.texts["sensorModel"] = "m",
     !.originalGuids = <<"o", "p">>, !.weather["temperature"] = -6,
     !.pose = [rotation |-> 0, translation |-> 1],
     !.acquisitionEnd = [dateTimeValue |-> 9, isAtomicClockReferenced |-> 1],
     !.cartesianBounds = [CartesianBounds EXCEPT !["xMinimum"] = -5, !["zMaximum"] = 11],
     !.sphericalBounds = [SphericalBounds EXCEPT !["rangeMaximum"] = 9]]

Spherical == {"sphericalRange"} \cup Angles
SphericalHeader ==
  [Scaled(Header(Spherical \cup Indices \cup {"sphericalInvalidState"}, 2), 2) EXCEPT
     !.pointFields.angleNodeType = "ScaledInteger", !.pointFields.angleScale = 3,
     !.pointFields.rowIndexMaximum = 3, !.pointFields.columnIndexMaximum = 2]
SphericalData ==
  [sphericalRange |-> <<0, 6>>, sphericalAzimuth |-> <<-4, 4>>,
   sphericalElevation |-> <<5, -6>>, rowIndex |-> <<3, 0>>, columnIndex |-> <<1, 2>>,
   sphericalInvalidState |-> <<0, 1>>]

I(values) == "intensity" :> values
Bright(type, scale, low, high) == Intensity(Header({"intensity"}, 2), type, scale, low, high)
Timed(type, scale, low, high) == Time(Header({"timeStamp"}, 2), type, scale, low, high)

Plain == Kit(Header(Cartesian, 2), "double", TRUE, XYZ)
ScaledPoints == Kit(Scaled(Header(Cartesian, 2), 2), "double", TRUE, XYZ)
Lines == Kit(Grouped(Header(Cartesian, 2), "rowIndex", 2, 1), "double", TRUE, XYZ)
Wrong == Kit(Bright("Integer", 0, 0, 8), "double", TRUE, I(<<4, 20>>))

MCScanKits == {
  Plain, ScaledPoints, Lines, Wrong,
  Kit(Described, "float", TRUE, WholeXYZ),
  \* points whose limits leave out 0, are given, or are not points at all
  Kit(Scaled(Header(Cartesian, 2), 4), "float", TRUE, WholeXYZ),
  Kit(Scaled(Header(Cartesian, 2), 2), "double", TRUE, Positive),
  Kit([Scaled(Header(Cartesian, 2), 3) EXCEPT !.pointFields.pointRangeMinimum = -6,
         !.pointFields.pointRangeMaximum = 13], "double", TRUE, XYZ),
  Kit(Scaled(Header(Cartesian, 2), 0), "double", TRUE, XYZ),
  Kit(Scaled(Header(Cartesian, 2), -2), "double", TRUE, XYZ),
  Kit([Scaled(Header(Cartesian \cup {"rowIndex"}, 2), 2) EXCEPT
         !.pointFields.pointRangeMinimum = 0, !.pointFields.pointRangeMaximum = 0],
      "double", TRUE, [f \in Cartesian \cup {"rowIndex"} |-> <<3, 0>>]),
  Kit(Header({"cartesianY"}, 2), "double", TRUE, "cartesianY" :> <<3, -1>>),
  Kit(Scaled(Header({"cartesianY"}, 2), 2), "double", TRUE, "cartesianY" :> <<3, -1>>),
  Kit([Header(Cartesian, 2) EXCEPT !.pointFields.pointRangeNodeType = "Integer"],
      "double", TRUE, XYZ),
  Kit([Header(Cartesian, 2) EXCEPT !.pointFields.pointRangeNodeType = "Integer"],
      "double", FALSE, XYZ),
  Kit(Scaled(Header(Cartesian, 0), 2), "double", TRUE, Zeros(Cartesian, 0)),
  Kit(Header(Cartesian, 0), "double", TRUE, Zeros(Cartesian, 0)),
  Kit(Header({}, 2), "double", TRUE, XYZ),
  Kit(Header(Cartesian \cup {"intensity"}, 2), "double", TRUE, XYZ),
  \* spherical coordinates
  Kit(SphericalHeader, "double", TRUE, SphericalData),
  Kit(Bounded(SphericalHeader, 3), "double", TRUE, SphericalData),
  Kit(Header({"sphericalElevation"}, 2), "double", TRUE, "sphericalElevation" :> <<5, -6>>),
  \* intensity and colours
  Kit(Bright("Integer", 0, 0, 13), "double", TRUE, I(<<13, 5>>)),
  Kit(Bright("ScaledInteger", 3, -4, 13), "double", TRUE, I(<<13, -4>>)),
  Kit(Bright("ScaledInteger", 3, 13, -4), "double", TRUE, I(<<13, -4>>)),
  Kit(Bright("ScaledInteger", 0, 0, 4), "double", TRUE, I(<<1, 2>>)),
  Kit(Bright("Integer", 0, 0, 5), "double", TRUE, I(<<0, 0>>)),
  Kit(Bright("Float", 0, -1, 13), "double", TRUE, I(<<100, -1>>)),
  Kit(Bright("Float", 0, 0, 97), "double", TRUE, I(<<13, 0>>)),
  Kit(Bright("Float", 0, 0, 99), "double", TRUE, I(<<13, 0>>)),
  Kit(Intensity(Header(Cartesian, 2), "Float", 0, FLOAT_MIN, 1), "double", TRUE, XYZ),
  Kit(Intensity(Header(Cartesian, 2), "Float", 0, -1, 13), "double", TRUE, XYZ),
  Kit(Intensity(Header(Cartesian, 2), "Integer", 0, 0, 13), "double", TRUE, XYZ),
  Kit(Bright("Double", 0, -1, 13), "double", TRUE, I(<<13, -1>>)),
  Kit(Bright("Double", 0, 2, 13), "double", TRUE, I(<<13, 2>>)),
  Kit(Bright("Integer", 0, 0, 0), "double", TRUE, I(<<0, 0>>)),
  Kit([Header(Colors \cup {"isColorInvalid"}, 2) EXCEPT !.colorLimits = ColorBox(43, 19)],
      "double", TRUE, [colorRed |-> <<7, 0>>, colorGreen |-> <<3, 1>>,
                       colorBlue |-> <<0, 2>>, isColorInvalid |-> <<0, 1>>]),
  Kit([Header(Colors, 2) EXCEPT !.colorLimits = ColorBox(0, 19)],
      "double", TRUE, [colorRed |-> <<0, 0>>, colorGreen |-> <<3, 1>>,
                       colorBlue |-> <<0, 2>>]),
  Kit([Header({"colorBlue"}, 2) EXCEPT !.colorLimits = ColorBox(5, 19)],
      "double", TRUE, "colorBlue" :> <<0, 2>>),
  Kit([Header({"colorBlue"}, 2) EXCEPT !.colorLimits = ColorBox(0, 19)],
      "double", TRUE, "colorBlue" :> <<0, 2>>),
  Kit([Header({"colorGreen"}, 2) EXCEPT
         !.colorLimits = [ColorBox(0, 19) EXCEPT !["colorGreenMinimum"] = -6]],
      "double", TRUE, "colorGreen" :> <<0, 2>>),
  \* times, returns and normals
  Kit(Timed("ScaledInteger", 3, DOUBLE_MIN, DOUBLE_MAX), "double", TRUE,
      "timeStamp" :> <<-5, 14>>),
  Kit(Timed("Integer", 0, DOUBLE_MIN, DOUBLE_MAX), "double", TRUE, "timeStamp" :> <<-5, 14>>),
  Kit(Timed("ScaledInteger", 6, DOUBLE_MIN, DOUBLE_MAX), "double", TRUE,
      "timeStamp" :> <<-5, 96>>),
  Kit(Timed("ScaledInteger", 12, -12, 96), "double", TRUE, "timeStamp" :> <<90, 0>>),
  Kit(Timed("ScaledInteger", 0, -5, 14), "double", TRUE, "timeStamp" :> <<-5, 14>>),
  Kit(Timed("Integer", 0, DOUBLE_MIN, DOUBLE_MAX), "double", TRUE, "timeStamp" :> <<-5, 100>>),
  Kit(Timed("Float", 0, 0, 0), "float", TRUE, "timeStamp" :> <<-5, 14>>),
  Kit(Timed("Float", 0, 0, 0), "float", TRUE, "timeStamp" :> <<48, 0>>),
  Kit(Timed("Float", 0, 0, 0), "float", TRUE, "timeStamp" :> <<96, 3>>),
  Kit(Timed("Double", 0, 0, 0), "double", TRUE, "timeStamp" :> <<96, 3>>),
  Kit(Timed("Double", 0, 0, 0), "double", TRUE, "timeStamp" :> <<48, 3>>),
  Kit(Timed("Double", 0, 0, 0), "double", TRUE, "timeStamp" :> <<100, 0>>),
  Kit(Header({"returnCount"}, 2), "double", TRUE, "returnCount" :> <<1, 0>>),
  Kit(Header({"timeStamp", "returnIndex", "returnCount", "isTimeStampInvalid"}, 2), "double",
      FALSE, [timeStamp |-> <<-5, 14>>, returnIndex |-> <<0, 1>>, returnCount |-> <<1, 1>>,
              isTimeStampInvalid |-> <<0, 1>>]),
  Kit(Header(Normals, 2), "double", TRUE, [f \in Normals |-> <<4, -2>>]),
  \* groups
  Kit(Bounded(Grouped(Header(Cartesian, 2), "other", 2, 2), 0), "double", TRUE, XYZ),
  Kit(Grouped(Header(Cartesian, 0), "rowIndex", 2, 2), "double", TRUE, Zeros(Cartesian, 0)),
  Kit(Grouped(Header(Cartesian, 2), "columnIndex", 0, 2), "double", TRUE, XYZ)}

MCMoreKits == {Plain, Wrong, Kit(Header(Normals, 2), "double", TRUE, [f \in Normals |-> <<4, -2>>])}

MCPointKits == {
  [coord |-> "double", data |-> XYZ, count |-> 2],
  [coord |-> "double", data |-> [f \in Cartesian |-> <<1, 99>>], count |-> 2],
  [coord |-> "float", data |-> Zeros(Cartesian, 1), count |-> 1]}

G(start, id, count) == [startPointIndex |-> start, idElementValue |-> id, pointCount |-> count]
MCGroupKits == {
  [data |-> G(<<0, 1>>, <<0, 1>>, <<1, 1>>), count |-> 2],
  [data |-> G(<<0, 1>>, <<0, 2>>, <<1, 1>>), count |-> 2]}

Pictured(name, jpeg, png, mask) ==
  [Image2D EXCEPT !.representations[name] =
     [jpegImage |-> jpeg, pngImage |-> png, imageMask |-> mask, geometry |-> 5]]

Pinhole ==
  [Pictured("pinholeRepresentation", 0, 3, 2) EXCEPT
     !.guid = "g2", !.distortion = <<[cameraNumber |-> 2, CV |-> 7]>>,
     !.acquisitionDateTime = [dateTimeValue |-> 3, isAtomicClockReferenced |-> 0]]

MCImageKits == {
  Pinhole,
  [Image2D EXCEPT !.texts["associatedData3DGuid"] = "g1"],
  [Pictured("visualReferenceRepresentation", 2, 3, 0) EXCEPT
     !.representations["sphericalRepresentation"] =
       [jpegImage |-> 0, pngImage |-> 2, imageMask |-> 0, geometry |-> 6]],
  [Pictured("cylindricalRepresentation", 0, 0, 2) EXCEPT
     !.distortion = <<[cameraNumber |-> -1, CV |-> 7]>>,
     !.pose = [rotation |-> 1, translation |-> 0]]}

MCMoreImages == {Pinhole}

Part(projection, type, bytes, start) ==
  [projection |-> projection, type |-> type, bytes |-> bytes, start |-> start]
MCByteKits == {
  Part("visualReferenceRepresentation", "jpegImage", <<1, 2>>, 0),
  Part("pinholeRepresentation", "pngImage", <<3, 4>>, 1),
  Part("pinholeRepresentation", "pngImage", <<5>>, 0),
  Part("pinholeRepresentation", "imageMask", <<6, 7>>, 1)}

Piece(projection, type, start, count) ==
  [projection |-> projection, type |-> type, start |-> start, count |-> count]
MCByteRanges == {
  Piece("visualReferenceRepresentation", "jpegImage", 0, 2),
  Piece("pinholeRepresentation", "pngImage", 0, 3),
  Piece("pinholeRepresentation", "pngImage", 1, 2),
  Piece("pinholeRepresentation", "imageMask", 1, 2)}

MCOptions == {[guid |-> "", coordinateMetadata |-> "m"]}

Raw(rep, doConversion, doScaling) ==
  [rep |-> rep, doConversion |-> doConversion, doScaling |-> doScaling, base |-> "memory",
   stride |-> 1]
MCRawKits == {
  Raw("Int8", TRUE, TRUE), Raw("UInt8", TRUE, FALSE), Raw("UInt16", TRUE, TRUE),
  Raw("Int32", TRUE, TRUE), Raw("UInt32", TRUE, TRUE), Raw("Bool", TRUE, TRUE),
  Raw("Int64", TRUE, TRUE), Raw("Int64", FALSE, FALSE), Raw("Real32", TRUE, TRUE),
  Raw("Real64", TRUE, FALSE), [Raw("UString", TRUE, TRUE) EXCEPT !.stride = 0],
  [Raw("Int8", TRUE, TRUE) EXCEPT !.stride = 0]}
MCRawFields == {"cartesianY", "sphericalElevation", "intensity", "timeStamp", "colorRed"}
=============================================================================
