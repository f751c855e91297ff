----------------------------- MODULE XmlParser ------------------------------
(***************************************************************************)
(* The XML section: the writeXml functions of the nodes, which turn a tree *)
(* into elements, and the SAX handlers of E57XmlParser.cpp, which turn     *)
(* them into a tree again.                                                 *)
(*                                                                         *)
(* A document is a sequence of the events its parser will report: the      *)
(* start of an element with its attributes, text, the end of an element.   *)
(* An integer and a double are read back from their decimals as they were; *)
(* a number of single precision is cast to float, and its eight digits are *)
(* read as a double (FloatText).  The SAX parser is Xerces: all that is    *)
(* asked of it is to stop with fatalError at a document that is not        *)
(* well-formed.                                                            *)
(***************************************************************************)
EXTENDS NodeTree, PageOffset

VARIABLES
  xml,        \* the document
  position,   \* events the parser has taken
  stack,      \* stack_: the ParseInfo of each open element
  read,       \* the nodes of the ImageFile being opened
  readNames,  \* its nameSpaces_, a function from prefixes to URIs
  readRoot,   \* root_
  outcome     \* "none", "reading", "read", or "refused"

parserVars == <<xml, position, stack, read, readNames, readRoot, outcome>>

-----------------------------------------------------------------------------
(* writeXml. *)

Start(name, type, attributes) ==
  [tag |-> "start", name |-> name, type |-> type, attributes |-> attributes]
Text(chars) == [tag |-> "text", chars |-> chars]
End(name) == [tag |-> "end", name |-> name]

\* One attribute, if it is not the default.
Unless(default, name, value) == IF default THEN <<>> ELSE name :> value

\* FloatNodeImpl::writeXml: the limits and the digits go by the precision.
FloatAttributes(a) ==
  IF a.precision = "single"
  THEN ("precision" :> "single")
         @@ Unless(a.minimum <= FLOAT_MIN, "minimum", FloatText(a.minimum))
         @@ Unless(a.maximum >= FLOAT_MAX, "maximum", FloatText(a.maximum))
  ELSE Unless(a.minimum <= DOUBLE_MIN, "minimum", a.minimum)
         @@ Unless(a.maximum >= DOUBLE_MAX, "maximum", a.maximum)

\* IntegerNodeImpl::writeXml
IntegerAttributes(a) ==
  Unless(a.minimum = INT64_MIN, "minimum", a.minimum)
    @@ Unless(a.maximum = INT64_MAX, "maximum", a.maximum)

\* Mutant: a scale of 1 is the default only when the offset is 0.
ScaledAttributesOffset(a) ==
  IntegerAttributes(a) @@ Unless(a.scale = 1 \/ a.offset # 0, "scale", a.scale)
    @@ Unless(a.offset = 0, "offset", a.offset)

\* ScaledIntegerNodeImpl::writeXml
ScaledAttributes(a) ==
  IntegerAttributes(a) @@ Unless(a.scale = 1, "scale", a.scale)
    @@ Unless(a.offset = 0, "offset", a.offset)

\* The positions of "]]>" in a string.
Terminators(v) ==
  {i \in 1 .. (Len(v) - 2) : SubSeq(v, i, i + 2) = <<"]", "]", ">">>}

\* Mutant: the cut comes after the ">".
CdataCutLate(v) ==
  LET ends == SetToSortSeq({i + 2 : i \in Terminators(v)} \cup {Len(v)}, <)
  IN  [k \in DOMAIN ends |->
         Text(SubSeq(v, (IF k = 1 THEN 0 ELSE ends[k - 1]) + 1, ends[k]))]

\* StringNodeImpl::writeXml: a "]]>" is split across two CDATA sections.
Cdata(v) ==
  LET ends == SetToSortSeq({i + 1 : i \in Terminators(v)} \cup {Len(v)}, <)
  IN  IF v = <<>> THEN <<>>
      ELSE [k \in DOMAIN ends |->
              Text(SubSeq(v, (IF k = 1 THEN 0 ELSE ends[k - 1]) + 1, ends[k]))]

\* The attributes of a node; a blob and a compressed vector say where their
\* binary section starts, as a physical offset.
Attributes(type, a) ==
  CASE type = "Integer" -> IntegerAttributes(a)
    [] type = "ScaledInteger" -> ScaledAttributes(a)
    [] type = "Float" -> FloatAttributes(a)
    [] type = "Blob" -> ("fileOffset" :> logicalToPhysical(a.start)) @@ ("length" :> a.length)
    [] type = "Vector" -> "allowHeterogeneousChildren" :> (IF a.hetero THEN 1 ELSE 0)
    [] type = "CompressedVector" ->
         ("fileOffset" :> logicalToPhysical(a.start)) @@ ("recordCount" :> a.recordCount)
    [] OTHER -> <<>>

\* The text of a leaf: a number unless it is 0, a string unless it is empty.
LeafText(type, a) ==
  CASE type \in {"Integer", "ScaledInteger"} ->
         IF a.value = 0 THEN <<>> ELSE <<Text(<<a.value>>)>>
    [] type = "Float" ->
         IF a.value = 0 THEN <<>>
         ELSE <<Text(<<IF a.precision = "single" THEN FloatText(a.value) ELSE a.value>>)>>
    [] type = "String" -> Cdata(a.value)
    [] OTHER -> <<>>

\* The name a child is written with: forcedFieldName in a vector.
ChildName(h, n, i) ==
  IF h[n].type = "Vector" THEN [prefix |-> "", local |-> "vectorChild"]
  ELSE h[h[n].children[i]].elementName

(***************************************************************************)
(* writeXml of the root, called by ImageFileImpl::close with the name      *)
(* e57Root.  The root declares the namespaces of the file, and the one of  *)
(* the standard when there is no default.                                  *)
(***************************************************************************)
WriteXml(h, nameSpaces, root) ==
  LET element(name, n, attributes, content) ==
        <<Start(name, h[n].type, attributes)>> \o content \o <<End(name)>>
      content[n \in DOMAIN h] ==
        LET child(name, c) ==
              element(name, c, Attributes(h[c].type, h[c].attr), content[c])
        IN  IF h[n].type \in {"Structure", "Vector"}
            THEN FlattenSeq([i \in DOMAIN h[n].children |->
                               <<Text(<<" ">>)>>
                                 \o child(ChildName(h, n, i), h[n].children[i])])
            ELSE IF h[n].type = "CompressedVector"
            THEN child([prefix |-> "", local |-> "prototype"], h[n].prototype)
                   \o child([prefix |-> "", local |-> "codecs"], h[n].codecs)
            ELSE LeafText(h[n].type, h[n].attr)
  IN  element([prefix |-> "", local |-> "e57Root"], root,
              "xmlns" :> (nameSpaces @@ ("" :> VERSION_1_0_URI)), content[root])

-----------------------------------------------------------------------------
(* The handlers. *)

\* Xerces: the name of an element is an XML name, and a CDATA section ends
\* at its first "]]>".
WellFormed(e) ==
  CASE e.tag = "start" -> e.name.local \notin Numerals \cup {""}
    [] e.tag = "text" -> Terminators(e.chars) = {}
    [] OTHER -> TRUE

\* An attribute, or its default.
Given(attributes, name, default) ==
  IF name \in DOMAIN attributes THEN attributes[name] ELSE default

\* The attributes of a Float, with the defaults of its precision.
FloatInfo(attributes) ==
  LET single == Given(attributes, "precision", "double") = "single"
  IN  [precision |-> IF single THEN "single" ELSE "double",
       minimum |-> Given(attributes, "minimum", IF single THEN FLOAT_MIN ELSE DOUBLE_MIN),
       maximum |-> Given(attributes, "maximum", IF single THEN FLOAT_MAX ELSE DOUBLE_MAX)]

\* The attributes of an Integer.
IntegerInfo(attributes) ==
  [minimum |-> Given(attributes, "minimum", INT64_MIN),
   maximum |-> Given(attributes, "maximum", INT64_MAX)]

\* Of a ScaledInteger.
ScaledIntegerInfo(attributes) ==
  [minimum |-> Given(attributes, "minimum", INT64_MIN),
   maximum |-> Given(attributes, "maximum", INT64_MAX),
   scale |-> Given(attributes, "scale", 1),
   offset |-> Given(attributes, "offset", 0)]

\* What startElement stores in the ParseInfo of a leaf; the constructor of a
\* BlobNodeImpl from it turns the offset into a logical one.
LeafInfo(type, attributes) ==
  CASE type = "Integer" -> IntegerInfo(attributes)
    [] type = "ScaledInteger" -> ScaledIntegerInfo(attributes)
    [] type = "Float" -> FloatInfo(attributes)
    [] type = "Blob" -> [start |-> physicalToLogical(attributes["fileOffset"]),
                         length |-> attributes["length"]]
    [] OTHER -> <<>>

\* And the attributes of the container it creates.
ContainerAttr(type, attributes) ==
  CASE type = "Vector" ->
         [hetero |-> Given(attributes, "allowHeterogeneousChildren", 0) = 1]
    [] type = "CompressedVector" ->
         [recordCount |-> attributes["recordCount"],
          start |-> physicalToLogical(attributes["fileOffset"])]
    [] OTHER -> <<>>

Info(type, container, attr) ==
  [type |-> type, container |-> container, attr |-> attr, text |-> <<>>]

IsContainer(type) == type \in {"Structure", "Vector", "CompressedVector"}

Refuse ==
  /\ outcome' = "refused"
  /\ UNCHANGED <<xml, position, stack, read, readNames, readRoot>>

Event == xml[position + 1]

\* fatalError: Xerces stops.
FatalError ==
  /\ outcome = "reading"
  /\ ~WellFormed(Event)
  /\ Refuse

\* A container is created at its start, to hold the children; that of
\* e57Root is attached at once, so that each child is when it is added.
StartContainer(type, attributes, isE57Root) ==
  LET h == NewNode(read, type, ContainerAttr(type, attributes))
  IN  IF isE57Root THEN SetAttachedRecursive(h, FreshNode(read)) ELSE h

\* extensionsAdd of each declaration; <<>> when one is refused.
Declare(declared) ==
  LET all == readNames @@ declared
  IN  IF IsInjective(all) /\ DOMAIN readNames \cap DOMAIN declared = {} THEN all ELSE <<>>

\* startElement: a Structure called e57Root declares the namespaces, and has
\* to have a default one.
StartElement ==
  /\ outcome = "reading"
  /\ WellFormed(Event)
  /\ Event.tag = "start"
  /\ LET e == Event
         isE57Root == e.type = "Structure" /\ e.name.local = "e57Root"
     IN  IF isE57Root /\ "xmlns" \notin DOMAIN e.attributes THEN Refuse
         ELSE IF isE57Root /\ Declare(e.attributes["xmlns"]) = <<>> THEN Refuse
         ELSE /\ position' = position + 1
              /\ readNames' = IF isE57Root THEN Declare(e.attributes["xmlns"])
                              ELSE readNames
              /\ read' = IF IsContainer(e.type)
                         THEN StartContainer(e.type, e.attributes, isE57Root)
                         ELSE read
              /\ stack' = Append(stack,
                            IF IsContainer(e.type)
                            THEN Info(e.type, FreshNode(read), <<>>)
                            ELSE Info(e.type, NoNode, LeafInfo(e.type, e.attributes)))
              /\ UNCHANGED <<xml, readRoot, outcome>>

\* characters: white space in a container, and part of the value of a leaf.
Characters ==
  /\ outcome = "reading"
  /\ WellFormed(Event)
  /\ Event.tag = "text"
  /\ LET top == stack[Len(stack)]
     IN  IF IsContainer(top.type) \/ top.type = "Blob"
         THEN IF Event.chars = <<" ">>
              THEN /\ position' = position + 1
                   /\ UNCHANGED <<xml, stack, read, readNames, readRoot, outcome>>
              ELSE Refuse
         ELSE /\ position' = position + 1
              /\ stack' = [stack EXCEPT ![Len(stack)].text = @ \o Event.chars]
              /\ UNCHANGED <<xml, read, readNames, readRoot, outcome>>

\* The attributes of the leaf made at the end of its element: a number is 0
\* when there was no text.
LeafAttr(top) ==
  CASE top.type \in {"Integer", "ScaledInteger", "Float"} ->
         ("value" :> (IF top.text = <<>> THEN 0 ELSE top.text[1])) @@ top.attr
    [] top.type = "String" -> [value |-> top.text]
    [] OTHER -> top.attr

\* A node that is complete is added to the container it stands in.  Codecs
\* are a vector, and a heterogeneous one.
AddToParent(h, prefixes, parent, name, n) ==
  CASE h[parent].type = "Structure" -> SetPath(h, prefixes, parent, NamePath(name), n)
    [] h[parent].type = "Vector" -> AppendNode(h, parent, n)
    [] name.local = "prototype" -> SetPrototype(h, parent, n)
    [] name.local = "codecs" ->
         IF h[n].type # "Vector" THEN Throws(h, "BadXMLFormat")
         ELSE IF ~h[n].attr.hetero THEN Throws(h, "BadXMLFormat")
         ELSE SetCodecs(h, parent, n)

(***************************************************************************)
(* endElement: make the node if it is a leaf, checking a value that was    *)
(* there, and add it to the element around it; the outermost one becomes   *)
(* the root of the file.                                                   *)
(***************************************************************************)
EndElement ==
  /\ outcome = "reading"
  /\ Event.tag = "end"
  /\ LET top == stack[Len(stack)]
         h == IF IsContainer(top.type) THEN read
              ELSE NewNode(read, top.type, LeafCtor(top.type, LeafAttr(top)))
         n == IF IsContainer(top.type) THEN top.container ELSE FreshNode(read)
         r == AddToParent(h, DOMAIN readNames, stack[Len(stack) - 1].container, Event.name, n)
     IN  IF /\ ~IsContainer(top.type) /\ top.text # <<>>
            /\ ~ValidateValue(top.type, h[n].attr)
         THEN Refuse
         ELSE IF Len(stack) = 1
         THEN /\ h[n].type = "Structure"
              /\ readRoot' = n
              /\ outcome' = "read"
              /\ stack' = <<>>
              /\ position' = position + 1
              /\ UNCHANGED <<xml, read, readNames>>
         ELSE IF stack[Len(stack) - 1].container = NoNode \/ r.error # "none"
         THEN Refuse
         ELSE /\ read' = r.heap
              /\ stack' = Front(stack)
              /\ position' = position + 1
              /\ UNCHANGED <<xml, readNames, readRoot, outcome>>

Parse == FatalError \/ StartElement \/ Characters \/ EndElement
=============================================================================
