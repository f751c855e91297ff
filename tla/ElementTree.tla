----------------------------- MODULE ElementTree ----------------------------
(***************************************************************************)
(* An application builds the element tree of a new file with the public    *)
(* constructors, StructureNode::set, VectorNode::append and extensionsAdd, *)
(* closes the file, which writes the tree as XML, and the file is opened   *)
(* again, which parses the XML.                                            *)
(*                                                                         *)
(* A call that throws changes nothing, so only calls that succeed are      *)
(* steps.  The callers keep three rules the library does not enforce: a    *)
(* node is not put below itself, the children of a vector are appended     *)
(* and not set by path, and the prototype and the codecs of a vector are   *)
(* used for nothing else.                                                  *)
(***************************************************************************)
EXTENDS XmlParser

CONSTANTS
  Kits,       \* what an application builds its tree from
  Buffers,    \* lists of paths, for the buffers of a writer
  Starts,     \* logical offsets of the sections of compressed vectors
  MaxRecords  \* bound: records of a compressed vector

(***************************************************************************)
(* A kit has the nodes to construct, in this order; the compressed         *)
(* vectors, each given by the allowHeteroChildren of its codecs; the       *)
(* namespaces to register; the paths to set children at; and whether the   *)
(* application lets go of nodes.  The kits are the bounds of the search.   *)
(***************************************************************************)
ASSUME KitAssumption ==
  \A k \in Kits :
    /\ DOMAIN k = {"nodes", "vectors", "spaces", "paths", "drops"}
    /\ k.vectors \in Seq(BOOLEAN)
    /\ k.drops \in BOOLEAN
ASSUME BoundAssumption == Starts \subseteq Nat /\ MaxRecords \in Nat

VARIABLES
  heap,        \* the nodes of the file being written
  nameSpaces,  \* nameSpaces_, a function from prefixes to URIs
  kit          \* what is left of the kit

vars == <<heap, nameSpaces, kit, parserVars>>

Root == 1
Writing == outcome = "none"
Loose(n) == n # Root /\ IsRoot(heap, n) /\ ~heap[n].isAttached
\* Not a part of a compressed vector.
Free(n) == \A cv \in DOMAIN heap : n \notin {heap[cv].prototype, heap[cv].codecs}

Init ==
  /\ heap = SetAttachedRecursive(NewNode(<<>>, "Structure", <<>>), Root)
  /\ nameSpaces = <<>>
  /\ kit \in Kits
  /\ xml = <<>> /\ position = 0 /\ stack = <<>>
  /\ read = <<>> /\ readNames = <<>> /\ readRoot = NoNode
  /\ outcome = "none"

\* The constructors of the other nodes, and extensionsAdd, come first: they
\* commute with all that follows.
Constructed == kit.nodes = <<>> /\ kit.spaces = <<>>

\* A step of the application that makes the heap h.
Builds(h) ==
  /\ heap' = h
  /\ UNCHANGED <<nameSpaces, parserVars>>

Succeeds(r) == r.error = "none" /\ Builds(r.heap)

\* The constructors of StructureNode, VectorNode and the leaves: a value out
\* of bounds is refused.
Construct ==
  /\ kit.nodes # <<>>
  /\ LET new == Head(kit.nodes)
         attr == LeafCtor(new.type, new.attr)
     IN  IF ValidateValue(new.type, attr) THEN Builds(NewNode(heap, new.type, attr))
         ELSE Builds(heap)
  /\ kit' = [kit EXCEPT !.nodes = Tail(@)]

\* extensionsAdd: refused if the prefix or the URI is known.
ExtensionsAdd ==
  /\ kit.spaces # <<>>
  /\ LET prefix == Head(kit.spaces)[1]
         uri == Head(kit.spaces)[2]
     IN  nameSpaces' = IF prefix \in DOMAIN nameSpaces \/ uri \in Range(nameSpaces)
                       THEN nameSpaces ELSE nameSpaces @@ (prefix :> uri)
  /\ kit' = [kit EXCEPT !.spaces = Tail(@)]
  /\ UNCHANGED <<heap, parserVars>>

\* The CompressedVectorNode constructor, with codecs made for it.
NewCompressedVector(p) ==
  /\ kit.vectors # <<>>
  /\ Loose(p) /\ Free(p) /\ heap[p].type = "Structure"
  /\ LET h1 == NewNode(heap, "Vector", [hetero |-> Head(kit.vectors)])
         h2 == NewNode(h1, "CompressedVector", [recordCount |-> 0, start |-> 0])
         cv == FreshNode(h1)
         r == SetPrototype(h2, cv, p)
     IN  /\ r.error = "none"
         /\ Succeeds(SetCodecs(r.heap, cv, FreshNode(heap)))
  /\ kit' = [kit EXCEPT !.vectors = Tail(@)]

\* StructureNode::set
StructureSet(s, path, n) ==
  /\ heap[s].type = "Structure"
  /\ Free(n) /\ GetRoot(heap, s) \notin Below(heap, n)
  /\ LET r == SetPath(heap, DOMAIN nameSpaces, s, path, n)
     IN  /\ \A v \in DOMAIN heap :
              heap[v].type = "Vector" => r.heap[v].children = heap[v].children
         /\ Succeeds(r)

\* VectorNode::append
VectorAppend(v, n) ==
  /\ heap[v].type = "Vector"
  /\ Free(v) /\ Free(n) /\ GetRoot(heap, v) \notin Below(heap, n)
  /\ Len(heap[v].children) <= MaxIndex
  /\ Succeeds(AppendNode(heap, v, n))

\* A compressed vector is written, and its writer closed.  (Module ImageFile
\* has the allocation of the section.)
WriteRecords(cv, bufs, count, start) ==
  /\ heap[cv].type = "CompressedVector"
  /\ WriterAccepts(heap, DOMAIN nameSpaces, cv, bufs)
  /\ Builds([heap EXCEPT ![cv].attr.recordCount = count, ![cv].attr.start = start])

\* The last handle to a node that nothing owns goes out of scope; the nodes
\* in kept are held elsewhere.
ReleaseNode(n, kept) ==
  /\ kit.drops
  /\ Loose(n) /\ Free(n)
  /\ Builds(Release(heap, n, kept))

(***************************************************************************)
(* The file is closed and opened again.  What is not attached is not       *)
(* written: it is enough to close when nothing is loose.                   *)
(***************************************************************************)
CloseAndOpen ==
  /\ Writing
  /\ Constructed
  /\ \A n \in DOMAIN heap : heap[n].isAttached
  /\ xml' = WriteXml(heap, nameSpaces, Root)
  /\ outcome' = "reading"
  /\ UNCHANGED <<heap, nameSpaces, kit, position, stack, read, readNames, readRoot>>

Grow ==
  /\ Constructed
  /\ \/ \E s, n \in DOMAIN heap, path \in kit.paths : StructureSet(s, path, n)
     \/ \E v, n \in DOMAIN heap : VectorAppend(v, n)
     \/ \E cv \in DOMAIN heap, bufs \in Buffers, count \in 1 .. MaxRecords, start \in Starts :
          WriteRecords(cv, bufs, count, start)
     \/ \E n \in DOMAIN heap : \E kept \in SUBSET (Below(heap, n) \ {n}) :
          ReleaseNode(n, kept)
  /\ UNCHANGED kit

Build ==
  /\ Writing
  /\ \/ Construct
     \/ ExtensionsAdd
     \/ Constructed /\ \E p \in DOMAIN heap : NewCompressedVector(p)
     \/ Grow

Next ==
  \/ Build
  \/ CloseAndOpen
  \/ Parse /\ UNCHANGED <<heap, nameSpaces, kit>>

Spec == Init /\ [][Next]_vars

-----------------------------------------------------------------------------
(* Properties. *)

\* Pointers of a heap lead to its nodes.
Closed(h) ==
  \A n \in DOMAIN h : Owned(h, n) \cup ({h[n].parent} \ {NoNode}) \subseteq DOMAIN h

\* Type invariant: nodes are as the classes declare them, no pointer of
\* NodeImpl and its subclasses dangles, and the open elements of the parser
\* (stack_) are part of the document.
TypeOK ==
  /\ \A h \in {heap, read} : Closed(h) /\ \A n \in DOMAIN h :
       /\ DOMAIN h[n] = {"type", "attr", "parent", "elementName", "isAttached",
                         "children", "prototype", "codecs"}
       /\ h[n].isAttached \in BOOLEAN
       /\ h[n].children \in Seq(DOMAIN h)
  /\ position \in 0 .. Len(xml)
  /\ Len(stack) <= position
  /\ outcome \in {"none", "reading", "read", "refused"}

\* A child that set was given with a path that ends with a slash.
Unnamed(h, n) == ~IsRoot(h, n) /\ h[n].elementName = EmptyName

\* Nodes that cannot be found by their path names: an unnamed child, and in
\* the tree of the file all that is below one.
Unreachable(h, root, n) ==
  \/ Unnamed(h, n)
  \/ GetRoot(h, n) = root /\ \E m \in ProperAncestors(h, n) : Unnamed(h, m)

\* The class invariants the checkInvariant functions of Node, StructureNode,
\* VectorNode, CompressedVectorNode and the numeric leaves test hold after
\* every operation of the application, of every node, attached or not, and of
\* the tree the parser built; with one exception.  set takes a path "a/" and
\* makes a child with the empty name: on that child, its parent and, when
\* they are in the file, the nodes below it, checkInvariant throws.
ClassInvariant ==
  /\ Writing => \A n \in DOMAIN heap :
       CheckInvariant(heap, DOMAIN nameSpaces, Root, n) <=>
         /\ ~Unreachable(heap, Root, n)
         /\ \A i \in DOMAIN heap[n].children : ~Unnamed(heap, heap[n].children[i])
  /\ outcome = "read" => \A n \in DOMAIN read :
       CheckInvariant(read, DOMAIN readNames, readRoot, n)

\* A relationship of a parent and a child, once set, stays (setParent): while
\* both exist, no operation gives a node another parent, name or place, and
\* an attached node stays attached and in the file.
RelationsStay ==
  [][\A n \in DOMAIN heap :
       /\ heap[n].isAttached => n \in DOMAIN heap' /\ heap'[n].isAttached
       /\ n \in DOMAIN heap' =>
            /\ heap[n].parent \in DOMAIN heap' =>
                 /\ heap'[n].parent = heap[n].parent
                 /\ heap'[n].elementName = heap[n].elementName
            /\ IsPrefix(heap[n].children, heap'[n].children)]_heap

\* Nodes below n hold no compressed vector.
Plain(h, n) == \A m \in Below(h, n) : h[m].type # "CompressedVector"

\* The children of a homogeneous vector stay equivalent (isTypeEquivalent),
\* whatever is set below them later: the check of append and the rule of
\* isTypeConstrained together see to it, unless there are compressed vectors
\* among them.
VectorsUniform ==
  Writing => \A v \in DOMAIN heap :
    heap[v].type = "Vector" /\ ~heap[v].attr.hetero /\ Plain(heap, v) =>
      \A i, j \in DOMAIN heap[v].children :
        IsTypeEquivalent(heap, heap[v].children[i], heap[v].children[j])

\* Buffers that a writer accepts (checkBuffers, EncoderFactory) leave no leaf
\* of the prototype without one.
LeavesCovered ==
  Writing => \A cv \in DOMAIN heap, bufs \in Buffers :
    heap[cv].type = "CompressedVector" /\ WriterAccepts(heap, DOMAIN nameSpaces, cv, bufs) =>
      LET proto == heap[cv].prototype
      IN  \A i \in DOMAIN Terminals(heap, proto) :
            \E k \in DOMAIN bufs :
              BufferNode(heap, DOMAIN nameSpaces, proto, bufs[k])
                = Terminals(heap, proto)[i]

\* The tree as the XML section keeps it.
StoredHeap ==
  [n \in DOMAIN heap |-> [heap[n] EXCEPT !.attr = StoredAttr(heap[n].type, @)]]

\* What a tree needs to be readable again, and the application interface
\* does not ask for.
Readable ==
  /\ \A n \in DOMAIN heap :
       ~IsRoot(heap, n) /\ heap[heap[n].parent].type = "Structure" =>
         /\ heap[n].elementName.local \notin Numerals \cup {""}
         /\ heap[n].type = "Structure" => heap[n].elementName.local # "e57Root"
  /\ \A n \in DOMAIN heap :
       heap[n].type = "Float" /\ heap[n].attr.precision = "single" =>
         Single(heap[n].attr.value) \notin {FLOAT_MIN, FLOAT_MAX}
  /\ \A cv \in DOMAIN heap :
       heap[cv].type = "CompressedVector" => heap[heap[cv].codecs].attr.hetero
  /\ \A v \in DOMAIN heap :
       heap[v].type = "Vector" /\ ~heap[v].attr.hetero =>
         \A i, j \in DOMAIN heap[v].children :
           IsTypeEquivalent(StoredHeap, heap[v].children[i], heap[v].children[j])
  /\ "" \in DOMAIN nameSpaces \/ VERSION_1_0_URI \notin Range(nameSpaces)

\* A file is opened again exactly when its tree is Readable: no other tree
\* that set and append let an application build is refused by E57XmlParser.
\* One that is refused has a single precision float of FLT_MAX or -FLT_MAX,
\* which the eight digits of its text take out of the bounds it is read with.
ReaderAccepts ==
  /\ outcome = "read" => Readable
  /\ outcome = "refused" => ~Readable

\* Two trees are the same: types, attributes, names, order, attachment.
SameTree(h, n, g, m) ==
  LET same[p \in (DOMAIN h) \X (DOMAIN g)] ==
        LET x == h[p[1]]
            y == g[p[2]]
        IN  /\ x.type = y.type
            /\ x.attr = y.attr
            /\ x.isAttached = y.isAttached
            /\ Len(x.children) = Len(y.children)
            /\ \A i \in DOMAIN x.children :
                 /\ h[x.children[i]].elementName = g[y.children[i]].elementName
                 /\ same[<<x.children[i], y.children[i]>>]
            /\ x.prototype # NoNode =>
                 /\ y.prototype # NoNode /\ same[<<x.prototype, y.prototype>>]
                 /\ y.codecs # NoNode /\ same[<<x.codecs, y.codecs>>]
  IN  same[<<n, m>>]

\* What is read is what was written (writeXml against the handlers of
\* E57XmlParser): the same tree, with sections at the same offsets and the
\* same extensions registered, but for the value and bounds of a single
\* precision float, each a double with the eight digits its float was written
\* with.
RoundTrip ==
  outcome = "read" =>
    /\ SameTree(StoredHeap, Root, read, readRoot)
    /\ DOMAIN readNames = DOMAIN nameSpaces \cup {""}
=============================================================================
