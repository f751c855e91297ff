------------------------------ MODULE NodeTree ------------------------------
(***************************************************************************)
(* The element tree of an ImageFile: NodeImpl.cpp, StructureNodeImpl.cpp,  *)
(* VectorNodeImpl.cpp, CompressedVectorNodeImpl.cpp, the leaf nodes, and   *)
(* the element and path names of ImageFileImpl.cpp.                        *)
(*                                                                         *)
(* The nodes of one ImageFile are a heap: a function from node identities  *)
(* to records.  Every operation is an operator on a heap, so that the      *)
(* application that builds a tree and the XML parser that rebuilds it      *)
(* (module XmlParser) call the same code, as they do in the library.  An   *)
(* operation yields [error, heap]: an exception is an error other than     *)
(* "none", and leaves the heap as it was.                                  *)
(*                                                                         *)
(* An element name is a prefix and a local part.  A path name is the list  *)
(* of its names with two flags: whether it starts, and whether it ends,    *)
(* with a slash.                                                           *)
(***************************************************************************)
EXTENDS LeafNode, Sequences, FiniteSets, SequencesExt, TLC

CONSTANTS
  Malformed,   \* local parts that break the character rules of a name
  MaxIndex,    \* bound: largest number used as an element name
  VERSION_1_0_URI   \* the namespace of the standard

ASSUME NameAssumption ==
  /\ Malformed \subseteq STRING
  /\ MaxIndex \in Nat
  /\ VERSION_1_0_URI \in STRING

NoNode == 0
EmptyName == [prefix |-> "", local |-> ""]
\* The field name of a vector element: its index in decimal.
IndexName(i) == [prefix |-> "", local |-> ToString(i)]
Numerals == {ToString(i) : i \in 0 .. MaxIndex}

Throws(h, e) == [error |-> e, heap |-> h]
Returns(h) == [error |-> "none", heap |-> h]

-----------------------------------------------------------------------------
(* Names and paths. *)

\* elementNameParse(allowNumber = true), "none" or the exception; a name
\* that starts with a digit is all digits and has no prefix.
ElementNameParse(name) ==
  IF name = EmptyName THEN "PathNameEmpty"
  ELSE IF name.local \in Malformed \cup {""}
       THEN "PathNameMalformed"
       ELSE "none"

\* checkElementNameLegal: a prefix must have been registered.
CheckElementNameLegal(prefixes, name) ==
  IF ElementNameParse(name) # "none" THEN ElementNameParse(name)
  ELSE IF name.prefix # "" /\ name.prefix \notin prefixes
       THEN "PathNameExtensionNotRegistered"
       ELSE "none"

(***************************************************************************)
(* pathNameParse: the fields of a path.  A slash at the end stands for one *)
(* more field, the empty name, which is not checked.                       *)
(***************************************************************************)
PathNameParse(prefixes, path) ==
  LET bad == {i \in DOMAIN path.names :
                CheckElementNameLegal(prefixes, path.names[i]) # "none"}
  IN  [error |->
         IF bad # {}
         THEN CheckElementNameLegal(prefixes,
                path.names[CHOOSE i \in bad : \A j \in bad : i <= j])
         ELSE IF ~path.absolute /\ path.names = <<>> THEN "PathNameEmpty"
         ELSE "none",
       relative |-> ~path.absolute,
       fields |-> IF path.slash /\ path.names # <<>>
                  THEN Append(path.names, EmptyName) ELSE path.names]

-----------------------------------------------------------------------------
(* Walking a tree. *)

\* isRoot: parent_ is a weak pointer, and expired.
IsRoot(h, n) == h[n].parent = NoNode

\* parent(): a root is its own parent.
ParentOf(h, n) == IF IsRoot(h, n) THEN n ELSE h[n].parent

\* getRoot
GetRoot(h, n) ==
  LET root[m \in DOMAIN h] == IF IsRoot(h, m) THEN m ELSE root[h[m].parent]
  IN  root[n]

ProperAncestors(h, n) ==
  LET above[m \in DOMAIN h] ==
        IF IsRoot(h, m) THEN {} ELSE {h[m].parent} \cup above[h[m].parent]
  IN  above[n]

\* Mutant: the vector directly above is all that is looked at.
ConstrainedByParent(h, n) ==
  LET p == ParentOf(h, n)
  IN  /\ p # n
      /\ h[p].type = "Vector"
      /\ ~h[p].attr.hetero
      /\ Len(h[p].children) > 1

\* isTypeConstrained
IsTypeConstrained(h, n) ==
  \E p \in ProperAncestors(h, n) :
    \/ h[p].type = "Vector" /\ ~h[p].attr.hetero /\ Len(h[p].children) > 1
    \/ h[p].type = "CompressedVector"

\* The first child called name, if there is one.
Child(h, n, name) ==
  LET ks == {k \in DOMAIN h[n].children : h[h[n].children[k]].elementName = name}
  IN  IF ks = {} THEN NoNode
      ELSE h[n].children[CHOOSE k \in ks : \A l \in ks : k <= l]

\* The nodes a list of names leads to from n, one for each prefix of it.
Walk(h, n, fields) ==
  LET at[i \in 0 .. Len(fields)] ==
        IF i = 0 THEN n
        ELSE LET m == at[i - 1]
             IN  IF m = NoNode THEN NoNode ELSE Child(h, m, fields[i])
  IN  at

(***************************************************************************)
(* lookup of a parsed path.  A leaf and a CompressedVectorNode know no     *)
(* path but one that takes them to the root of their tree.  A path that    *)
(* ends with a slash is looked up by asking the node before the slash for  *)
(* the empty path, which throws: such a path finds no node, not even one   *)
(* that set gave the empty name.                                           *)
(***************************************************************************)
Lookup(h, n, p) ==
  IF Len(p.fields) > 1 /\ Last(p.fields) = EmptyName THEN NoNode
  ELSE IF p.relative
  THEN IF p.fields = <<>> THEN NoNode ELSE Walk(h, n, p.fields)[Len(p.fields)]
  ELSE Walk(h, GetRoot(h, n), p.fields)[Len(p.fields)]

\* The names from the node top down to n: relativePathName, and pathName
\* without its slashes when top is the root.
PathFrom(h, top, n) ==
  LET path[m \in DOMAIN h] ==
        IF m = top THEN <<>> ELSE Append(path[h[m].parent], h[m].elementName)
  IN  path[n]

\* The terminal nodes below n, from left to right, not entering a
\* CompressedVectorNode: what findTerminalPosition counts.
Terminals(h, n) ==
  LET leaves[m \in DOMAIN h] ==
        IF h[m].type \in {"Structure", "Vector"}
        THEN FlattenSeq([i \in DOMAIN h[m].children |-> leaves[h[m].children[i]]])
        ELSE IF h[m].type = "CompressedVector" THEN <<>>
        ELSE <<m>>
  IN  leaves[n]

\* The nodes a node keeps alive.
Owned(h, n) ==
  {h[n].children[i] : i \in DOMAIN h[n].children}
    \cup ({h[n].prototype, h[n].codecs} \ {NoNode})

\* All nodes kept alive by n, n included.
Below(h, n) ==
  LET below[m \in DOMAIN h] == {m} \cup UNION {below[c] : c \in Owned(h, m)}
  IN  below[n]

-----------------------------------------------------------------------------
(* The types of nodes. *)

\* What isTypeEquivalent compares in two leaves: all but the value, and for
\* a blob its length but not its place in the file.
Compared(attr) == [f \in DOMAIN attr \ {"value", "start"} |-> attr[f]]

(***************************************************************************)
(* isTypeEquivalent.  The children of two structures are matched by name,  *)
(* those of two vectors by position; the empty name can be compared but    *)
(* not looked up, so a child without a name has to be at the same place.   *)
(***************************************************************************)
IsTypeEquivalent(h, a, b) ==
  LET eq[p \in (DOMAIN h) \X (DOMAIN h)] ==
        LET x == h[p[1]]
            y == h[p[2]]
        IN  /\ x.type = y.type
            /\ CASE x.type = "Structure" ->
                      /\ Len(x.children) = Len(y.children)
                      /\ \A i \in DOMAIN x.children :
                           LET c == x.children[i]
                               d == Child(h, p[2], h[c].elementName)
                           IN  /\ d # NoNode /\ eq[<<c, d>>]
                               /\ h[c].elementName = EmptyName => d = y.children[i]
                 [] x.type = "Vector" ->
                      /\ x.attr.hetero = y.attr.hetero
                      /\ Len(x.children) = Len(y.children)
                      /\ \A i \in DOMAIN x.children :
                           eq[<<x.children[i], y.children[i]>>]
                 [] x.type = "CompressedVector" ->
                      /\ x.attr.recordCount = y.attr.recordCount
                      /\ eq[<<x.prototype, y.prototype>>]
                      /\ eq[<<x.codecs, y.codecs>>]
                 [] OTHER -> Compared(x.attr) = Compared(y.attr)
  IN  eq[<<a, b>>]

-----------------------------------------------------------------------------
(* Growing a tree. *)

\* The smallest identity not in use.
FreshNode(h) == CHOOSE n \in 1 .. (Cardinality(DOMAIN h) + 1) : n \notin DOMAIN h

\* The constructors of NodeImpl and its subclasses: a root, not attached.
NewNode(h, type, attr) ==
  h @@ (FreshNode(h) :> [type |-> type, attr |-> attr, parent |-> NoNode,
                         elementName |-> EmptyName, isAttached |-> FALSE,
                         children |-> <<>>,
                         prototype |-> NoNode, codecs |-> NoNode])

\* Mutant: the prototype and codecs of a compressed vector are left out.
AttachChildrenOnly(h, n) ==
  LET marked[m \in DOMAIN h] ==
        {m} \cup UNION {marked[h[m].children[i]] : i \in DOMAIN h[m].children}
  IN  [m \in DOMAIN h |->
         IF m \in marked[n] THEN [h[m] EXCEPT !.isAttached = TRUE] ELSE h[m]]

\* setAttachedRecursive: children, prototypes and codecs included.
SetAttachedRecursive(h, n) ==
  [m \in DOMAIN h |->
     IF m \in Below(h, n) THEN [h[m] EXCEPT !.isAttached = TRUE] ELSE h[m]]

\* Mutant: a node that has a parent is moved to the new one.
SetParentAnyway(h, n, p, name) ==
  LET g == [h EXCEPT ![n].parent = p, ![n].elementName = name]
  IN  IF h[n].isAttached THEN Throws(h, "AlreadyHasParent")
      ELSE Returns(IF h[p].isAttached THEN SetAttachedRecursive(g, n) ELSE g)

\* setParent
SetParent(h, n, p, name) ==
  LET g == [h EXCEPT ![n].parent = p, ![n].elementName = name]
  IN  IF ~IsRoot(h, n) \/ h[n].isAttached THEN Throws(h, "AlreadyHasParent")
      ELSE Returns(IF h[p].isAttached THEN SetAttachedRecursive(g, n) ELSE g)

\* setParent and then push_back.
AddChild(h, p, name, n) ==
  LET r == SetParent(h, n, p, name)
  IN  IF r.error # "none" THEN r
      ELSE Returns([r.heap EXCEPT ![p].children = Append(@, n)])

(***************************************************************************)
(* StructureNodeImpl::set(fields): go down as far as the names are found.  *)
(* A new child may only be missing at the last level: no public operation  *)
(* asks for autoPathCreate.  A leaf or a CompressedVectorNode on the way   *)
(* is an internal error.  A vector is treated as a structure.              *)
(***************************************************************************)
SetFields(h, s, fields, n) ==
  LET at == Walk(h, s, fields)
      level == CHOOSE i \in 0 .. (Len(fields) - 1) :
                 /\ at[i] # NoNode
                 /\ \A j \in (i + 1) .. (Len(fields) - 1) : at[j] = NoNode
  IN  IF fields = <<>> \/ at[Len(fields)] # NoNode THEN Throws(h, "SetTwice")
      ELSE IF h[at[level]].type \notin {"Structure", "Vector"}
           THEN Throws(h, "Internal")
      ELSE IF IsTypeConstrained(h, at[level])
           THEN Throws(h, "HomogeneousViolation")
      ELSE IF level < Len(fields) - 1 THEN Throws(h, "PathUndefined")
      ELSE AddChild(h, at[level], fields[Len(fields)], n)

\* StructureNodeImpl::set(pathName), of a structure or a vector.
SetPath(h, prefixes, s, path, n) ==
  LET p == PathNameParse(prefixes, path)
  IN  IF p.error # "none" THEN Throws(h, p.error)
      ELSE SetFields(h, IF p.relative THEN s ELSE GetRoot(h, s), p.fields, n)

\* VectorNodeImpl::append, which is set(childCount()).
AppendNode(h, v, n) ==
  IF /\ h[v].type = "Vector" /\ ~h[v].attr.hetero
     /\ \E i \in DOMAIN h[v].children : ~IsTypeEquivalent(h, h[v].children[i], n)
  THEN Throws(h, "HomogeneousViolation")
  ELSE IF IsTypeConstrained(h, v) THEN Throws(h, "HomogeneousViolation")
  ELSE AddChild(h, v, IndexName(Len(h[v].children)), n)

\* setPrototype: the prototype stays a root, and is not attached here.
SetPrototype(h, cv, p) ==
  IF h[cv].prototype # NoNode THEN Throws(h, "SetTwice")
  ELSE IF ~IsRoot(h, p) THEN Throws(h, "AlreadyHasParent")
  ELSE Returns([h EXCEPT ![cv].prototype = p])

\* setCodecs
SetCodecs(h, cv, c) ==
  IF h[cv].codecs # NoNode THEN Throws(h, "SetTwice")
  ELSE IF ~IsRoot(h, c) THEN Throws(h, "AlreadyHasParent")
  ELSE Returns([h EXCEPT ![cv].codecs = c])

\* Mutant: parent_ does not notice that the parent is gone.
ReleaseDangling(h, n, kept) ==
  LET alive == (DOMAIN h \ Below(h, n)) \cup UNION {Below(h, k) : k \in kept}
  IN  [m \in alive |-> h[m]]

\* A node whose last handle goes out of scope takes
\* what it owns with it, except the nodes of kept that are held elsewhere
\* and what those own; their weak parent_ pointers expire.
Release(h, n, kept) ==
  LET alive == (DOMAIN h \ Below(h, n)) \cup UNION {Below(h, k) : k \in kept}
  IN  [m \in alive |->
         IF h[m].parent \in alive THEN h[m] ELSE [h[m] EXCEPT !.parent = NoNode]]

-----------------------------------------------------------------------------
(* Buffers for the leaves of a prototype. *)

\* Mutant: leaves of other kinds than Float are not asked for.
FloatLeafListed(h, proto, leaf, paths) ==
  LET names == PathFrom(h, proto, leaf)
  IN  h[leaf].type = "Float" =>
        \/ [absolute |-> FALSE, names |-> names, slash |-> FALSE] \in paths
        \/ [absolute |-> TRUE, names |-> names, slash |-> FALSE] \in paths

\* checkLeavesInSet of a leaf: a Float may be listed by its absolute path,
\* the other leaves only by the path from the prototype.
LeafListed(h, proto, leaf, paths) ==
  LET names == PathFrom(h, proto, leaf)
  IN  \/ [absolute |-> FALSE, names |-> names, slash |-> FALSE] \in paths
      \/ /\ h[leaf].type = "Float"
         /\ [absolute |-> TRUE, names |-> names, slash |-> FALSE] \in paths

\* The node a buffer of a prototype is for.
BufferNode(h, prefixes, proto, path) ==
  Lookup(h, proto, PathNameParse(prefixes, path))

(***************************************************************************)
(* checkBuffers without allowMissing, of buffers of one capacity: "none"   *)
(* or the exception.  Two buffers are duplicates when their paths are      *)
(* spelled alike.                                                          *)
(***************************************************************************)
CheckBuffers(h, prefixes, proto, bufs) ==
  LET paths == {bufs[i] : i \in DOMAIN bufs}
  IN  IF \E p \in paths : PathNameParse(prefixes, p).error # "none"
      THEN "PathName"
      ELSE IF Cardinality(paths) < Len(bufs) THEN "BufferDuplicatePathName"
      ELSE IF \E p \in paths : BufferNode(h, prefixes, proto, p) = NoNode
      THEN "PathUndefined"
      ELSE IF \E i \in DOMAIN Terminals(h, proto) :
                ~LeafListed(h, proto, Terminals(h, proto)[i], paths)
      THEN "NoBufferForElement"
      ELSE "none"

(***************************************************************************)
(* The checks of CompressedVectorNodeImpl::writer and of the constructor   *)
(* of CompressedVectorWriterImpl, with no other writer or reader open: the *)
(* vector is attached, the buffers fit the prototype, and EncoderFactory   *)
(* knows an encoder for the type of each field.                            *)
(***************************************************************************)
WriterAccepts(h, prefixes, cv, bufs) ==
  LET proto == h[cv].prototype
  IN  /\ bufs # <<>>
      /\ h[cv].isAttached
      /\ h[proto].type \in {"Structure", "Vector"}
      /\ CheckBuffers(h, prefixes, proto, bufs) = "none"
      /\ \A i \in DOMAIN bufs :
           h[BufferNode(h, prefixes, proto, bufs[i])].type
             \in {"Integer", "ScaledInteger", "Float", "String"}

-----------------------------------------------------------------------------
(* The class invariants, as the checkInvariant functions state them. *)

\* The path that a name alone is.
NamePath(name) == [absolute |-> FALSE, names |-> <<name>>, slash |-> FALSE]

\* get(pathName), NoNode for an exception.
GetPath(h, prefixes, n, path) ==
  LET p == PathNameParse(prefixes, path)
  IN  IF p.error # "none" THEN NoNode ELSE Lookup(h, n, p)

\* Node::checkInvariant of a node of the tree, or of a prototype.
NodeInvariant(h, prefixes, root, n) ==
  /\ h[n].isAttached = h[ParentOf(h, n)].isAttached
  /\ n = root => h[n].isAttached /\ IsRoot(h, n)
  /\ ~IsRoot(h, n) =>
       /\ h[n].parent # n
       /\ h[h[n].parent].type \in {"Structure", "Vector"}
       /\ GetPath(h, prefixes, h[n].parent, NamePath(h[n].elementName)) = n
  /\ h[n].isAttached /\ GetRoot(h, n) = root =>
       GetPath(h, prefixes, root,
               [absolute |-> TRUE, names |-> PathFrom(h, root, n),
                slash |-> FALSE]) = n

\* StructureNode::checkInvariant and VectorNode::checkInvariant.
ChildrenInvariant(h, prefixes, n) ==
  \A i \in DOMAIN h[n].children :
    LET c == h[n].children[i]
    IN  /\ h[c].parent = n
        /\ GetPath(h, prefixes, n, NamePath(h[c].elementName)) = c

\* CompressedVectorNode::checkInvariant
PrototypeInvariant(h, n) ==
  h[n].type = "CompressedVector" =>
    \A p \in {h[n].prototype, h[n].codecs} :
      /\ p # NoNode
      /\ h[p].isAttached = h[n].isAttached
      /\ IsRoot(h, p)

\* IntegerNode, ScaledIntegerNode and FloatNode::checkInvariant
ValueInvariant(h, n) == ValidateValue(h[n].type, h[n].attr)

\* checkInvariant of a node and of its class.
CheckInvariant(h, prefixes, root, n) ==
  /\ NodeInvariant(h, prefixes, root, n)
  /\ ChildrenInvariant(h, prefixes, n)
  /\ PrototypeInvariant(h, n)
  /\ ValueInvariant(h, n)
=============================================================================
