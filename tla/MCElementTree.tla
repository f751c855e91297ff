--------------------------- MODULE MCElementTree ---------------------------
EXTENDS ElementTree

Lowest == -10
LowestFloat == -8

Plain1 == [prefix |-> "", local |-> "a"]
Plain2 == [prefix |-> "", local |-> "b"]
Number == [prefix |-> "", local |-> "0"]
RootName == [prefix |-> "", local |-> "e57Root"]
Extended == [prefix |-> "x", local |-> "a"]
Broken == [prefix |-> "", local |-> "a b"]

To(absolute, names) == [absolute |-> absolute, names |-> names, slash |-> FALSE]
Slashed(names) == [absolute |-> FALSE, names |-> names, slash |-> TRUE]

Int0 == [type |-> "Integer", attr |-> [minimum |-> -10, maximum |-> 10, value |-> 0]]
Int1 == [type |-> "Integer", attr |-> [minimum |-> 0, maximum |-> 10, value |-> 1]]
IntBad == [type |-> "Integer", attr |-> [minimum |-> 1, maximum |-> 2, value |-> 3]]
Scaled == [type |-> "ScaledInteger",
           attr |-> [minimum |-> -10, maximum |-> 5, value |-> 0, scale |-> 2, offset |-> 3]]
Float1 == [type |-> "Float",
           attr |-> [precision |-> "single", minimum |-> -10, maximum |-> 5, value |-> 2]]
FloatMax == [type |-> "Float",
             attr |-> [precision |-> "single", minimum |-> -10, maximum |-> 10, value |-> 8]]
Float2 == [type |-> "Float",
           attr |-> [precision |-> "double", minimum |-> -10, maximum |-> 3, value |-> 3]]
String1 == [type |-> "String", attr |-> [value |-> <<"x", "]", "]", ">", "]", "]", ">">>]]
String0 == [type |-> "String", attr |-> [value |-> <<>>]]
Blob1 == [type |-> "Blob", attr |-> [start |-> 2044, length |-> 2]]

Struct == [type |-> "Structure", attr |-> <<>>]
Homo == [type |-> "Vector", attr |-> [hetero |-> FALSE]]
Hetero == [type |-> "Vector", attr |-> [hetero |-> TRUE]]

Kit(nodes, vectors, spaces, paths, drops) ==
  [nodes |-> nodes, vectors |-> vectors, spaces |-> spaces, paths |-> paths,
   drops |-> drops]

a == To(FALSE, <<Plain1>>)
xa == To(FALSE, <<Extended>>)

MCKits == {
  \* structures in a homogeneous vector
  Kit(<<Homo, Struct, Struct, Int0, Int1>>, <<>>, <<>>, {a}, FALSE),
  Kit(<<Homo, Struct, Struct, Struct, Struct, Int0>>, <<>>, <<>>, {a}, FALSE),
  \* compressed vectors in a homogeneous vector
  Kit(<<Homo, Struct, Struct, Float2, Float2>>, <<TRUE, TRUE>>, <<>>, {a}, FALSE),
  \* names
  Kit(<<Struct, Struct, Hetero, Int1>>, <<>>, <<<<"x", "ext">>, <<"y", "ext">>>>,
      {a, xa, To(FALSE, <<RootName>>), To(TRUE, <<Plain1, Number>>), To(FALSE, <<Broken>>)},
      FALSE),
  \* namespaces
  Kit(<<Struct>>, <<>>, <<<<"x", "v1">>>>, {a, xa}, FALSE),
  \* leaves
  Kit(<<Hetero, Scaled, Float1, String1, IntBad>>, <<>>, <<>>, {a}, FALSE),
  Kit(<<Float1, FloatMax>>, <<>>, <<>>, {a, To(FALSE, <<Plain2>>)}, FALSE),
  Kit(<<Homo, Blob1, Float2, String0>>, <<>>, <<<<"", "ext">>, <<"x", "v1">>>>, {a, xa}, FALSE),
  \* a path that ends with a slash
  Kit(<<Homo, Struct, Struct, Struct, Int0>>, <<>>, <<>>, {a, Slashed(<<Plain1>>)}, FALSE),
  \* nodes let go
  Kit(<<Struct, Struct, Hetero, Int0>>, <<>>, <<>>, {a, To(FALSE, <<Plain1, Plain1>>), Slashed(<<Plain1>>)}, TRUE),
  \* prototypes
  Kit(<<Struct, Int0, Float2>>, <<TRUE>>, <<<<"x", "ext">>>>, {a, xa}, TRUE),
  Kit(<<Struct, Float1>>, <<FALSE>>, <<>>, {a}, FALSE)}

MCBuffers ==
  {<<To(FALSE, <<Plain1>>)>>, <<To(TRUE, <<Plain1>>)>>,
   <<To(TRUE, <<Plain1>>), To(FALSE, <<Plain1>>)>>,
   <<To(FALSE, <<Extended>>)>>}

MCStarts == {48, 1064}
=============================================================================
