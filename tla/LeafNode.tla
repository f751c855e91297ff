------------------------------ MODULE LeafNode ------------------------------
(***************************************************************************)
(* The numeric leaves of an element tree: IntegerNodeImpl.cpp,             *)
(* ScaledIntegerNodeImpl.cpp and FloatNodeImpl.cpp.  The attributes of a   *)
(* leaf are a record of its value, its bounds and, by its type, precision, *)
(* scale and offset.                                                       *)
(***************************************************************************)
EXTENDS Integers

CONSTANTS
  INT64_MIN, INT64_MAX,     \* stand-ins for the limits of the code
  FLOAT_MIN, FLOAT_MAX,
  DOUBLE_MIN, DOUBLE_MAX,
  FloatStep,                \* distance of two floats; doubles are integers
  DecimalStep               \* distance of two numbers of eight decimal digits

\* The nearest multiple of step, of two the one above.
Nearest(x, step) == (((2 * x) + step) \div (2 * step)) * step

ASSUME LimitAssumption ==
  /\ {INT64_MIN, INT64_MAX, FLOAT_MIN, FLOAT_MAX, DOUBLE_MIN, DOUBLE_MAX} \subseteq Int
  /\ INT64_MIN < 0 /\ 0 < INT64_MAX
  /\ DOUBLE_MIN < FLOAT_MIN /\ FLOAT_MIN < 0 /\ 0 < FLOAT_MAX /\ FLOAT_MAX < DOUBLE_MAX
  /\ FloatStep \in Nat \ {0}
  /\ FLOAT_MIN % FloatStep = 0 /\ FLOAT_MAX % FloatStep = 0

\* FLT_MAX is 3.40282346...e+38: in eight digits, 3.4028235e+38, it is larger
\* than itself.  The float next to it is not.
ASSUME DecimalAssumption ==
  /\ DecimalStep \in Nat \ {0}
  /\ DOUBLE_MIN < Nearest(FLOAT_MIN, DecimalStep)
  /\ Nearest(FLOAT_MIN, DecimalStep) < FLOAT_MIN
  /\ FLOAT_MIN <= Nearest(FLOAT_MIN + FloatStep, DecimalStep)
  /\ Nearest(FLOAT_MAX - FloatStep, DecimalStep) <= FLOAT_MAX
  /\ FLOAT_MAX < Nearest(FLOAT_MAX, DecimalStep)
  /\ Nearest(FLOAT_MAX, DecimalStep) < DOUBLE_MAX

\* validateValue: the constructors of the numeric leaves refuse a value
\* outside the bounds.
ValidateValue(type, attr) ==
  type \in {"Integer", "ScaledInteger", "Float"} =>
    attr.minimum <= attr.value /\ attr.value <= attr.maximum

\* The FloatNodeImpl constructor keeps the bounds of a single within its
\* range; the other constructors take what they are given.
LeafCtor(type, attr) ==
  IF type = "Float" /\ attr.precision = "single"
  THEN [attr EXCEPT !.minimum = IF @ < FLOAT_MIN THEN FLOAT_MIN ELSE @,
                    !.maximum = IF @ > FLOAT_MAX THEN FLOAT_MAX ELSE @]
  ELSE attr

\* static_cast<float> of a double within the range of floats.
Single(x) == Nearest(x, FloatStep)

\* The text of a number of single precision, read as a double: the float is
\* written as one digit, a point and seven digits, which need not be exact.
\* (The 18 digits of a double are.)
FloatText(x) == Nearest(Single(x), DecimalStep)

\* What a leaf is after its bounds and value went through their text, and
\* the constructor of the leaf made of them.
StoredAttr(type, attr) ==
  IF type = "Float" /\ attr.precision = "single"
  THEN LeafCtor(type, [attr EXCEPT !.minimum = FloatText(@), !.maximum = FloatText(@),
                                   !.value = FloatText(@)])
  ELSE attr
=============================================================================
