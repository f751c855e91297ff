------------------------------ MODULE FlatFile ------------------------------
(***************************************************************************)
(* What CheckedFile (src/src/CheckedFile.h) promises its clients: an array *)
(* of bytes with a cursor, in which                                        *)
(*   - a write that returns has replaced exactly the bytes it was given;   *)
(*   - a write that throws has replaced some of those bytes and no others; *)
(*   - a read returns the bytes of the array or throws;                    *)
(*   - the storage may lose bytes of a file at rest, and a read that       *)
(*     verifies every page never returns one of those.                     *)
(* A byte no call ever stored, between the old end of the file and the     *)
(* start of a write beyond it, has no promised value.                      *)
(***************************************************************************)
EXTENDS Integers, Sequences

CONSTANTS
  Byte, Zero,  \* the byte values, and the byte 0
  Lost         \* stands for a byte the storage no longer holds

VARIABLES
  content,  \* the bytes, indexed from 1; Lost where none can be read
  mode,     \* "closed", "write" or "read"
  at,       \* the logical cursor
  policy,   \* percentage of pages a read verifies
  outcome   \* of the last call: [ok, data], data being the bytes transferred

vars == <<content, mode, at, policy, outcome>>

Returned == outcome'.ok
Threw == ~outcome'.ok
Transferred == outcome'.data

\* Byte i keeps its value; what was lost may come back as anything.
Kept(i) == content[i] = Lost \/ content'[i] = content[i]

Init ==
  /\ content = <<>>
  /\ mode = "closed"
  /\ at = 0
  /\ outcome = [ok |-> TRUE, data |-> <<>>]

Open ==
  /\ mode = "closed"
  /\ at' = 0
  /\ Returned
  /\ \/ mode' = "write" /\ content' = <<>>
     \/ /\ mode' = "read"
        /\ Len(content') >= Len(content)
        /\ \A i \in 1 .. Len(content) : content'[i] = content[i]

OpenFails ==
  /\ mode = "closed"
  /\ Threw
  /\ UNCHANGED <<content, mode, at, policy>>

Seek ==
  /\ mode # "closed"
  /\ at' \in Nat
  /\ Returned
  /\ UNCHANGED <<content, mode, policy>>

\* The bytes buf stored from offset start on, and nothing else touched.
Stored(start, buf) ==
  LET end == start + Len(buf)
  IN  /\ Len(content') = IF end > Len(content) THEN end ELSE Len(content)
      /\ \A i \in 1 .. Len(content') :
           IF i \in start + 1 .. end THEN content'[i] = buf[i - start]
           ELSE i <= Len(content) => Kept(i)
      /\ at' = end

\* Some of the bytes buf stored within the file, and nothing else touched.
PartlyStored(start, buf) ==
  /\ Len(content') = Len(content)
  /\ \A i \in 1 .. Len(content) :
       \/ Kept(i)
       \/ i \in start + 1 .. start + Len(buf) /\ content'[i] = buf[i - start]
  /\ at' \in Nat

WriteReturns ==
  /\ mode = "write"
  /\ Stored(at, Transferred)
  /\ Returned
  /\ UNCHANGED <<mode, policy>>

WriteThrows ==
  /\ mode = "write"
  /\ PartlyStored(at, Transferred)
  /\ Threw
  /\ UNCHANGED <<mode, policy>>

\* The file grows by zeros.
Extend ==
  /\ mode = "write"
  /\ \A i \in 1 .. Len(Transferred) : Transferred[i] = Zero
  /\ Stored(Len(content), Transferred)
  /\ Returned
  /\ UNCHANGED <<mode, policy>>

\* A call that throws without touching the bytes.
Refuse ==
  /\ mode # "closed"
  /\ Threw
  /\ at' \in Nat
  /\ UNCHANGED <<content, mode, policy>>

Read ==
  /\ mode # "closed"
  /\ Returned
  /\ at' = at + Len(Transferred)
  /\ at' <= Len(content)
  /\ \A i \in 1 .. Len(Transferred) :
       \/ Transferred[i] = content[at + i]
       \/ content[at + i] = Lost /\ policy < 100
  /\ UNCHANGED <<content, mode, policy>>

Close ==
  /\ mode # "closed"
  /\ mode' = "closed"
  /\ Returned
  /\ UNCHANGED <<content, at, policy>>

LoseBytes ==
  /\ mode = "closed"
  /\ Len(content') = Len(content)
  /\ \A i \in 1 .. Len(content) : content'[i] \in {content[i], Lost}
  /\ UNCHANGED <<mode, at, policy, outcome>>

Next ==
  \/ Open \/ OpenFails \/ Seek \/ WriteReturns \/ WriteThrows \/ Extend
  \/ Refuse \/ Read \/ Close \/ LoseBytes

Spec == Init /\ [][Next]_vars
=============================================================================
