----------------------------- MODULE MCPrograms -----------------------------
(* An instance of Programs: a chart of four points per power of ten, and    *)
(* frames with a header of two bytes, so that a read may end in the middle  *)
(* of a header, at its end, in a body and at the end of a frame.            *)
EXTENDS Programs

Sizes == [New |-> 4, Cancel |-> 3, Modify |-> 4, Report |-> 3]

\* The length of no frame, and a whole frame.
Misread == {[length |-> 2, fits |-> FALSE], [length |-> 3, fits |-> TRUE]}

PowersOfTen == <<100, 177, 316, 562, 1000, 1778, 3162, 5623>>
=============================================================================
