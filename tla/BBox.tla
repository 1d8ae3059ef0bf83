-------------------------------- MODULE BBox --------------------------------
(* bbox: a box as a record, the tuples it is converted from and to, and the *)
(* check of one.  Coordinates are whole degrees, so all are finite.         *)
EXTENDS Integers

FromUnchecked(south, west, north, east) ==
  [south |-> south, west |-> west, north |-> north, east |-> east]

ValidateBBox(south, west, north, east) ==
  /\ south >= -90 /\ south <= 90 /\ north >= -90 /\ north <= 90
  /\ west >= -180 /\ west <= 180 /\ east >= -180 /\ east <= 180
  /\ south < north /\ west < east

\* BBox::new; << >> is its error.
NewBBox(south, west, north, east) ==
  IF ValidateBBox(south, west, north, east)
    THEN <<FromUnchecked(south, west, north, east)>>
    ELSE << >>

\* The order of the overturemaps command line, and that of this library.
Wsen(b) == <<b.west, b.south, b.east, b.north>>
Swne(b) == <<b.south, b.west, b.north, b.east>>

\* From<(f64, f64, f64, f64)>.
FromTuple(t) == FromUnchecked(t[1], t[2], t[3], t[4])
=============================================================================
