----------------------------- MODULE MCSrtmPool -----------------------------
(* Instances of SrtmPool for TLC: tiles of 2 and of 3 samples a side stand *)
(* for SRTM3 and SRTM1, so files of 8 and 18 bytes are whole; 9 would pass  *)
(* for a tile of the smaller kind and 19 is over the cap.  The box crosses  *)
(* the equator and ends at the meridian of Greenwich; the ground rises to   *)
(* the north-east, and two samples are void, one of them only in SRTM1.     *)
EXTENDS SrtmElevation

MCBox   == [south |-> -2, west |-> -2, north |-> 6, east |-> 0]
Tiles   == Len(TilesForBBox(MCBox))
MCTotal == Tiles
MCSizes == [i \in 0 .. Tiles - 1 |-> IF i = 1 THEN {9, 8, 19} ELSE {9, 18, 19}]
MCGround(lat, lon) == 7 + 3 * lat + 2 * lon + lat * lon
MCVoids == {[lat |-> 6, lon |-> -2], [lat |-> 0, lon |-> -4]}
=============================================================================
