------------------------------ MODULE TileGrid ------------------------------
(***************************************************************************)
(* srtm::tiles_for_bbox and tile_name, which say what to download, and     *)
(* elevation, which finds a tile again by the name of its file and reads a *)
(* height from its samples.                                                *)
(*                                                                         *)
(* A degree is Deg units; a tile is its south-west corner in degrees; a    *)
(* file name is the sequence of the characters before ".hgt".  A float is  *)
(* an integer number of units, so a height is in Deg * Deg parts of a      *)
(* metre.                                                                  *)
(***************************************************************************)
EXTENDS Integers, Sequences, FiniteSets, SequencesExt

CONSTANTS Deg, MAX_SRTM_TILES

ASSUME GridAssumption == Deg \in Nat \ {0} /\ MAX_SRTM_TILES \in Nat

\* Mutant: a cast to an integer without floor.
Floor_Truncates(x) == IF x < 0 THEN -((-x) \div Deg) ELSE x \div Deg

Floor(x) == x \div Deg
Ceil(x) == -((-x) \div Deg)

Valid(b) ==
  /\ b.south < b.north /\ b.west < b.east
  /\ b.south >= -90 * Deg /\ b.north <= 90 * Deg
  /\ b.west >= -180 * Deg /\ b.east <= 180 * Deg

Rows(b) == Ceil(b.north) - Floor(b.south)
Cols(b) == Ceil(b.east) - Floor(b.west)

\* None where the box is not valid or takes too many tiles.
Refused(b) == ~ Valid(b) \/ Rows(b) * Cols(b) > MAX_SRTM_TILES
TilesForBBox(b) ==
  [k \in 1 .. Rows(b) * Cols(b) |->
     <<Floor(b.south) + (k - 1) \div Cols(b), Floor(b.west) + ((k - 1) % Cols(b))>>]

----------------------------------------------------------------------------
(* Names.                                                                   *)

DIGITS == <<"0", "1", "2", "3", "4", "5", "6", "7", "8", "9">>
Abs(n) == IF n < 0 THEN -n ELSE n
Two(n) == <<DIGITS[(n \div 10) + 1], DIGITS[(n % 10) + 1]>>
Three(n) == <<DIGITS[(n \div 100) + 1]>> \o Two(n % 100)

TileName(t) ==
  <<IF t[1] >= 0 THEN "N" ELSE "S">> \o Two(Abs(t[1]))
    \o <<IF t[2] >= 0 THEN "E" ELSE "W">> \o Three(Abs(t[2]))

IsNumber(s) == s # << >> /\ \A k \in DOMAIN s : s[k] \in Range(DIGITS)
ValueOf(s) ==
  FoldLeft(LAMBDA n, c : 10 * n + (CHOOSE d \in DOMAIN DIGITS : DIGITS[d] = c) - 1, 0, s)
Signed(letter, s) == IF letter \in {"S", "W"} THEN -ValueOf(s) ELSE ValueOf(s)

\* << >> for a name that is refused.
ParseHgtFilename(stem) ==
  LET ew   == SelectInSubSeq(stem, 2, Len(stem), LAMBDA c : c \in {"E", "W"})
      lat  == SubSeq(stem, 2, ew - 1)
      lon  == SubSeq(stem, ew + 1, Len(stem))
  IN  IF /\ Len(stem) >= 7 /\ stem[1] \in {"N", "S"} /\ ew > 0
         /\ IsNumber(lat) /\ IsNumber(lon)
        THEN <<Signed(stem[1], lat), Signed(stem[ew], lon)>>
        ELSE << >>

----------------------------------------------------------------------------
(* elevation.rs.                                                            *)

\* The tile asked for a point: also on an edge, only the one to the north-east.
LookupKey(p) == <<Floor(p.lat), Floor(p.lon)>>

\* HgtTile::elevation_at: within the tile or on any of its edges.
OnTile(t, p) ==
  /\ t[1] * Deg <= p.lat /\ p.lat <= (t[1] + 1) * Deg
  /\ t[2] * Deg <= p.lon /\ p.lon <= (t[2] + 1) * Deg

VOID == -32768

\* A file is a sequence of rows from the north, each of n samples from the
\* west; data[k] is its sample at offset k.
Sample(data, n, row, col) == data[row * n + col]

RowUnits(t, n, lat) == ((t[1] + 1) * Deg - lat) * (n - 1)
ColUnits(t, n, lon) == (lon - t[2] * Deg) * (n - 1)

\* Between the four samples around p, or << >> if any of them is void.
Interpolated(data, t, n, p) ==
  LET rf == RowUnits(t, n, p.lat)   cf == ColUnits(t, n, p.lon)
      r0 == rf \div Deg             c0 == cf \div Deg
      r1 == IF r0 + 1 < n - 1 THEN r0 + 1 ELSE n - 1
      c1 == IF c0 + 1 < n - 1 THEN c0 + 1 ELSE n - 1
      dr == rf % Deg                dc == cf % Deg
      h(r, c) == Sample(data, n, r, c)
  IN  IF VOID \in {h(r0, c0), h(r0, c1), h(r1, c0), h(r1, c1)}
        THEN << >>
        ELSE <<(Deg - dr) * (Deg - dc) * h(r0, c0) + (Deg - dr) * dc * h(r0, c1)
                 + dr * (Deg - dc) * h(r1, c0) + dr * dc * h(r1, c1)>>
=============================================================================
