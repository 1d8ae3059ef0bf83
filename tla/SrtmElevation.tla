---------------------------- MODULE SrtmElevation ----------------------------
(***************************************************************************)
(* The pool and what its directory is for: the tiles of SrtmPool are those *)
(* of Box, and ElevationData::from_path loads the directory afterwards.    *)
(***************************************************************************)
EXTENDS SrtmPoolProps, TileGrid

CONSTANTS
  Box,
  Sides,          \* the samples along a side of the two kinds of tiles
  Ground(_, _),   \* the height in metres at a position in units
  Voids           \* the positions whose height the mirror does not know

ASSUME BoxAssumption ==
  /\ Box \in [south : Int, west : Int, north : Int, east : Int]
  /\ ~ Refused(Box)
  /\ Total = Rows(Box) * Cols(Box)

ASSUME SidesAssumption ==
  /\ Sides \subseteq Nat
  /\ {Srtm1, Srtm3} = {2 * n * n : n \in Sides}
  /\ \A n \in Sides : n > 1 /\ Deg % (n - 1) = 0

NameOf(i) == TileName(TilesForBBox(Box)[i + 1])

\* HgtTile::load tells the side from the length, an odd byte more or less;
\* 0 for a length it refuses.
Side(bytes) ==
  IF \E n \in Sides : bytes \div 2 = n * n
    THEN CHOOSE n \in Sides : bytes \div 2 = n * n
    ELSE 0

\* ElevationData::from_path: from the tiles that have a name and a length it
\* knows to their sides; the other files are skipped.
Loaded ==
  LET found == {i \in Idx : /\ files[i] # Absent /\ Side(files[i]) # 0
                            /\ ParseHgtFilename(NameOf(i)) # << >>}
      Named(t) == CHOOSE i \in found : ParseHgtFilename(NameOf(i)) = t
  IN  [t \in {ParseHgtFilename(NameOf(i)) : i \in found} |-> Side(files[Named(t)])]

\* What the mirror serves as tile t: neighbours share the samples of an edge.
Served(t, n) ==
  LET Lat(k) == (t[1] + 1) * Deg - (k \div n) * (Deg \div (n - 1))
      Lon(k) == t[2] * Deg + (k % n) * (Deg \div (n - 1))
  IN  [k \in 0 .. n * n - 1 |->
         IF [lat |-> Lat(k), lon |-> Lon(k)] \in Voids THEN VOID ELSE Ground(Lat(k), Lon(k))]

ElevationAt(p) ==
  LET t == LookupKey(p)
  IN  IF t \in DOMAIN Loaded /\ OnTile(t, p)
        THEN Interpolated(Served(t, Loaded[t]), t, Loaded[t], p)
        ELSE << >>

Points == [lat : Box.south .. Box.north, lon : Box.west .. Box.east]

\* Where the box ends on a whole degree, a point of that edge is looked up in
\* the tile beyond it, which tiles_for_bbox does not ask for.
BeyondEdge(p) ==
  \/ p.lat = Box.north /\ Box.north % Deg = 0
  \/ p.lon = Box.east /\ Box.east % Deg = 0

\* Less than a sample to the north or west, or up to one to the south or east.
NearVoid(p) ==
  LET step == Deg \div (Loaded[LookupKey(p)] - 1)
  IN  \E v \in Voids : v.lat - p.lat \in -step .. step - 1 /\ v.lon - p.lon \in 1 - step .. step

\* After a call that returned Ok the directory, read by the names of its
\* files, has the height of every point of the box but those on such an edge
\* or close to a void, south and west of zero and across tiles of different
\* resolutions as well: where the ground is bilinear it is the ground's own,
\* and a void never becomes part of a height.  No tile was fetched for nothing.
BoxIsServed ==
  call.pc = "ok" =>
    /\ \A p \in Points :
          LET e == ElevationAt(p)
          IN  /\ BeyondEdge(p) => e = << >>
              /\ e # << >> => e[1] = Deg * Deg * Ground(p.lat, p.lon)
              /\ e = << >> => BeyondEdge(p) \/ (LookupKey(p) \in DOMAIN Loaded /\ NearVoid(p))
    /\ \A t \in DOMAIN Loaded : \E p \in Points : LookupKey(p) = t /\ ~ BeyondEdge(p)
=============================================================================
