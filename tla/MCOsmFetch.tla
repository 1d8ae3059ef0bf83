---------------------------- MODULE MCOsmFetch -----------------------------
(* Instances of OsmFetch for TLC: wide contains near.                       *)
EXTENDS OsmFetchProps, OverpassUrl, Sequences, TLC

CONSTANTS c1, c2, s1

wide == [lo |-> 0, hi |-> 12]
near == [lo |-> 3, hi |-> 8]

Wish(box, url) == [box |-> box, url |-> url]

\* The default, another spelling of it, a host the consumer adds, and the
\* default without TLS.
Spelled(u) ==
  CASE u = "main" -> DefaultOverpassUrl(<< >>)
    [] u = "main#map" -> Endpoint("https", FALSE, "overpass-api.de", 0, "map")
    [] u = "mirror" -> Endpoint("https", FALSE, "overpass.example.org", 0, "")
    [] u = "other" -> Endpoint("http", FALSE, "overpass-api.de", 0, "")
Spellings == {"main", "main#map", "mirror", "other"}

\* TLC keeps the value of a definition, but not of the one that gives a constant
\* its value: those below only name another.
Canons == [u \in Spellings |-> CanonicalOverpassUrl(Spelled(u)).host \o
                                CanonicalOverpassUrl(Spelled(u)).scheme]
Approvals == {u \in Spellings : ValidateOverpassUrlWithHosts(Spelled(u), {"overpass.example.org"})}
MCCanon == Canons
MCApproved == Approvals

Nested  == {Wish(wide, "main"), Wish(near, "main#map"), Wish(near, "mirror"),
            Wish(near, "other")}
Same == {Wish(near, "main")}
WishKeys == {KeyOf(w.box, w.url) : w \in Wishes}
MCKeys  == WishKeys

Clients == Permutations(Writers)
=============================================================================
