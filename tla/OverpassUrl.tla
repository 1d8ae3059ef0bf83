---------------------------- MODULE OverpassUrl ----------------------------
(***************************************************************************)
(* Which endpoints fetch_osm_data may ask, and which of their spellings    *)
(* are one endpoint to its cache.                                          *)
(*                                                                         *)
(* A spelling is what Url::parse reads from a text, or NotAUrl; the port   *)
(* is 0 where it is left out or the scheme's own, which Url::parse drops,  *)
(* and the fragment "" where there is none.  The paths are alike.          *)
(***************************************************************************)
EXTENDS Integers

Endpoint(scheme, userinfo, host, port, fragment) ==
  [scheme |-> scheme, userinfo |-> userinfo, host |-> host, port |-> port, fragment |-> fragment]
NotAUrl == Endpoint("", FALSE, "", 0, "")

ALLOWED_OVERPASS_HOSTS ==
  {"overpass-api.de", "overpass.kumi.systems", "overpass.openstreetmap.ru",
   "maps.mail.ru", "overpass.osm.ch"}
DEFAULT_OVERPASS_URL == Endpoint("https", FALSE, "overpass-api.de", 0, "")

\* The extra hosts of a consumer relax the check of the host alone.
ValidateOverpassUrlWithHosts(url, extraHosts) ==
  /\ url # NotAUrl
  /\ url.scheme = "https" /\ ~ url.userinfo /\ url.port \in {0, 443}
  /\ url.host \in ALLOWED_OVERPASS_HOSTS \cup extraHosts

\* OVERPASS_URL, an Option, is read at every call and checked like any other.
DefaultOverpassUrl(env) == IF env = << >> THEN DEFAULT_OVERPASS_URL ELSE env[1]

IsDefaultPort(url) == <<url.scheme, url.port>> \in {<<"https", 443>>, <<"http", 80>>}

\* The scheme, the host, the userinfo and any other port stay apart.
CanonicalOverpassUrl(url) ==
  IF url = NotAUrl THEN url
  ELSE [url EXCEPT !.fragment = "", !.port = IF IsDefaultPort(url) THEN 0 ELSE @]
=============================================================================
