--------------------------- MODULE SourceOptions ---------------------------
(***************************************************************************)
(* source_options, filter and the defaults of sources: what a consumer's   *)
(* texts become.                                                           *)
(*                                                                         *)
(* A text is a string; Trimmed, Lower and Hyphened give for each text of   *)
(* an instance what str::trim, to_lowercase and replace('_', "-") make of  *)
(* it.  A list in one text is the sequence of the pieces between its       *)
(* commas, <<"">> for the empty text, and an entry of it the sequence of   *)
(* its parts at the first "=".  A parser gives None for its error.         *)
(***************************************************************************)
EXTENDS OvertureParse, PoiMerge

CONSTANTS Trimmed, Lower, Hyphened

----------------------------------------------------------------------------
(* Themes.                                                                  *)

\* One "s" at the end is stripped, of the address names none.
FromStrLoose(text) ==
  LET theme == Lower[text]
      Named(words) == theme \in words \cup {word \o "s" : word \in words}
  IN  CASE theme \in {"address", "addresses", "addr"} -> Some("Address")
        [] Named({"building"}) -> Some("Building")
        [] Named({"transportation", "transport", "road", "segment"}) -> Some("Transportation")
        [] Named({"place"}) -> Some("Place")
        [] Named({"base", "land", "land_use", "landuse", "water"}) -> Some("Base")
        [] OTHER -> None

\* The values of a function or sequence of Options, or None if one of them has none.
Collected(parsed) ==
  IF \E k \in DOMAIN parsed : parsed[k] = None
    THEN None
    ELSE Some([k \in DOMAIN parsed |-> parsed[k][1]])

ParseTheme(text) == FromStrLoose(Trimmed[text])

\* Only the empty text, and only the empty list, mean every theme.
ParseOvertureThemes(pieces) ==
  IF pieces = <<"">> THEN Some(AllThemes) ELSE Collected([k \in DOMAIN pieces |-> ParseTheme(pieces[k])])
ParseOvertureThemeList(list) ==
  IF list = << >> THEN Some(AllThemes) ELSE Collected([k \in DOMAIN list |-> ParseTheme(list[k])])

----------------------------------------------------------------------------
(* Priorities, which are parsed and kept but never asked for.               *)

ParseThemePriority(text) ==
  LET priority == Lower[text]
  IN  CASE priority = "overture" -> Some("Overture")
        [] priority = "osm" -> Some("Osm")
        [] priority = "both" -> Some("Both")
        [] OTHER -> None

ParsePriorityPair(pair) ==
  LET theme == ParseTheme(pair[1])
      priority == ParseThemePriority(Trimmed[pair[2]])
  IN  IF theme = None \/ priority = None THEN None ELSE Some(<<theme[1], priority[1]>>)

\* Blank entries are skipped; of two for one theme the last counts.
ParseOverturePriority(entries) ==
  LET kept  == Retain(entries, LAMBDA e : Len(e) > 1 \/ Trimmed[e[1]] # "")
      pairs == Collected([k \in DOMAIN kept |->
                 IF Len(kept[k]) = 2 THEN ParsePriorityPair(kept[k]) ELSE None])
  IN  IF pairs = None THEN None
      ELSE Some(FoldLeft(LAMBDA map, p : Insert(map, p[1], p[2]), << >>, pairs[1]))

PriorityFor(priority, theme) == IF theme \in DOMAIN priority THEN priority[theme] ELSE "Both"

----------------------------------------------------------------------------
(* The policies.                                                            *)

ParsePoiSourceMode(text) ==
  LET mode == Hyphened[Lower[text]]
  IN  CASE mode \in {"osm", "osm-only"} -> Some("OsmOnly")
        [] mode \in {"overture", "overture-only"} -> Some("OvertureOnly")
        [] mode = "both" -> Some("Both")
        [] mode \in {"overture-preferred", "preferred"} -> Some("OverturePreferred")
        [] OTHER -> None

OvertureFailureMode == {"FallbackToOsm", "Fail"}
ParseOvertureFailureMode(text) ==
  LET mode == Hyphened[Lower[text]]
  IN  CASE mode \in {"fallback", "fallback-to-osm"} -> Some("FallbackToOsm")
        [] mode \in {"fail", "strict"} -> Some("Fail")
        [] OTHER -> None

----------------------------------------------------------------------------
\* A filter is the set of the categories it includes; one that a serialized
\* filter does not mention is included.
Categories == {"roads", "buildings", "water", "landuse", "railways"}
FeatureFilter(fields) == {c \in Categories : c \in DOMAIN fields => fields[c]}

\* OvertureParams, but for its timeout and its ttl (see OvertureRun).
DefaultParams == [overture |-> FALSE, themes |-> AllThemes, priority |-> << >>]
DefaultOptions ==
  Extend(DefaultParams,
         [filter |-> Categories, mode |-> "OverturePreferred", onFailure |-> "FallbackToOsm"])

\* A consumer's settings, each an Option: a field it does not set keeps its
\* default, and any text that does not parse refuses the whole.
Options(config) ==
  LET Parsed(Parse(_), field, default) ==
        IF config[field] = None THEN Some(default) ELSE Parse(config[field][1])
      d == DefaultOptions
      o == [filter    |-> Parsed(LAMBDA f : Some(FeatureFilter(f)), "filter", d.filter),
            overture  |-> Parsed(Some, "overture", d.overture),
            themes    |-> Parsed(ParseOvertureThemes, "themes", d.themes),
            priority  |-> Parsed(ParseOverturePriority, "priority", d.priority),
            mode      |-> Parsed(ParsePoiSourceMode, "mode", d.mode),
            onFailure |-> Parsed(ParseOvertureFailureMode, "onFailure", d.onFailure)]
  IN  Collected(o)
=============================================================================
