---------------------------- MODULE PlayerDelta ----------------------------
(***************************************************************************)
(* Player states in packed form and the delta between two of them.  Four   *)
(* stats stand for the up to 64: the first and the last of 32 and of 64.   *)
(***************************************************************************)
EXTENDS EntityDelta

PS == [M_TYPE |-> 0, M_ORIGIN |-> 1, M_VELOCITY |-> 2, M_TIME |-> 3, M_FLAGS |-> 4,
       M_GRAVITY |-> 5, M_DELTA_ANGLES |-> 6, VIEWOFFSET |-> 7, VIEWANGLES |-> 8,
       KICKANGLES |-> 9, BLEND |-> 10, FOV |-> 11, WEAPONINDEX |-> 12,
       WEAPONFRAME |-> 13, RDFLAGS |-> 14, RR_VIEWHEIGHT |-> 15, MOREBITS |-> 15,
       Q2PRO_PLAYERFOG |-> 16, KEX_DAMAGE_BLEND |-> 16, KEX_TEAM_ID |-> 17]
EPS == [GUNOFFSET |-> 0, GUNANGLES |-> 1, M_VELOCITY2 |-> 2, M_ORIGIN2 |-> 3,
        VIEWANGLE2 |-> 4, STATS |-> 5, CLIENTNUM |-> 6, GUNRATE |-> 7]

\* the stats that are modelled, by their number
StatNumbers == {0, 31, 32, 63}
Stats == {<<"stats", i>> : i \in StatNumbers}

FogColors == {<<n, i>> : n \in {"fog_color", "heightfog_start_color", "heightfog_end_color"}, i \in 0 .. 2}
FogFields ==
  FogColors \cup {F("fog_density"), F("fog_skyfactor"), F("heightfog_density"),
                  F("heightfog_falloff"), F("heightfog_start_dist"), F("heightfog_end_dist")}
GunFields == {F("gunframe"), F("gunrate")} \cup Vec("gunoffset", 3) \cup Vec("gunangles", 3)
PlayerFields ==
  {F("pm_type"), F("pm_time"), F("pm_flags"), F("pm_gravity"), F("pm_viewheight"),
   F("fov"), F("rdflags"), F("gunindex"), F("gunskin")}
  \cup (UNION {Vec(n, 3) : n \in {"pm_origin", "pm_velocity", "pm_delta_angles",
                                  "viewoffset", "viewangles", "kick_angles"}})
  \cup GunFields \cup Vec("blend", 4) \cup Vec("damage_blend", 4) \cup Stats \cup FogFields

NullPlayer == [f \in PlayerFields |-> 0]

\* Fields that are announced, or get their values, all together.  The colours of
\* the blends are not: an unchanged component has no value.
Announced == {Vec("pm_delta_angles", 3), Vec("viewoffset", 3), Vec("kick_angles", 3)}
Valued == Announced \cup
  {GunFields, {F("gunindex"), F("gunskin")}, Vec("viewangles", 3), Vec("pm_origin", 3),
   Vec("pm_velocity", 3), {F("fog_density"), F("fog_skyfactor")},
   Vec("fog_color", 3), Vec("heightfog_start_color", 3), Vec("heightfog_end_color", 3)}

Together(groups, fields) ==
  fields \cup UNION {g \in groups : g \cap fields # {}}

PlayerDeltaOf(groups, fields, from, to) ==
  LET set == Together(Announced, {f \in fields : from[f] # to[f]})
      valued == Together(groups, set) \cup Vec("pm_origin", 3) \cup Vec("pm_velocity", 3)
  IN  [set |-> set, val |-> [f \in PlayerFields |-> IF f \in valued THEN to[f] ELSE 0],
       prev |-> from]
PlayerDelta(from, to) == PlayerDeltaOf(Valued, PlayerFields, from, to)

\* The PS_ flags that every protocol sets in the same way
CommonFlags(d) ==
  LET sets == {<<{F("pm_type")}, PS.M_TYPE>>, <<{F("pm_time")}, PS.M_TIME>>,
               <<{F("pm_flags")}, PS.M_FLAGS>>, <<{F("pm_gravity")}, PS.M_GRAVITY>>,
               <<Vec("pm_delta_angles", 3), PS.M_DELTA_ANGLES>>,
               <<Vec("viewoffset", 3), PS.VIEWOFFSET>>,
               <<Vec("kick_angles", 3), PS.KICKANGLES>>,
               <<{F("fov")}, PS.FOV>>, <<{F("rdflags")}, PS.RDFLAGS>>}
  IN  {p[2] : p \in {q \in sets : Changed(d, q[1])}}

\* A 32 bit set of the stats that follow, and the stats; stats up to 31 only
StatsIn(d, below) == {i \in StatNumbers : i < below /\ <<"stats", i>> \in d.set}
StatRows(numbers) ==
  [k \in 1 .. Cardinality(numbers) |->
     LET i == SetToSortSeq(numbers, <)[k] IN Row({}, {}, <<"stats", i>>, "i16")[1]]
\* bit 31 is not part of TLC's integers: the set itself is the item's value
StatBits32(numbers) == Written(<<[w |-> 4, v |-> numbers]>>)
WriteStats32(d) ==
  Then(StatBits32(StatsIn(d, 32)), WriteRows(StatRows(StatsIn(d, 32)), {}, d.val))
ReadStats32(r) ==
  LET bits == Get(r, "statbits", "u32")
  IN  IF bits.ok THEN ReadRows(bits, StatRows(bits.got[F("statbits")]), {}) ELSE bits
=============================================================================
