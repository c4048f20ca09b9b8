----------------------------- MODULE MCFormats -----------------------------
(* Instances of MessageFormats: values at the borders of the widths *)
EXTENDS MessageFormats

Ctx(p, v, a) == [proto |-> p, version |-> v, api |-> a]
MCContexts ==
  {Ctx("vanilla", 0, "vanilla"), Ctx("r1q2", 1903, "vanilla"), Ctx("r1q2", 1905, "vanilla"),
   Ctx("q2pro", 1017, "vanilla"), Ctx("q2pro", 1024, "ext"), Ctx("q2pro", 1026, "v2"),
   Ctx("extdemo", 1024, "ext"), Ctx("extdemo", 1026, "v2"),
   Ctx("q2repro", 1026, "rerelease"), Ctx("kex", 2023, "rerelease"), Ctx("kexdemo", 2022, "rerelease")}

\* Values a field may change to
EntityBorders(f) ==
  CASE f[1] \in {"modelindex", "modelindex4", "frame"} -> {255, 256}
    [] f = F("sound") -> {255, 256}
    [] f[1] \in {"skinnum", "effects", "renderfx"} -> {255, 256, 32768, 65536}
    [] f[1] = "origin" -> {-1, 16383, 40000}
    [] f[1] = "old_origin" -> {-1, 40000}
    [] f[1] = "angles" -> {-32513, 300}
    [] f = F("solid") -> {1, 65536}
    [] OTHER -> {1, 255}
\* a state other than that of the start, for deltas that go back to it
OtherEntity == [f \in EntityFields |-> 5]

Changes(fields, Borders(_)) == UNION {{<<f, v>> : v \in Borders(f)} : f \in fields}
Change(s, c) == [s EXCEPT ![c[1]] = c[2]]
Case1(from, c, num, old) ==
  [from |-> from, to |-> Change(from, c), entnum |-> num, old |-> old, remove |-> FALSE]

EntityChanges == Changes(EntityFields, EntityBorders)
Representative ==
  {c \in EntityChanges : c[1] \in {F("modelindex4"), F("frame"), F("skinnum"), F("effects"),
    <<"effects", 1>>, <<"origin", 2>>, <<"angles", 1>>, F("sound"), F("loop_volume"),
    F("loop_attenuation"), F("event"), F("solid"), F("scale")}}
MCEntityCases ==
  {Case1(from, c, num, old) : from \in {NullEntity, OtherEntity}, c \in EntityChanges,
     num \in {255, 256}, old \in BOOLEAN}
  \cup {[from |-> NullEntity, to |-> Change(Change(NullEntity, c), c2), entnum |-> 1, old |-> TRUE,
       remove |-> FALSE] : c \in Representative, c2 \in Representative}
  \cup {[from |-> NullEntity, to |-> NullEntity, entnum |-> num, old |-> FALSE, remove |-> num # 0] :
          num \in {0, 255, 256}}

PlayerBorders(f) ==
  CASE f[1] \in {"pm_time", "pm_flags", "gunframe", "gunindex"} -> {255, 256}
    [] f[1] \in {"pm_origin", "pm_velocity"} -> {-1, 40000}
    [] f[1] \in {"viewangles", "pm_delta_angles", "pm_gravity", "stats"} -> {-1, 300}
    [] f[1] \in {"viewoffset", "kick_angles", "gunoffset", "gunangles", "pm_viewheight"} -> {-128, 127}
    [] f[1] \in {"fog_density", "fog_skyfactor", "heightfog_density", "heightfog_falloff"} -> {65535}
    [] f[1] \in {"heightfog_start_dist", "heightfog_end_dist"} -> {-1, 100000}
    [] OTHER -> {255}
OtherPlayer == [f \in PlayerFields |-> 5]
Header(s, d, x, a, n) ==
  (F("serverframe") :> s) @@ (F("deltaframe") :> d) @@ (F("suppress_count") :> x)
  @@ (F("areabits_len") :> a) @@ (F("clientnum") :> n)
Headers ==
  {Header(40, -1, 15, 0, -1), Header(40, 10, 1, 32, -1), Header(2, 1, 0, 1, 255), Header(2, 1, 0, 1, 300)}

PlayerChanges == Changes(PlayerFields, PlayerBorders)
PlayerRepresentative ==
  {c \in PlayerChanges : c[1] \in {<<"pm_origin", 0>>, <<"pm_origin", 2>>, <<"pm_velocity", 2>>,
    F("pm_time"), <<"viewangles", 2>>, F("gunindex"), F("gunskin"), F("gunframe"), F("gunrate"),
    <<"gunangles", 1>>, <<"blend", 2>>, <<"damage_blend", 0>>, <<"stats", 31>>, <<"stats", 63>>,
    F("fog_density"), <<"heightfog_end_color", 1>>, F("fov")}}
MCFrameCases ==
  {[from |-> from, to |-> Change(from, c), header |-> h] :
     from \in {NullPlayer, OtherPlayer}, c \in PlayerChanges, h \in Headers}
  \cup {[from |-> NullPlayer, to |-> Change(Change(NullPlayer, c), c2), header |-> Header(40, 39, 2, 4, -1)] :
          c \in PlayerRepresentative, c2 \in PlayerRepresentative}
  \* what is too wide stays so
  \cup {[from |-> Change(NullPlayer, c), to |-> Change(Change(NullPlayer, c), c2), header |-> Header(40, 39, 2, 4, -1)] :
          c \in {d \in PlayerRepresentative : d[1] = F("gunframe")}, c2 \in PlayerRepresentative}

MoveBase ==
  [f \in MoveFields \cup {F("msec"), F("lightlevel")} |->
     CASE f = F("buttons") -> 1 [] f[1] = "move" -> 400 [] f[1] = "angles" -> 256 [] OTHER -> 3]
MoveBorders(f) ==
  CASE f[1] = "angles" -> {0, -64, 8128, 8192, -32768, 257}
    [] f[1] = "move" -> {-635, 127, 635}
    [] f = F("buttons") -> {2, 128, 131}
    [] OTHER -> {255}
MCMoveCases ==
  {[set |-> set, val |-> Change(MoveBase, c)] :
     set \in {MoveFields, MoveFields \ {F("buttons")}, MoveFields \ {<<"move", 2>>},
              {F("buttons"), <<"angles", 1>>, <<"move", 2>>}},
     c \in Changes(MoveFields, MoveBorders)}

\* Batches: commands one after the other, each a delta from the one before
Command(a0, a1, a2, fwd, buttons, msec) ==
  [f \in MoveFields \cup {F("msec"), F("lightlevel")} |->
     CASE f = <<"angles", 0>> -> a0 [] f = <<"angles", 1>> -> a1 [] f = <<"angles", 2>> -> a2
       [] f[1] = "move" -> fwd [] f = F("buttons") -> buttons [] f = F("msec") -> msec [] OTHER -> 0]
Commands ==
  {Command(0, 0, 0, 0, 0, 0), Command(127, -128, 3, 511, 1, 16), Command(128, -129, -4, -512, 128, 16),
   Command(32767, -32768, 0, 0, 3, 17)}
DeltaMove(before, cmd) ==
  [set |-> {f \in MoveFields \ {F("impulse")} : cmd[f] # before[f]}, val |-> cmd]
DeltaMoves(cmds) ==
  [i \in DOMAIN cmds |-> DeltaMove(IF i = 1 THEN Command(0, 0, 0, 0, 0, 0) ELSE cmds[i - 1], cmds[i])]
MCBatchCases ==
  LET S == {DeltaMoves(<<a, b, c>>) : a \in Commands, b \in Commands, c \in Commands}
  IN  {<<m>> : m \in S} \cup {<<SubSeq(m, 1, 1), SubSeq(m, 2, 3)>> : m \in S}
      \cup {<<SubSeq(m, 1, 1), <<>>, SubSeq(m, 2, 3)>> : m \in S}
=============================================================================
