------------------------------ MODULE Commands ------------------------------
(***************************************************************************)
(* The command bytes of each protocol: those that its server writes for a  *)
(* kind of message, and what its client takes a command for.  The numbers  *)
(* beyond the common ones mean something else in each protocol.            *)
(***************************************************************************)
EXTENDS Integers, Sequences, TLC

CommonCommands ==
  [muzzleflash |-> 1, muzzleflash2 |-> 2, temp_entity |-> 3, layout |-> 4, inventory |-> 5,
   nop |-> 6, disconnect |-> 7, reconnect |-> 8, sound |-> 9, print |-> 10, stufftext |-> 11,
   serverdata |-> 12, configstring |-> 13, spawnbaseline |-> 14, centerprint |-> 15,
   frame |-> 20]
-----------------------------------------------------------------------------
(* What the client understands *)
VanillaReads == CommonCommands @@ [download |-> 16]
R1q2Reads == VanillaReads @@ [zpacket |-> 21, zdownload |-> 22, setting |-> 24]
Q2proReads ==
  R1q2Reads @@ [gamestate |-> 23, configstringstream |-> 25, baselinestream |-> 26]
ExtdemoReads == VanillaReads @@ [setting |-> 24]
RereleaseReads ==
  [damage |-> 25, fog |-> 27, poi |-> 30, help_path |-> 31, muzzleflash3 |-> 32,
   achievement |-> 33]
Q2reproReads ==
  VanillaReads @@ RereleaseReads
  @@ [zpacket |-> 34, zdownload |-> 35, gamestate |-> 36, setting |-> 37,
      configstringstream |-> 38, baselinestream |-> 39]
KexReads ==
  CommonCommands @@ RereleaseReads
  @@ [splitclient |-> 21, configblast |-> 22, spawnbaselineblast |-> 23, locprint |-> 26]

Kex == {"kex", "kexdemo"}
ClientReads(p) ==
  CASE p = "vanilla" -> VanillaReads [] p = "r1q2" -> R1q2Reads [] p = "q2pro" -> Q2proReads
    [] p = "extdemo" -> ExtdemoReads [] p = "q2repro" -> Q2reproReads [] p \in Kex -> KexReads

\* R1Q2 and Q2PRO keep flags in the upper three bits of each command
Masked(p, command) == IF p \in {"r1q2", "q2pro"} THEN command % 32 ELSE command

\* The kind of message that is handed over for a command; "bad" is an error
Handed(name) ==
  CASE name = "muzzleflash3" -> "muzzleflash2" [] name = "zdownload" -> "download"
    [] name = "splitclient" -> "nop" [] OTHER -> name
Understood(p, command) ==
  LET r == ClientReads(p)
      names == {n \in DOMAIN r : r[n] = Masked(p, command)}
  IN  IF names = {} THEN "bad" ELSE Handed(CHOOSE n \in names : TRUE)
-----------------------------------------------------------------------------
(* What the server writes: a kind of message and the commands for it.      *)
(* Frames and gamestates are not here.                                     *)
CommonKinds == DOMAIN CommonCommands \ {"frame", "spawnbaseline"}
CommonWrites == [k \in CommonKinds |-> {CommonCommands[k]}]
PlainWrites == CommonWrites @@ ("spawnbaseline" :> {14})

VanillaWrites == PlainWrites @@ ("download" :> {16})
R1q2Writes == PlainWrites @@ ("download" :> {16, 22})
Q2proWrites == PlainWrites @@ ("download" :> {16, 22})
ExtdemoWrites == CommonWrites

\* a muzzle flash with a number above 255 has a command of its own
GameWrites ==
  [muzzleflash2 |-> {2, 32}, damage |-> {25}, fog |-> {27}, poi |-> {30}, help_path |-> {31},
   achievement |-> {33}]
Q2reproWrites == GameWrites @@ ("download" :> {16, 35}) @@ PlainWrites
KexWrites == GameWrites @@ ("locprint" :> {26}) @@ CommonWrites

ServerWrites(p) ==
  CASE p = "vanilla" -> VanillaWrites [] p = "r1q2" -> R1q2Writes [] p = "q2pro" -> Q2proWrites
    [] p = "extdemo" -> ExtdemoWrites [] p = "q2repro" -> Q2reproWrites [] p \in Kex -> KexWrites

\* zpacket_cmd; 0 if the protocol has none
R1q2ZpacketCmd == 21
Q2proZpacketCmd == 21
Q2reproZpacketCmd == 34
ZpacketCmd(p) ==
  CASE p = "r1q2" -> R1q2ZpacketCmd [] p = "q2pro" -> Q2proZpacketCmd
    [] p = "q2repro" -> Q2reproZpacketCmd [] OTHER -> 0
HasZpacket(p) == ZpacketCmd(p) # 0
-----------------------------------------------------------------------------
(* The other direction *)
CommonClc == [nop |-> 1, move |-> 2, userinfo |-> 3, stringcmd |-> 4]

VanillaClientWrites == [k \in DOMAIN CommonClc |-> {CommonClc[k]}]
R1q2ClientWrites == VanillaClientWrites @@ ("setting" :> {5})
\* the number of repeated frames is in the upper bits
Q2proClientWrites ==
  R1q2ClientWrites
  @@ [batch_move |-> {c + 32 * dups : c \in {10, 11}, dups \in 0 .. 3}, userinfo_delta |-> {12}]
Q2reproClientWrites ==
  R1q2ClientWrites @@ [batch_move |-> {10, 11}, userinfo_delta |-> {12}]
ClientWrites(p) ==
  CASE p = "vanilla" -> VanillaClientWrites [] p = "r1q2" -> R1q2ClientWrites
    [] p = "q2pro" -> Q2proClientWrites [] p = "q2repro" -> Q2reproClientWrites
    [] OTHER -> [k \in {} |-> {}]

VanillaServerReads == [k \in DOMAIN CommonClc |-> {CommonClc[k]}]
R1q2ServerReads == VanillaServerReads @@ ("setting" :> {5})
Q2proServerReads == R1q2ServerReads @@ [batch_move |-> {10, 11}, userinfo_delta |-> {12}]
Q2reproServerReads == R1q2ServerReads @@ [batch_move |-> {10, 11}, userinfo_delta |-> {12}]
ServerReads(p) ==
  CASE p = "vanilla" -> VanillaServerReads [] p = "r1q2" -> R1q2ServerReads
    [] p = "q2pro" -> Q2proServerReads [] p = "q2repro" -> Q2reproServerReads
ServerUnderstood(p, command) ==
  LET r == ServerReads(p)
      c == IF p = "q2pro" THEN command % 32 ELSE command
      kinds == {k \in DOMAIN r : c \in r[k]}
  IN  IF kinds = {} THEN "bad" ELSE CHOOSE k \in kinds : TRUE
=============================================================================
