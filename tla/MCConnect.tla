----------------------------- MODULE MCConnect -----------------------------
(* Two clients with opposite preferences, and one that lacks protocols.    *)
EXTENDS ConnectInvariant

MCLists ==
  {<<"q2repro", "q2pro", "r1q2", "vanilla">>, <<"vanilla", "r1q2", "q2pro", "q2repro">>,
   <<"r1q2", "q2repro">>}
\* versions around the ones at which formats change, the reserved one, and strange ones
MCVersions == {0, 1016, 1023, 1024, 1025, 5000}
MCRequest(version, nctype, deflate) ==
  [version |-> version, packet_length |-> 1390, nctype |-> nctype, deflate |-> deflate]
MCRequests ==
  {MCRequest(v, 1, TRUE) : v \in MCVersions} \union {MCRequest(1025, 1, FALSE), MCRequest(1024, 0, TRUE)}
=============================================================================
