--------------------------- MODULE MCRunClients ---------------------------
(* A small instance of RunClients for TLC.                                  *)
EXTENDS RunClients, TLC

CONSTANTS p, t, s1, s2

Web(sgt, src) ==
  [tagged |-> TRUE,
   fields |-> [f \in {"sgt", "dgt", "protocol", "src-port", "dest-port"} |->
                 CASE f = "sgt" -> sgt [] f = "dgt" -> 20 [] f = "protocol" -> "tcp"
                   [] f = "src-port" -> src [] f = "dest-port" -> 443]]

Untagged == [tagged |-> FALSE, fields |-> [f \in {"sgt"} |-> 1]]

\* Two flows, the later of which has more hits in the end, and a third.
MCBatches ==
  <<<<Web(11, NotANumber), Untagged, Web(10, 40000)>>, <<Web(10, 50000), Web(12, 0)>>>>

MCScripts ==
  {<<"create", "ingest", "classify", "matrix">>, <<"ingest">>, <<"classify">>, <<"matrix">>}
=============================================================================
