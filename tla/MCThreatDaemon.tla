-------------------------- MODULE MCThreatDaemon --------------------------
(* A small instance of ThreatDaemon for TLC: a tick is six hours or more.   *)
EXTENDS ThreatDaemon, TLC

CONSTANTS f1, a1

MCLines == {[flow |-> f1, dst |-> a1], [flow |-> None, dst |-> None]}

MCClients == <<"abuseipdb", "otx">>

\* Bad by its score; bad only if another provider agrees; over quota.  Not
\* known; a tag that agrees.
MCResponses ==
  [p \in {"abuseipdb", "otx"} |->
     IF p = "abuseipdb"
     THEN {[status |-> 200, score |-> 90, codes |-> {18}],
           [status |-> 200, score |-> 10, codes |-> {18}],
           [status |-> 429]}
     ELSE {[status |-> 404],
           [status |-> 200, pulses |-> 3, tags |-> {"brute_force"}]}]
=============================================================================
