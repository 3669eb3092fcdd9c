--------------------------- MODULE ThreatVerdicts ---------------------------
(***************************************************************************)
(* What the threat providers say of an address and what follows from it:    *)
(* the four clients under core/threat/ turn a response into a verdict, and  *)
(* the aggregator (core/threat/aggregator.py) decides from the verdicts and *)
(* chooses for how long one is cached.                                      *)
(*                                                                         *)
(* A response is a record of the fields its client reads.  A set stands for *)
(* the list of verdicts, which has at most one for a provider, and for a    *)
(* list of categories, whose order and copies nothing looks at.             *)
(***************************************************************************)
EXTENDS Integers, FiniteSets

CONSTANTS
  Threshold,    \* malicious_score_threshold
  TtlClean,     \* cache_ttl_clean_seconds, in ticks
  TtlMalicious, \* cache_ttl_malicious_seconds
  TtlNegative,  \* cache_ttl_negative_seconds
  NoOpinion     \* the None a client returns

ASSUME TtlAssumption ==
  /\ Threshold \in 1..100
  /\ {TtlClean, TtlMalicious, TtlNegative} \subseteq Nat \ {0}

Providers == {"abuseipdb", "otx", "virustotal", "talos"}

MaliciousCategories ==
  {"c2", "command_and_control", "malware", "phishing", "scanner", "brute_force", "ddos",
   "exploit", "exploited_host", "hacking", "web_app_attack", "port_scan", "ssh",
   "talos_untrusted"}

Verdict(p, score, categories) ==
  [provider |-> p, score |-> score, categories |-> categories]

AtMost100(n) == IF n < 100 THEN n ELSE 100

-----------------------------------------------------------------------------
(* The clients                                                              *)

\* AbuseIPDB numbers its categories; a code that is not in the table is dropped.
CategoryCodes ==
  {<<3, "fraud_orders">>, <<4, "ddos">>, <<9, "open_proxy">>, <<10, "web_spam">>,
   <<11, "email_spam">>, <<14, "scanner">>, <<15, "hacking">>, <<18, "brute_force">>,
   <<19, "bad_web_bot">>, <<20, "exploited_host">>, <<21, "web_app_attack">>,
   <<22, "ssh">>, <<23, "iot_targeted">>}

AbuseIPDB(r) ==
  Verdict("abuseipdb", r.score, {e[2] : e \in {c \in CategoryCodes : c[1] \in r.codes}})

\* Ten points a pulse; the tags are kept as they are, in lower case (the code
\* stops at twenty, which is more than any response here has).
OTX(r) == Verdict("otx", AtMost100(10 * r.pulses), r.tags)

\* (malicious + 0.5 * suspicious) * 100 / engines, cut off to an integer; flags
\* are the categories of the engines' results.
VirusTotal(r) ==
  LET total == IF r.engines = 0 THEN 1 ELSE r.engines
  IN  Verdict("virustotal",
              AtMost100(((2 * r.malicious + r.suspicious) * 50) \div total),
              r.flags \cap {"malicious", "suspicious"})

\* An unknown label counts as trusted.
TalosScore(label) ==
  CASE label \in {"untrusted", "poor"} -> 80
    [] label = "questionable"          -> 50
    [] label = "neutral"               -> 30
    [] label = "favorable"             -> 5
    [] OTHER                           -> 0

Talos(r) ==
  LET score == TalosScore(r.label)
  IN  Verdict("talos", score, IF score >= 50 THEN {"talos_untrusted"} ELSE {})

\* raise_for_status() raises for anything but a success and the 404 that is
\* looked at before it; Talos raises for nothing.
Raises(p, r) == p # "talos" /\ r.status \notin {200, 404}

\* What lookup_ip() returns when it does not raise.
Answer(p, r) ==
  IF r.status # 200 THEN NoOpinion
  ELSE CASE p = "abuseipdb"  -> AbuseIPDB(r)
         [] p = "otx"        -> OTX(r)
         [] p = "virustotal" -> VirusTotal(r)
         [] p = "talos"      -> Talos(r)

-----------------------------------------------------------------------------
(* The aggregator                                                           *)

\* _ttl_for
TtlFor(answer) ==
  IF answer = NoOpinion THEN TtlNegative
  ELSE IF answer.score >= Threshold THEN TtlMalicious ELSE TtlClean

ByScore(verdicts) == {v.provider : v \in {w \in verdicts : w.score >= Threshold}}

\* The providers that name a category.
Naming(category, verdicts) ==
  {v.provider : v \in {w \in verdicts : category \in w.categories}}

\* Two providers name the same malicious category; the score is not looked at.
Agreed(category, verdicts) ==
  \E p, q \in Naming(category, verdicts) : p # q

\* _decide: one high score, or else two providers that agree.
IsMalicious(verdicts) ==
  \/ ByScore(verdicts) # {}
  \/ \E c \in MaliciousCategories : Agreed(c, verdicts)
=============================================================================
