------------------------------ MODULE FlowRules ------------------------------
(***************************************************************************)
(* The pure functions of the run pipeline: from lines to events (parser.py),*)
(* to flows (aggregator.py), to categories (classify.py), to contracts      *)
(* (contracts.py).                                                          *)
(*                                                                         *)
(* A line says whether it has the SGACLHIT tag, and its fields are a        *)
(* function from names to values.  A number that does not parse is          *)
(* NotANumber.  Addresses, interfaces and names are left out.               *)
(***************************************************************************)
EXTENDS Integers, Sequences, FiniteSetsExt, SequencesExt

CONSTANTS
  NotANumber, \* a field that int() raises on
  AnyPort,    \* ANY_PORT
  NoAnswer    \* the model says nothing of a flow, or something else than a category

EphemeralPortThreshold == 1024

-----------------------------------------------------------------------------
(* parser.py                                                                *)

Required == {"sgt", "dgt", "protocol"}

\* _to_int
ToInt(value, default) == IF value = NotANumber THEN default ELSE value

Field(line, name, default) ==
  IF name \in DOMAIN line.fields THEN line.fields[name] ELSE default

\* What parse_line() returns something for.
IsEvent(line) == line.tagged /\ Required \subseteq DOMAIN line.fields

ParseLine(line) ==
  [sgt      |-> ToInt(line.fields["sgt"], 0),
   dgt      |-> ToInt(line.fields["dgt"], 0),
   protocol |-> line.fields["protocol"],
   src_port |-> Field(line, "src-port", 0),
   dst_port |-> Field(line, "dest-port", 0),
   hits     |-> ToInt(Field(line, "logging_interval_hits", 1), 1)]

\* parse_lines, a loop: what it has yielded after n lines.
ParseLines(lines) ==
  LET Parsed[n \in 0..Len(lines)] ==
        IF n = 0 THEN <<>>
        ELSE IF IsEvent(lines[n]) THEN Append(Parsed[n - 1], ParseLine(lines[n]))
        ELSE Parsed[n - 1]
  IN  Parsed[Len(lines)]

-----------------------------------------------------------------------------
(* aggregator.py                                                            *)

BucketPort(port, role) ==
  IF \/ port = NotANumber
     \/ port = 0
     \/ role = "src" /\ port >= EphemeralPortThreshold
  THEN AnyPort ELSE port

FlowKey(event) ==
  [sgt      |-> event.sgt,
   dgt      |-> event.dgt,
   protocol |-> event.protocol,
   src_port |-> BucketPort(event.src_port, "src"),
   dst_port |-> BucketPort(event.dst_port, "dst")]

Places(events, key) == {n \in DOMAIN events : FlowKey(events[n]) = key}

\* The hits of a flow in the first n events, all of them in the end.
TotalHits(events, key) ==
  LET Sum[n \in 0..Len(events)] ==
        IF n = 0 THEN 0
        ELSE Sum[n - 1] + (IF FlowKey(events[n]) = key THEN events[n].hits ELSE 0)
  IN  Sum[Len(events)]

Aggregate(events) ==
  {[key |-> k, hits |-> TotalHits(events, k)] : k \in {FlowKey(events[n]) : n \in DOMAIN events}}

\* The flows are sorted by their hits, most first; equals stay in the order of
\* their first events.
Before(events, f, g) ==
  \/ f.hits > g.hits
  \/ f.hits = g.hits /\ Min(Places(events, f.key)) < Min(Places(events, g.key))

-----------------------------------------------------------------------------
(* classify.py                                                              *)

Categories == {"business_relevant", "default", "business_irrelevant", "harmful"}

LabelledAsIs(batch, answer) ==
  [n \in DOMAIN batch |-> [flow |-> batch[n], category |-> answer[n]]]

\* classify_batch: the answer is by the index in the batch; a flow it leaves
\* out, or gives no known category, is "default".
Labelled(batch, answer) ==
  [n \in DOMAIN batch |->
     [flow |-> batch[n], category |-> IF answer[n] = NoAnswer THEN "default" ELSE answer[n]]]

-----------------------------------------------------------------------------
(* contracts.py                                                             *)

DenyCategories == {"business_irrelevant", "harmful"}

ActionFor(category) == IF category \in DenyCategories THEN "deny" ELSE "permit"

Pair(key)   == <<key.sgt, key.dgt>>
AceKey(key) == <<key.protocol, key.src_port, key.dst_port>>

NoContracts == <<>>

\* One turn of the loop of build_contracts: contracts are a function from pairs
\* to entries, entries one from their keys.  Actions that disagree make deny.
AddClassified(contracts, c) ==
  LET pair   == Pair(c.flow.key)
      ace    == AceKey(c.flow.key)
      aces   == IF pair \in DOMAIN contracts THEN contracts[pair] ELSE <<>>
      action == IF ace \in DOMAIN aces /\ aces[ace].action # ActionFor(c.category)
                THEN "deny" ELSE ActionFor(c.category)
  IN  [p \in DOMAIN contracts \cup {pair} |->
         IF p # pair THEN contracts[p]
         ELSE [a \in DOMAIN aces \cup {ace} |->
                 IF a # ace THEN aces[a]
                 ELSE [action |-> action, source_category |-> c.category]]]

\* build_contracts, of a sequence of classified flows: turn by turn.
BuildContracts(classified) ==
  LET Built[n \in 0..Len(classified)] ==
        IF n = 0 THEN NoContracts ELSE AddClassified(Built[n - 1], classified[n])
  IN  Built[Len(classified)]

-----------------------------------------------------------------------------
(* What the rules promise                                                   *)

\* The contracts name each classified flow and nothing else, and deny a flow
\* exactly if one of its categories does, whatever the order.
LeastPrivilege(contracts, classified) ==
  LET keys      == {classified[n].flow.key : n \in DOMAIN classified}
      Denied(k) == \E n \in DOMAIN classified :
                     classified[n].flow.key = k /\ classified[n].category \in DenyCategories
  IN  /\ DOMAIN contracts = {Pair(k) : k \in keys}
      /\ \A k \in keys : AceKey(k) \in DOMAIN contracts[Pair(k)]
      /\ \A p \in DOMAIN contracts : \A a \in DOMAIN contracts[p] :
           \E k \in keys :
             /\ Pair(k) = p /\ AceKey(k) = a
             /\ contracts[p][a].action = IF Denied(k) THEN "deny" ELSE "permit"
=============================================================================
