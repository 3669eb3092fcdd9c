-------------------------- MODULE RunClientsProofs --------------------------
(* What RunClients promises, for any clients, scripts and batches.          *)
EXTENDS RunClients, FiniteSetTheorems, SequenceTheorems, WellFoundedInduction, TLAPS

-----------------------------------------------------------------------------
(* Loops                                                                    *)

\* A non-empty set of numbers has a smallest one.
LEMMA Smallest ==
  ASSUME NEW T, T \subseteq Nat, T # {}
  PROVE  \E x \in T : \A y \in T : x <= y
<1> DEFINE R == {ss \in Nat \X Nat : ss[1] < ss[2]}
<1>1. IsWellFoundedOn(R, Nat)
  BY NatLessThanWellFounded DEF OpToRel
<1>2. \E x \in T : \A y \in T : ~ (<<y, x>> \in R)
  BY <1>1, WFMin
<1>3. PICK x \in T : \A y \in T : ~ (<<y, x>> \in R) BY <1>2
<1>4. ASSUME NEW y \in T PROVE x <= y
  <2>1. x \in Nat /\ y \in Nat OBVIOUS
  <2>2. <<y, x>> \in R <=> y < x BY <2>1
  <2>3. QED BY <1>3, <2>1, <2>2
<1>5. QED BY <1>4

\* Induction over the turns of a loop, for the set of those of which something
\* holds.
LEMMA EveryTurn ==
  ASSUME NEW N \in Nat, NEW P, 0 \in P, \A m \in 1..N : m - 1 \in P => m \in P
  PROVE  N \in P
<1>1. SUFFICES ASSUME N \notin P PROVE FALSE
  OBVIOUS
<1>2. PICK m \in (0..N) \ P : \A k \in (0..N) \ P : m <= k
  <2>1. N \in (0..N) \ P /\ (0..N) \ P \subseteq Nat
    BY <1>1
  <2>2. QED BY <2>1, Smallest
<1>3. m \in 1..N /\ m - 1 \in 0..N
  BY <1>2
<1>4. QED BY <1>2, <1>3

\* The loop of build_contracts has a result after every turn.
LEMMA BuiltExists ==
  ASSUME NEW c, Len(c) \in Nat
  PROVE  \E f : f = [n \in 0..Len(c) |->
                       IF n = 0 THEN NoContracts ELSE AddClassified(f[n - 1], c[n])]
<1> DEFINE F(f, m) == f = [n \in 0..m |->
                             IF n = 0 THEN NoContracts ELSE AddClassified(f[n - 1], c[n])]
           P == {m \in Nat : \E f : F(f, m)}
<1>1. 0 \in P
  <2> DEFINE g == [n \in 0..0 |-> NoContracts]
  <2>1. F(g, 0) OBVIOUS
  <2>2. QED BY <2>1
<1>2. ASSUME NEW m \in 1..Len(c), m - 1 \in P PROVE m \in P
  <2>1. PICK g : F(g, m - 1) BY <1>2
  <2> DEFINE h == [n \in 0..m |-> IF n = m THEN AddClassified(g[m - 1], c[m]) ELSE g[n]]
  <2>2. ASSUME NEW n \in 0..m
        PROVE  h[n] = IF n = 0 THEN NoContracts ELSE AddClassified(h[n - 1], c[n])
    BY <2>1
  <2>3. F(h, m) BY <2>2
  <2>4. m \in Nat OBVIOUS
  <2> HIDE DEF F, h
  <2>5. QED BY <2>3, <2>4
<1>3. Len(c) \in P
  <2> HIDE DEF P
  <2>1. QED BY <1>1, <1>2, EveryTurn
<1>4. QED BY <1>3

LEMMA BuiltTurns ==
  ASSUME NEW c, Len(c) \in Nat
  PROVE  \E B : /\ B[0] = NoContracts
                /\ \A n \in 1..Len(c) : B[n] = AddClassified(B[n - 1], c[n])
                /\ BuildContracts(c) = B[Len(c)]
<1> DEFINE F(f) == f = [n \in 0..Len(c) |->
                          IF n = 0 THEN NoContracts ELSE AddClassified(f[n - 1], c[n])]
           B == CHOOSE f : F(f)
<1>1. F(B)
  BY BuiltExists
<1>2. BuildContracts(c) = B[Len(c)]
  BY DEF BuildContracts
<1>3. QED
  <2> HIDE DEF B
  <2>1. B[0] = NoContracts
    BY <1>1
  <2>2. \A n \in 1..Len(c) : B[n] = AddClassified(B[n - 1], c[n])
    BY <1>1
  <2>3. QED BY <1>2, <2>1, <2>2

LEMMA ParsedExists ==
  ASSUME NEW c, Len(c) \in Nat
  PROVE  \E f : f = [n \in 0..Len(c) |->
                       IF n = 0 THEN <<>>
                       ELSE IF IsEvent(c[n]) THEN Append(f[n - 1], ParseLine(c[n])) ELSE f[n - 1]]
<1> DEFINE Turn(v, n) == IF IsEvent(c[n]) THEN Append(v, ParseLine(c[n])) ELSE v
           F(f, m) == f = [n \in 0..m |-> IF n = 0 THEN <<>> ELSE Turn(f[n - 1], n)]
           P == {m \in Nat : \E f : F(f, m)}
<1> HIDE DEF Turn
<1>1. 0 \in P
  <2> DEFINE g == [n \in 0..0 |-> <<>>]
  <2>1. F(g, 0) OBVIOUS
  <2>2. QED BY <2>1
<1>2. ASSUME NEW m \in 1..Len(c), m - 1 \in P PROVE m \in P
  <2>1. PICK g : F(g, m - 1) BY <1>2
  <2> DEFINE h == [n \in 0..m |-> IF n = m THEN Turn(g[m - 1], m) ELSE g[n]]
  <2>2. ASSUME NEW n \in 0..m
        PROVE  h[n] = IF n = 0 THEN <<>> ELSE Turn(h[n - 1], n)
    BY <2>1
  <2>3. F(h, m) BY <2>2
  <2>4. m \in Nat OBVIOUS
  <2> HIDE DEF F, h
  <2>5. QED BY <2>3, <2>4
<1>3. Len(c) \in P
  <2> HIDE DEF P
  <2>1. QED BY <1>1, <1>2, EveryTurn
<1>4. QED BY <1>3 DEF Turn

LEMMA ParsedTurns ==
  ASSUME NEW c, Len(c) \in Nat
  PROVE  \E B : /\ B[0] = <<>>
                /\ \A n \in 1..Len(c) :
                     B[n] = IF IsEvent(c[n]) THEN Append(B[n - 1], ParseLine(c[n])) ELSE B[n - 1]
                /\ ParseLines(c) = B[Len(c)]
<1> DEFINE F(f) == f = [n \in 0..Len(c) |->
                          IF n = 0 THEN <<>>
                          ELSE IF IsEvent(c[n]) THEN Append(f[n - 1], ParseLine(c[n])) ELSE f[n - 1]]
           B == CHOOSE f : F(f)
<1>1. F(B)
  BY ParsedExists
<1>2. ParseLines(c) = B[Len(c)]
  BY DEF ParseLines
<1> HIDE DEF B
<1>3. B[0] = <<>>
  BY <1>1
<1>4. ASSUME NEW n \in 1..Len(c)
      PROVE  B[n] = IF IsEvent(c[n]) THEN Append(B[n - 1], ParseLine(c[n])) ELSE B[n - 1]
  <2>1. n \in 0..Len(c) /\ n # 0 OBVIOUS
  <2>2. QED BY <1>1, <2>1
<1>5. QED BY <1>2, <1>3, <1>4

LEMMA SumExists ==
  ASSUME NEW c, Len(c) \in Nat, NEW key
  PROVE  \E f : f = [n \in 0..Len(c) |->
                       IF n = 0 THEN 0
                       ELSE f[n - 1] + (IF FlowKey(c[n]) = key THEN c[n].hits ELSE 0)]
<1> DEFINE Turn(v, n) == v + (IF FlowKey(c[n]) = key THEN c[n].hits ELSE 0)
           F(f, m) == f = [n \in 0..m |-> IF n = 0 THEN 0 ELSE Turn(f[n - 1], n)]
           P == {m \in Nat : \E f : F(f, m)}
<1> HIDE DEF Turn
<1>1. 0 \in P
  <2> DEFINE g == [n \in 0..0 |-> 0]
  <2>1. F(g, 0) OBVIOUS
  <2>2. QED BY <2>1
<1>2. ASSUME NEW m \in 1..Len(c), m - 1 \in P PROVE m \in P
  <2>1. PICK g : F(g, m - 1) BY <1>2
  <2> DEFINE h == [n \in 0..m |-> IF n = m THEN Turn(g[m - 1], m) ELSE g[n]]
  <2>2. ASSUME NEW n \in 0..m
        PROVE  h[n] = IF n = 0 THEN 0 ELSE Turn(h[n - 1], n)
    BY <2>1
  <2>3. F(h, m) BY <2>2
  <2>4. m \in Nat OBVIOUS
  <2> HIDE DEF F, h
  <2>5. QED BY <2>3, <2>4
<1>3. Len(c) \in P
  <2> HIDE DEF P
  <2>1. QED BY <1>1, <1>2, EveryTurn
<1>4. QED BY <1>3 DEF Turn

LEMMA SumTurns ==
  ASSUME NEW c, Len(c) \in Nat, NEW key
  PROVE  \E B : /\ B[0] = 0
                /\ \A n \in 1..Len(c) :
                     B[n] = B[n - 1] + (IF FlowKey(c[n]) = key THEN c[n].hits ELSE 0)
                /\ TotalHits(c, key) = B[Len(c)]
<1> DEFINE F(f) == f = [n \in 0..Len(c) |->
                          IF n = 0 THEN 0
                          ELSE f[n - 1] + (IF FlowKey(c[n]) = key THEN c[n].hits ELSE 0)]
           B == CHOOSE f : F(f)
<1>1. F(B)
  BY SumExists
<1>2. TotalHits(c, key) = B[Len(c)]
  BY DEF TotalHits
<1> HIDE DEF B
<1>3. B[0] = 0
  BY <1>1
<1>4. \A n \in 1..Len(c) :
        B[n] = B[n - 1] + (IF FlowKey(c[n]) = key THEN c[n].hits ELSE 0)
  BY <1>1
<1>5. QED BY <1>2, <1>3, <1>4

-----------------------------------------------------------------------------
(* Least privilege                                                          *)

KeyForm(k) == \E e : k = FlowKey(e)

\* A key is its pair and the key of its entry.
LEMMA KeyIsPairAndAce ==
  ASSUME NEW k, NEW j, KeyForm(k), KeyForm(j), Pair(k) = Pair(j), AceKey(k) = AceKey(j)
  PROVE  k = j
BY DEF KeyForm, FlowKey, Pair, AceKey

Denied(seen, k) == \E y \in seen : y.flow.key = k /\ y.category \in DenyCategories

\* The contracts are right for the classified flows that the loop has seen.
RightFor(C, seen) ==
  /\ DOMAIN C = {Pair(x.flow.key) : x \in seen}
  /\ \A x \in seen :
       LET aces == C[Pair(x.flow.key)]
           ace  == AceKey(x.flow.key)
       IN  /\ ace \in DOMAIN aces
           /\ aces[ace].action = IF Denied(seen, x.flow.key) THEN "deny" ELSE "permit"
  /\ \A p \in DOMAIN C : \A a \in DOMAIN C[p] :
       \E x \in seen : Pair(x.flow.key) = p /\ AceKey(x.flow.key) = a

\* One turn of the loop keeps them right.
LEMMA TurnKeepsRight ==
  ASSUME NEW C, NEW seen, NEW i, RightFor(C, seen),
         \A x \in seen \cup {i} : KeyForm(x.flow.key)
  PROVE  RightFor(AddClassified(C, i), seen \cup {i})
<1> DEFINE pair == Pair(i.flow.key)
           ace  == AceKey(i.flow.key)
           old  == IF pair \in DOMAIN C THEN C[pair] ELSE <<>>
           act  == IF ace \in DOMAIN old /\ old[ace].action # ActionFor(i.category)
                   THEN "deny" ELSE ActionFor(i.category)
           aces == [a \in DOMAIN old \cup {ace} |->
                      IF a # ace THEN old[a]
                      ELSE [action |-> act, source_category |-> i.category]]
           D    == AddClassified(C, i)
           all  == seen \cup {i}
<1>1. D = [p \in DOMAIN C \cup {pair} |-> IF p # pair THEN C[p] ELSE aces]
  BY DEF AddClassified
<1>2. DOMAIN old = {AceKey(x.flow.key) : x \in {y \in seen : Pair(y.flow.key) = pair}}
  BY DEF RightFor
<1>3. \A x \in seen : Pair(x.flow.key) = pair /\ AceKey(x.flow.key) = ace => x.flow.key = i.flow.key
  BY KeyIsPairAndAce
<1>4. act = IF Denied(all, i.flow.key) THEN "deny" ELSE "permit"
  <2>1. CASE ace \in DOMAIN old
    <3>1. PICK x \in seen : Pair(x.flow.key) = pair /\ AceKey(x.flow.key) = ace
      BY <1>2, <2>1
    <3>2. old[ace].action = IF Denied(seen, i.flow.key) THEN "deny" ELSE "permit"
      BY <1>3, <3>1 DEF RightFor
    <3>3. QED BY <2>1, <3>2 DEF Denied, ActionFor
  <2>2. CASE ace \notin DOMAIN old
    <3>1. ~ Denied(seen, i.flow.key)
      BY <1>2, <2>2 DEF Denied
    <3>2. QED BY <2>2, <3>1 DEF Denied, ActionFor
  <2>3. QED BY <2>1, <2>2
<1>0. D = AddClassified(C, i)
  OBVIOUS
<1> HIDE DEF D, act
<1>5. DOMAIN D = {Pair(x.flow.key) : x \in all}
  BY <1>1 DEF RightFor
<1>6. ASSUME NEW x \in all
      PROVE  /\ AceKey(x.flow.key) \in DOMAIN D[Pair(x.flow.key)]
             /\ D[Pair(x.flow.key)][AceKey(x.flow.key)].action
                  = IF Denied(all, x.flow.key) THEN "deny" ELSE "permit"
  <2>1. CASE x.flow.key = i.flow.key
    BY <1>1, <1>4, <2>1
  <2>2. CASE x.flow.key # i.flow.key
    <3>1. x \in seen /\ (Denied(all, x.flow.key) <=> Denied(seen, x.flow.key))
      BY <2>2 DEF Denied
    <3>2. CASE Pair(x.flow.key) # pair
      <4>1. D[Pair(x.flow.key)] = C[Pair(x.flow.key)]
        BY <1>1, <3>1, <3>2 DEF RightFor
      <4>2. QED BY <3>1, <4>1 DEF RightFor
    <3>3. CASE Pair(x.flow.key) = pair
      <4>1. AceKey(x.flow.key) # ace
        BY <1>3, <2>2, <3>1, <3>3
      <4>2. pair \in DOMAIN C /\ old = C[pair]
        BY <3>1, <3>3 DEF RightFor
      <4>3. AceKey(x.flow.key) \in DOMAIN old
        BY <3>1, <3>3, <4>2 DEF RightFor
      <4>4. D[pair] = aces
        BY <1>1
      <4>5. AceKey(x.flow.key) \in DOMAIN aces /\ aces[AceKey(x.flow.key)] = C[pair][AceKey(x.flow.key)]
        BY <4>1, <4>2, <4>3
      <4>6. QED BY <3>1, <3>3, <4>4, <4>5 DEF RightFor
    <3>4. QED BY <3>2, <3>3
  <2>3. QED BY <2>1, <2>2
<1>7. ASSUME NEW p \in DOMAIN D, NEW a \in DOMAIN D[p]
      PROVE  \E x \in all : Pair(x.flow.key) = p /\ AceKey(x.flow.key) = a
  <2>1. CASE p # pair
    BY <1>1, <2>1 DEF RightFor
  <2>2. CASE p = pair
    BY <1>1, <1>2, <2>2
  <2>3. QED BY <2>1, <2>2
<1>8. QED BY <1>0, <1>5, <1>6, <1>7 DEF RightFor

\* What the loop has made of the whole sequence.
LEMMA BuiltRight ==
  ASSUME NEW c, Len(c) \in Nat, DOMAIN c = 1..Len(c),
         \A n \in DOMAIN c : KeyForm(c[n].flow.key)
  PROVE  RightFor(BuildContracts(c), {c[n] : n \in DOMAIN c})
<1>1. PICK B : /\ B[0] = NoContracts
               /\ \A n \in 1..Len(c) : B[n] = AddClassified(B[n - 1], c[n])
               /\ BuildContracts(c) = B[Len(c)]
  BY BuiltTurns
<1> DEFINE Seen(m) == {c[n] : n \in 1..m}
           P == {m \in Nat : RightFor(B[m], Seen(m))}
<1>2. 0 \in P
  <2>1. Seen(0) = {} OBVIOUS
  <2>2. RightFor(NoContracts, {}) BY DEF RightFor, NoContracts
  <2>3. QED BY <1>1, <2>1, <2>2
<1>3. ASSUME NEW m \in 1..Len(c), m - 1 \in P PROVE m \in P
  <2>1. Seen(m) = Seen(m - 1) \cup {c[m]}
    OBVIOUS
  <2>2. RightFor(B[m - 1], Seen(m - 1)) /\ \A x \in Seen(m) : KeyForm(x.flow.key)
    BY <1>3
  <2>3. RightFor(AddClassified(B[m - 1], c[m]), Seen(m - 1) \cup {c[m]})
    <3> HIDE DEF Seen
    <3>1. QED BY <2>1, <2>2, TurnKeepsRight
  <2>4. RightFor(B[m], Seen(m))
    BY <1>1, <2>1, <2>3
  <2>5. m \in Nat OBVIOUS
  <2> HIDE DEF Seen
  <2>6. QED BY <2>4, <2>5
<1>4. Len(c) \in P
  <2> HIDE DEF P
  <2>1. QED BY <1>2, <1>3, EveryTurn
<1>5. Seen(Len(c)) = {c[n] : n \in DOMAIN c}
  OBVIOUS
<1>6. QED BY <1>1, <1>4, <1>5

\* The contracts name each classified flow and nothing else, and deny a flow
\* exactly if one of its categories does: whatever the sequence of flows, how
\* often they repeat and in which order they come (build_contracts).
THEOREM LeastPrivilegeAlways ==
  ASSUME NEW c, Len(c) \in Nat, DOMAIN c = 1..Len(c),
         \A n \in DOMAIN c : \E e : c[n].flow.key = FlowKey(e)
  PROVE  LeastPrivilege(BuildContracts(c), c)
<1> DEFINE seen == {c[n] : n \in DOMAIN c}
           C    == BuildContracts(c)
<1>1. RightFor(C, seen)
  BY BuiltRight DEF KeyForm
<1> HIDE DEF C
<1>2. \A n \in DOMAIN c : c[n] \in seen
  OBVIOUS
<1>3. DOMAIN C = {Pair(k) : k \in {c[n].flow.key : n \in DOMAIN c}}
  BY <1>1 DEF RightFor
<1>4. \A k \in {c[n].flow.key : n \in DOMAIN c} : AceKey(k) \in DOMAIN C[Pair(k)]
  BY <1>1 DEF RightFor
<1>5. ASSUME NEW p \in DOMAIN C, NEW a \in DOMAIN C[p]
      PROVE  \E k \in {c[n].flow.key : n \in DOMAIN c} :
               /\ Pair(k) = p /\ AceKey(k) = a
               /\ C[p][a].action = IF \E n \in DOMAIN c : c[n].flow.key = k /\ c[n].category \in DenyCategories
                                   THEN "deny" ELSE "permit"
  <2>1. PICK x \in seen : Pair(x.flow.key) = p /\ AceKey(x.flow.key) = a
    BY <1>1 DEF RightFor
  <2>2. C[p][a].action = IF Denied(seen, x.flow.key) THEN "deny" ELSE "permit"
    BY <1>1, <2>1 DEF RightFor
  <2>3. QED BY <2>1, <2>2 DEF Denied
<1>6. QED BY <1>3, <1>4, <1>5 DEF LeastPrivilege, C

-----------------------------------------------------------------------------
(* Lines, events and hits                                                   *)

Counted(lines) ==
  /\ lines \in Seq(Range(lines))
  /\ \A line \in Range(lines) : ToInt(Field(line, "logging_interval_hits", 1), 1) \in Nat

\* The events of some lines are a sequence, and count no fewer than no hits.
LEMMA ParsedType ==
  ASSUME NEW c, Counted(c)
  PROVE  /\ ParseLines(c) \in Seq(Range(ParseLines(c)))
         /\ \A e \in Range(ParseLines(c)) : e.hits \in Nat
<1> DEFINE Events == {ParseLine(line) : line \in Range(c)}
<1>1. Len(c) \in Nat /\ \A n \in 1..Len(c) : c[n] \in Range(c)
  BY DEF Counted, Range
<1>2. \A e \in Events : e.hits \in Nat
  BY DEF Counted, ParseLine
<1>3. PICK B : /\ B[0] = <<>>
               /\ \A n \in 1..Len(c) :
                    B[n] = IF IsEvent(c[n]) THEN Append(B[n - 1], ParseLine(c[n])) ELSE B[n - 1]
               /\ ParseLines(c) = B[Len(c)]
  BY <1>1, ParsedTurns
<1> DEFINE P == {m \in Nat : B[m] \in Seq(Events)}
<1>4. 0 \in P
  <2> HIDE DEF Events
  <2>1. QED BY <1>3, EmptySeq
<1>5. ASSUME NEW m \in 1..Len(c), m - 1 \in P PROVE m \in P
  <2>1. ParseLine(c[m]) \in Events BY <1>1
  <2>2. B[m - 1] \in Seq(Events) /\ m \in Nat BY <1>5
  <2>3. B[m] \in Seq(Events)
    <3> HIDE DEF Events
    <3>1. Append(B[m - 1], ParseLine(c[m])) \in Seq(Events)
      BY <2>1, <2>2, AppendProperties
    <3>2. QED BY <1>3, <2>2, <3>1
  <2>4. QED BY <2>2, <2>3
<1>6. Len(c) \in P
  <2> HIDE DEF P
  <2>1. QED BY <1>1, <1>4, <1>5, EveryTurn
<1>7. ParseLines(c) \in Seq(Events)
  BY <1>3, <1>6
<1>8. QED
  <2> HIDE DEF Events
  <2>1. QED BY <1>2, <1>7 DEF Range

\* Hits are counted, and events that come behind add to them.
LEMMA HitsGrow ==
  ASSUME NEW E, \A e \in E : e.hits \in Nat, NEW c \in Seq(E), NEW d \in Seq(E), NEW key
  PROVE  /\ TotalHits(c, key) \in Nat
         /\ TotalHits(c, key) <= TotalHits(c \o d, key)
<1> DEFINE cd == c \o d
           Add(e) == IF FlowKey(e) = key THEN e.hits ELSE 0
<1>1. /\ cd \in Seq(E) /\ Len(cd) \in Nat /\ Len(c) \in 0..Len(cd)
      /\ \A n \in 1..Len(c) : cd[n] = c[n]
      /\ \A n \in 1..Len(cd) : cd[n] \in E
  OBVIOUS
<1>2. \A e \in E : Add(e) \in Nat
  OBVIOUS
<1>3. PICK B : /\ B[0] = 0
               /\ \A n \in 1..Len(c) : B[n] = B[n - 1] + Add(c[n])
               /\ TotalHits(c, key) = B[Len(c)]
  BY SumTurns
<1>4. PICK D : /\ D[0] = 0
               /\ \A n \in 1..Len(cd) : D[n] = D[n - 1] + Add(cd[n])
               /\ TotalHits(cd, key) = D[Len(cd)]
  BY <1>1, SumTurns
<1> HIDE DEF cd, Add
<1> DEFINE P == {m \in Nat : B[m] = D[m] /\ B[m] \in Nat}
           Q == {m \in Nat : D[m] \in Nat /\ (m >= Len(c) => D[Len(c)] <= D[m])}
<1>5. 0 \in P
  BY <1>3, <1>4
<1>6. ASSUME NEW m \in 1..Len(c), m - 1 \in P PROVE m \in P
  <2>1. c[m] = cd[m] /\ m \in 1..Len(cd) /\ cd[m] \in E
    BY <1>1
  <2>2. B[m] = B[m - 1] + Add(c[m]) /\ D[m] = D[m - 1] + Add(c[m]) /\ Add(c[m]) \in Nat
    BY <1>2, <1>3, <1>4, <2>1
  <2>3. B[m - 1] = D[m - 1] /\ B[m - 1] \in Nat /\ m \in Nat
    BY <1>6
  <2>4. QED BY <2>2, <2>3
<1>7. Len(c) \in P
  <2> HIDE DEF P
  <2>1. QED BY <1>1, <1>5, <1>6, EveryTurn
<1>8. 0 \in Q
  BY <1>4
<1>9. ASSUME NEW m \in 1..Len(cd), m - 1 \in Q PROVE m \in Q
  <2>1. D[m] = D[m - 1] + Add(cd[m]) /\ Add(cd[m]) \in Nat
    BY <1>1, <1>2, <1>4
  <2>2. /\ D[m - 1] \in Nat /\ m \in Nat /\ Len(c) \in Nat
        /\ m - 1 >= Len(c) => D[Len(c)] <= D[m - 1]
    BY <1>1, <1>9
  <2>3. D[m] \in Nat
    BY <2>1, <2>2
  <2>4. CASE m = Len(c)
    BY <2>2, <2>3, <2>4
  <2>5. CASE m # Len(c)
    <3>1. m >= Len(c) => D[Len(c)] <= D[m - 1]
      BY <2>2, <2>5
    <3>2. D[m - 1] <= D[m]
      BY <2>1, <2>2
    <3>3. m >= Len(c) => D[Len(c)] <= D[m]
      <4>1. SUFFICES ASSUME m >= Len(c) PROVE D[Len(c)] <= D[m] OBVIOUS
      <4>2. D[Len(c)] \in Nat
        BY <1>7
      <4>3. QED BY <2>2, <2>3, <3>1, <3>2, <4>1, <4>2
    <3>4. QED BY <2>2, <2>3, <3>3
  <2>6. QED BY <2>4, <2>5
<1>10. Len(cd) \in Q
  <2> HIDE DEF Q
  <2>1. QED BY <1>1, <1>8, <1>9, EveryTurn
<1>11. QED BY <1>1, <1>3, <1>4, <1>7, <1>10 DEF cd

\* The list of a finite set has its members and no others.
LEMMA ListOfSet ==
  ASSUME NEW S, IsFiniteSet(S)
  PROVE  /\ SetToSeq(S) \in Seq(S)
         /\ Range(SetToSeq(S)) = S
<1> DEFINE n == Cardinality(S)
           f == SetToSeq(S)
<1>1. n \in Nat /\ ExistsBijection(1..n, S)
  BY FS_CardinalityType
<1>2. \E g \in [1..n -> S] : IsInjective(g)
  BY <1>1 DEF ExistsBijection, Bijection, Injection, IsInjective
<1>3. f \in [1..n -> S] /\ IsInjective(f)
  BY <1>2 DEF SetToSeq
<1> HIDE DEF f
<1>4. f \in Injection(1..n, S)
  BY <1>3 DEF Injection, IsInjective
<1>5. IsFiniteSet(1..n) /\ Cardinality(1..n) = n
  BY <1>1, FS_Interval
<1>6. f \in Surjection(1..n, S)
  BY <1>4, <1>5, FS_Injection
<1>7. QED BY <1>1, <1>3, <1>6 DEF Surjection, Range, f

-----------------------------------------------------------------------------
(* Types                                                                    *)

Event == UNION {Range(ParseLines(b)) : b \in Range(Batches)}
Key   == {FlowKey(e) : e \in Event}
Flow  == [key : Key, hits : Nat]
Item  == [flow : Flow, category : Categories]

Statuses == {"none", "in_progress", "complete"}

\* A job is a record with the fields of NoJob.
JobForm(j) ==
  j = [op |-> j.op, run |-> j.run, lines |-> j.lines, flows |-> j.flows, todo |-> j.todo,
       items |-> j.items, known |-> j.known, rows |-> j.rows, seen |-> j.seen,
       gone |-> j.gone, put |-> j.put]

JobType(j) ==
  /\ j.op \in Ops \cup {"none"}
  /\ j.run \in 0..MaxRuns
  /\ j.lines \in Range(Batches) \cup {<<>>}
  /\ j.flows \subseteq Flow
  /\ j.todo \in Seq(Flow)
  /\ j.items \in Seq(Item)
  /\ j.rows \subseteq Row /\ IsFiniteSet(j.rows)

\* What a job is at a place, when that many runs have an id.
JobFits(j, place, last) ==
  /\ place \in {"idle", "refused"} <=> j.op = "none"
  /\ j.op = "none" => j = NoJob
  /\ place \in {"lookup", "ask", "upsert"} => j.op = "classify"
  /\ place \in {"existing", "delete", "insert"} => j.op = "matrix"
  /\ place = "ask" => j.todo # <<>>
  /\ place = "upsert" => j.items # <<>>
  /\ j.op # "none" => j.run \in 1..last

JobAt(j, place) == JobFits(j, place, lastId)

StoreType ==
  /\ status \in [Runs -> Statuses]
  /\ lastId \in 0..MaxRuns
  /\ events \in [Runs -> Seq(Event)]
  /\ rows \subseteq Row /\ IsFiniteSet(rows)
  /\ contracts = [r \in Runs |-> contracts[r]]
  /\ basis = [r \in Runs |-> basis[r]]
  /\ faults \in 0..MaxFaults

JobsType ==
  /\ at \in [Sessions -> Place]
  /\ job = [s \in Sessions |-> job[s]]
  /\ \A s \in Sessions : JobForm(job[s]) /\ JobType(job[s]) /\ JobAt(job[s], at[s])

PipelineType == StoreType /\ JobsType

\* The data of a run are those that Row knows.
LEMMA DataTypes ==
  /\ \A b \in Range(Batches) \cup {<<>>} : ParseLines(b) \in Seq(Event)
  /\ \A e \in Event : e.hits \in Nat
  /\ Row = [run : Runs, key : Key, hits : Nat, category : Categories, age : 0..(Window + 1)]
<1>1. \A b \in Range(Batches) : Counted(b)
  BY ClientAssumption DEF Counted
<1>2. ASSUME NEW b \in Range(Batches) PROVE ParseLines(b) \in Seq(Event)
  <2>1. ParseLines(b) \in Seq(Range(ParseLines(b)))
    BY <1>1, ParsedType
  <2>2. Range(ParseLines(b)) \subseteq Event
    BY DEF Event
  <2>3. QED BY <2>1, <2>2, SeqMonotonic
<1>3. ParseLines(<<>>) = <<>>
  <2>1. Len(<<>>) = 0 OBVIOUS
  <2>2. QED BY <2>1, ParsedTurns
<1>4. \A b \in Range(Batches) \cup {<<>>} : ParseLines(b) \in Seq(Event)
  BY <1>2, <1>3, EmptySeq
<1>5. \A e \in Event : e.hits \in Nat
  BY <1>1, ParsedType DEF Event
<1>6. Key = UNION {{FlowKey(e) : e \in Range(ParseLines(b))} : b \in Range(Batches)}
  BY DEF Key, Event
<1>7. QED BY <1>4, <1>5, <1>6 DEF Row

-----------------------------------------------------------------------------
(* What a step of a session changes                                         *)

\* s goes on to a place, with a job; all else that sessions share stays.
Works(s, place, j) ==
  /\ at' = [at EXCEPT ![s] = place]
  /\ job' = [job EXCEPT ![s] = j]
  /\ UNCHANGED <<status, events, rows, contracts, basis>>

LEMMA WorksType ==
  ASSUME PipelineType, NEW s \in Sessions, NEW place \in Place, NEW j, Works(s, place, j),
         JobForm(j), JobType(j), JobFits(j, place, lastId'),
         lastId' \in lastId..MaxRuns, faults' \in 0..MaxFaults
  PROVE  /\ PipelineType'
         /\ at'[s] = place /\ job'[s] = j
         /\ \A t \in Sessions \ {s} : at'[t] = at[t] /\ job'[t] = job[t]
<1>1. /\ at' \in [Sessions -> Place] /\ at'[s] = place
      /\ \A t \in Sessions \ {s} : at'[t] = at[t]
  BY DEF Works, PipelineType, JobsType
<1>2. /\ job' = [t \in Sessions |-> job'[t]] /\ job'[s] = j
      /\ \A t \in Sessions \ {s} : job'[t] = job[t]
  BY DEF Works, PipelineType, JobsType
<1>3. StoreType'
  BY DEF Works, PipelineType, StoreType
<1>4. \A t \in Sessions : JobForm(job[t])'
  BY <1>2 DEF PipelineType, JobsType, JobForm
<1>5. \A t \in Sessions : JobType(job[t])'
  BY <1>2 DEF PipelineType, JobsType, JobType
<1>6. lastId \in Nat /\ lastId' \in Nat /\ lastId' >= lastId
  BY DEF PipelineType, StoreType
<1>7. \A t \in Sessions \ {s} : JobAt(job[t], at[t])'
  BY <1>1, <1>2, <1>6 DEF PipelineType, JobsType, JobAt, JobFits
<1>8. JobAt(job[s], at[s])'
  BY <1>1, <1>2 DEF JobAt
<1>9. QED BY <1>1, <1>2, <1>3, <1>4, <1>5, <1>7, <1>8 DEF PipelineType, JobsType

\* What the statements of a request leave as they were.
KeepsRequest(j, i) == j.op = i.op /\ j.run = i.run /\ j.lines = i.lines /\ j.known = i.known
KeepsMatrix(j, i)  == j.seen = i.seen /\ j.gone = i.gone /\ j.put = i.put

LEMMA JobsTyped ==
  ASSUME PipelineType, NEW s \in Sessions
  PROVE  /\ JobForm(job[s]) /\ JobType(job[s]) /\ JobAt(job[s], at[s])
         /\ job = [t \in Sessions |-> job[t]] /\ at[s] \in Place
         /\ lastId \in 0..MaxRuns /\ faults \in 0..MaxFaults
BY DEF PipelineType, StoreType, JobsType

\* The statements of classify.
LEMMA LookupStep ==
  ASSUME PipelineType, NEW s \in Sessions, Lookup(s)
  PROVE  /\ at[s] = "lookup" /\ UNCHANGED <<lastId, faults>>
         /\ \E place \in {"lookup", "ask", "upsert"} : \E j :
              /\ Works(s, place, j) /\ JobForm(j) /\ JobType(j) /\ JobAt(j, place)
              /\ KeepsRequest(j, job[s]) /\ KeepsMatrix(j, job[s]) /\ j.rows = job[s].rows
              /\ \E flow \in job[s].flows :
                   /\ j.flows = job[s].flows \ {flow}
                   /\ \/ /\ Recent(flow.key) = {}
                         /\ j.todo = Append(job[s].todo, flow) /\ j.items = job[s].items
                      \/ \E hit \in Recent(flow.key) :
                           /\ j.items = Append(job[s].items, [flow |-> flow, category |-> hit.category])
                           /\ j.todo = job[s].todo
<1>1. PICK flow \in NextFlow(s) :
        \/ \E hit \in Recent(flow.key) :
             job' = [job EXCEPT ![s].flows = @ \ {flow},
                                ![s].items = Append(@, [flow |-> flow, category |-> hit.category])]
        \/ /\ Recent(flow.key) = {}
           /\ job' = [job EXCEPT ![s].flows = @ \ {flow},
                                 ![s].todo  = Append(@, flow)]
  BY DEF Lookup
<1>2. JobForm(job[s]) /\ JobType(job[s]) /\ JobAt(job[s], at[s]) /\ job = [t \in Sessions |-> job[t]]
  BY JobsTyped
<1>3. flow \in job[s].flows /\ flow \in Flow /\ job[s].todo \in Seq(Flow) /\ job[s].items \in Seq(Item)
  BY <1>2 DEF NextFlow, JobType
<1> DEFINE j == job'[s]
           place == IF j.flows # {} THEN "lookup" ELSE IF j.todo # <<>> THEN "ask" ELSE "upsert"
<1>4. at[s] = "lookup" /\ UNCHANGED <<store, faults>> /\ at' = [at EXCEPT ![s] = place]
  BY DEF Lookup, Goto
<1>5. CASE Recent(flow.key) = {} /\ job' = [job EXCEPT ![s].flows = @ \ {flow}, ![s].todo = Append(@, flow)]
  <2>1. j = [job[s] EXCEPT !.flows = @ \ {flow}, !.todo = Append(@, flow)] /\ job' = [job EXCEPT ![s] = j]
    BY <1>2, <1>5
  <2>2. Append(job[s].todo, flow) \in Seq(Flow) /\ Append(job[s].todo, flow) # <<>>
    BY <1>3, AppendProperties
  <2> HIDE DEF j
  <2>3. /\ JobForm(j) /\ j.todo = Append(job[s].todo, flow) /\ j.flows = job[s].flows \ {flow}
        /\ j.items = job[s].items /\ j.rows = job[s].rows
        /\ KeepsRequest(j, job[s]) /\ KeepsMatrix(j, job[s])
    BY <1>2, <2>1 DEF JobForm, KeepsRequest, KeepsMatrix
  <2>4. JobType(j)
    BY <1>2, <2>2, <2>3 DEF JobType, KeepsRequest
  <2>5. JobAt(j, place)
    BY <1>2, <1>4, <2>2, <2>3 DEF JobAt, JobFits, KeepsRequest
  <2>6. Works(s, place, j)
    BY <1>4, <2>1 DEF Works, store
  <2>7. QED BY <1>3, <1>4, <1>5, <2>3, <2>4, <2>5, <2>6 DEF store
<1>6. CASE \E hit \in Recent(flow.key) :
             job' = [job EXCEPT ![s].flows = @ \ {flow},
                                ![s].items = Append(@, [flow |-> flow, category |-> hit.category])]
  <2>1. PICK hit \in Recent(flow.key) :
             job' = [job EXCEPT ![s].flows = @ \ {flow},
                                ![s].items = Append(@, [flow |-> flow, category |-> hit.category])]
    BY <1>6
  <2> DEFINE item == [flow |-> flow, category |-> hit.category]
  <2>2. item \in Item
    BY <1>3, DataTypes DEF Recent, Item, PipelineType, StoreType
  <2>3. j = [job[s] EXCEPT !.flows = @ \ {flow}, !.items = Append(@, item)] /\ job' = [job EXCEPT ![s] = j]
    BY <1>2, <2>1
  <2> HIDE DEF item
  <2>4. Append(job[s].items, item) \in Seq(Item) /\ Append(job[s].items, item) # <<>>
    BY <1>3, <2>2, AppendProperties
  <2> HIDE DEF j
  <2>5. /\ JobForm(j) /\ j.items = Append(job[s].items, item) /\ j.flows = job[s].flows \ {flow}
        /\ j.todo = job[s].todo /\ j.rows = job[s].rows
        /\ KeepsRequest(j, job[s]) /\ KeepsMatrix(j, job[s])
    BY <1>2, <2>3 DEF JobForm, KeepsRequest, KeepsMatrix
  <2>6. JobType(j)
    BY <1>2, <2>4, <2>5 DEF JobType, KeepsRequest
  <2>7. JobAt(j, place)
    BY <1>2, <1>4, <2>4, <2>5 DEF JobAt, JobFits, KeepsRequest
  <2>8. Works(s, place, j)
    BY <1>4, <2>3 DEF Works, store
  <2>9. QED BY <1>3, <1>4, <2>5, <2>6, <2>7, <2>8 DEF store, item
<1>7. QED BY <1>1, <1>5, <1>6

LEMMA MinOfTwo ==
  ASSUME NEW a \in Nat, NEW b \in Nat
  PROVE  Min({a, b}) = IF a <= b THEN a ELSE b
BY DEF Min

\* A call of the model takes flows off the list, and labels them.
LEMMA AskStep ==
  ASSUME PipelineType, NEW s \in Sessions, Ask(s)
  PROVE  /\ at[s] = "ask" /\ UNCHANGED <<lastId, faults>>
         /\ \E place \in {"ask", "upsert"} : \E j :
              /\ Works(s, place, j) /\ JobForm(j) /\ JobType(j) /\ JobAt(j, place)
              /\ KeepsRequest(j, job[s]) /\ KeepsMatrix(j, job[s])
              /\ j.rows = job[s].rows /\ j.flows = job[s].flows
              /\ Range(j.todo) \subseteq Range(job[s].todo)
              /\ \A item \in Range(j.items) \ Range(job[s].items) : item.flow \in Range(job[s].todo)
<1> DEFINE todo  == job[s].todo
           size  == Min({BatchSize, Len(todo)})
           batch == SubSeq(todo, 1, size)
           j     == job'[s]
           place == IF j.todo # <<>> THEN "ask" ELSE "upsert"
<1>1. JobForm(job[s]) /\ JobType(job[s]) /\ JobAt(job[s], at[s]) /\ job = [t \in Sessions |-> job[t]]
  BY JobsTyped
<1>2. at[s] = "ask" /\ UNCHANGED <<store, faults>> /\ at' = [at EXCEPT ![s] = place]
  BY DEF Ask, Goto
<1>3. todo \in Seq(Flow) /\ todo # <<>> /\ job[s].items \in Seq(Item) /\ Len(todo) \in Nat \ {0}
  BY <1>1, <1>2, EmptySeq DEF JobAt, JobFits, JobType
<1>4. BatchSize \in Nat \ {0} /\ Answers \subseteq Categories \cup {NoAnswer}
  BY RunAssumption
<1>5. size \in 1..Len(todo)
  BY <1>3, <1>4, MinOfTwo
<1>6. PICK answer \in [DOMAIN batch -> Answers] :
        job' = [job EXCEPT ![s].items = @ \o Labelled(batch, answer), ![s].todo = Unasked(s)]
  BY DEF Ask
<1> HIDE DEF size
<1>7. batch \in Seq(Flow) /\ Len(batch) = size /\ \A n \in 1..size : batch[n] = todo[n]
  BY <1>3, <1>5, SubSeqProperties
<1> HIDE DEF batch
<1> DEFINE more == Labelled(batch, answer)
<1>8. /\ more \in Seq(Item) /\ Len(more) = size
      /\ \A n \in 1..size : more[n].flow = todo[n]
  <2>1. more = [n \in 1..size |->
                  [flow |-> batch[n], category |-> IF answer[n] = NoAnswer THEN "default" ELSE answer[n]]]
    BY <1>5, <1>7 DEF Labelled
  <2>2. \A n \in 1..size : more[n] \in Item /\ more[n].flow = todo[n]
    BY <1>4, <1>5, <1>6, <1>7, <2>1 DEF Item, Categories
  <2>3. more \in [1..size -> Item]
    BY <2>1, <2>2
  <2>4. QED BY <1>5, <2>2, <2>3
<1> HIDE DEF more
<1> DEFINE rest == Unasked(s)
           all  == job[s].items \o more
<1>9. rest \in Seq(Flow) /\ Range(rest) \subseteq Range(todo)
  <2>1. /\ rest \in Seq(Flow)
        /\ \A n \in 1..(Len(todo) - (BatchSize + 1) + 1) : rest[n] = todo[BatchSize + 1 + n - 1]
        /\ Len(rest) = IF BatchSize + 1 <= Len(todo) THEN Len(todo) - (BatchSize + 1) + 1 ELSE 0
    BY <1>3, <1>4, SubSeqProperties DEF Unasked
  <2> HIDE DEF rest, todo
  <2>2. \A n \in 1..Len(rest) : \E m \in 1..Len(todo) : rest[n] = todo[m]
    BY <1>3, <1>4, <2>1
  <2>3. QED BY <1>3, <2>1, <2>2 DEF Range
<1>10. /\ all \in Seq(Item) /\ all # <<>>
       /\ \A item \in Range(all) \ Range(job[s].items) : item.flow \in Range(todo)
  <2>1. /\ all \in Seq(Item) /\ Len(all) = Len(job[s].items) + size
        /\ \A n \in 1..Len(all) : all[n] = IF n <= Len(job[s].items) THEN job[s].items[n]
                                           ELSE more[n - Len(job[s].items)]
    <3>1. /\ job[s].items \o more \in Seq(Item)
          /\ Len(job[s].items \o more) = Len(job[s].items) + Len(more)
          /\ \A n \in 1..Len(job[s].items) + Len(more) :
               (job[s].items \o more)[n] = IF n <= Len(job[s].items) THEN job[s].items[n]
                                           ELSE more[n - Len(job[s].items)]
      BY <1>3, <1>8, ConcatProperties
    <3>2. QED BY <1>8, <3>1
  <2>2. all # <<>>
    BY <1>3, <1>5, <2>1
  <2> HIDE DEF all, todo
  <2>3. ASSUME NEW n \in 1..Len(all)
        PROVE  all[n] \in Range(job[s].items) \/ all[n].flow \in Range(todo)
    <3>1. CASE n <= Len(job[s].items)
      BY <1>3, <2>1, <3>1 DEF Range
    <3>2. CASE n > Len(job[s].items)
      <4>1. n - Len(job[s].items) \in 1..size
        BY <1>3, <1>5, <2>1, <3>2
      <4>2. all[n].flow = todo[n - Len(job[s].items)]
        BY <1>3, <1>8, <2>1, <3>2, <4>1
      <4>3. QED BY <1>3, <1>5, <4>1, <4>2 DEF Range
    <3>3. QED BY <1>3, <3>1, <3>2
  <2>4. QED BY <2>1, <2>2, <2>3 DEF Range
<1> HIDE DEF rest, all
<1>11. j = [job[s] EXCEPT !.items = all, !.todo = rest] /\ job' = [job EXCEPT ![s] = j]
  BY <1>1, <1>6 DEF all, rest, more
<1> HIDE DEF j
<1>12. /\ JobForm(j) /\ j.items = all /\ j.todo = rest /\ j.flows = job[s].flows
       /\ j.rows = job[s].rows /\ KeepsRequest(j, job[s]) /\ KeepsMatrix(j, job[s])
  BY <1>1, <1>11 DEF JobForm, KeepsRequest, KeepsMatrix
<1>13. JobType(j)
  BY <1>1, <1>9, <1>10, <1>12 DEF JobType, KeepsRequest
<1>14. JobAt(j, place)
  BY <1>1, <1>2, <1>10, <1>12 DEF JobAt, JobFits, KeepsRequest
<1>15. Works(s, place, j)
  BY <1>2, <1>11 DEF Works, store
<1>16. QED BY <1>2, <1>9, <1>10, <1>12, <1>13, <1>14, <1>15 DEF store

\* One row of upsert_batch.
LEMMA UpsertStep ==
  ASSUME PipelineType, NEW s \in Sessions, Upsert(s)
  PROVE  /\ at[s] = "upsert" /\ UNCHANGED <<lastId, faults>> /\ RowBlockers(s) = {}
         /\ \E place \in {"upsert", "done"} : \E j :
              /\ Works(s, place, j) /\ JobForm(j) /\ JobType(j) /\ JobAt(j, place)
              /\ KeepsRequest(j, job[s]) /\ KeepsMatrix(j, job[s])
              /\ j.todo = job[s].todo /\ j.flows = job[s].flows
              /\ Range(j.items) \subseteq Range(job[s].items)
              /\ LET item == Head(job[s].items)
                     row  == RowOf(job[s].run, item)
                 IN  /\ item \in Range(job[s].items)
                     /\ \/ HasRow(s, row) /\ j.rows = job[s].rows
                        \/ ~ HasRow(s, row) /\ j.rows = job[s].rows \cup {row}
<1> DEFINE items == job[s].items
           item  == Head(items)
           row   == RowOf(job[s].run, item)
           some  == IF HasRow(s, row) THEN job[s].rows ELSE job[s].rows \cup {row}
           j     == job'[s]
           place == IF j.items # <<>> THEN "upsert" ELSE "done"
<1>1. JobForm(job[s]) /\ JobType(job[s]) /\ JobAt(job[s], at[s]) /\ job = [t \in Sessions |-> job[t]]
  BY JobsTyped
<1>2. /\ at[s] = "upsert" /\ UNCHANGED <<store, faults>> /\ at' = [at EXCEPT ![s] = place]
      /\ job' = [job EXCEPT ![s].items = Tail(@), ![s].rows = some]
  BY DEF Upsert, Goto
<1>3. items \in Seq(Item) /\ items # <<>> /\ job[s].rows \subseteq Row /\ IsFiniteSet(job[s].rows)
  BY <1>1, <1>2 DEF JobAt, JobFits, JobType
<1>4. /\ item \in Item /\ item \in Range(items)
      /\ Tail(items) \in Seq(Item) /\ Range(Tail(items)) \subseteq Range(items)
  <2>1. /\ item \in Item /\ Tail(items) \in Seq(Item) /\ Len(Tail(items)) = Len(items) - 1
        /\ \A n \in 1..Len(Tail(items)) : Tail(items)[n] = items[n + 1]
        /\ Len(items) \in Nat \ {0}
    BY <1>3, HeadTailProperties, EmptySeq
  <2>2. item = items[1]
    BY <1>3
  <2> HIDE DEF items, item
  <2>3. QED BY <1>3, <2>1, <2>2 DEF Range
<1>5. row \in Row
  <2>1. job[s].run \in Runs
    BY <1>1, <1>2, JobsTyped, RunAssumption DEF JobAt, JobFits, Runs
  <2>2. item.flow.key \in Key /\ item.flow.hits \in Nat /\ item.category \in Categories
    BY <1>4 DEF Item, Flow
  <2>3. Window \in Nat
    BY RunAssumption
  <2> HIDE DEF items, item
  <2>4. QED BY <2>1, <2>2, <2>3, DataTypes DEF RowOf
<1>6. some \subseteq Row /\ IsFiniteSet(some)
  <2> HIDE DEF row
  <2>1. IsFiniteSet(job[s].rows \cup {row})
    BY <1>3, FS_AddElement
  <2>2. QED BY <1>3, <1>5, <2>1
<1> HIDE DEF some, row
<1>7. j = [job[s] EXCEPT !.items = Tail(items), !.rows = some] /\ job' = [job EXCEPT ![s] = j]
  BY <1>1, <1>2
<1> HIDE DEF j
<1>8. /\ JobForm(j) /\ j.items = Tail(items) /\ j.rows = some /\ j.flows = job[s].flows
      /\ j.todo = job[s].todo /\ KeepsRequest(j, job[s]) /\ KeepsMatrix(j, job[s])
  BY <1>1, <1>7 DEF JobForm, KeepsRequest, KeepsMatrix
<1>9. JobType(j)
  BY <1>1, <1>4, <1>6, <1>8 DEF JobType, KeepsRequest
<1>10. JobAt(j, place)
  BY <1>1, <1>2, <1>8 DEF JobAt, JobFits, KeepsRequest
<1>11. Works(s, place, j)
  BY <1>2, <1>7 DEF Works, store
<1>12. RowBlockers(s) = {}
  BY DEF Upsert
<1>13. \/ HasRow(s, row) /\ j.rows = job[s].rows
       \/ ~ HasRow(s, row) /\ j.rows = job[s].rows \cup {row}
  BY <1>8 DEF some
<1>14. QED BY <1>2, <1>4, <1>8, <1>9, <1>10, <1>11, <1>12, <1>13 DEF store, row

\* The statements of build_matrix.
LEMMA ReadExistingStep ==
  ASSUME PipelineType, NEW s \in Sessions, ReadExisting(s)
  PROVE  /\ at[s] = "existing" /\ UNCHANGED <<lastId, faults>>
         /\ \E j :
              /\ Works(s, "delete", j) /\ JobForm(j) /\ JobType(j) /\ JobAt(j, "delete")
              /\ j = [job[s] EXCEPT !.seen = DOMAIN contracts[job[s].run]]
<1> DEFINE j == job'[s]
<1>1. JobForm(job[s]) /\ JobType(job[s]) /\ JobAt(job[s], at[s]) /\ job = [t \in Sessions |-> job[t]]
  BY JobsTyped
<1>2. /\ at[s] = "existing" /\ UNCHANGED <<store, faults>> /\ at' = [at EXCEPT ![s] = "delete"]
      /\ j = [job[s] EXCEPT !.seen = DOMAIN contracts[job[s].run]] /\ job' = [job EXCEPT ![s] = j]
  BY <1>1 DEF ReadExisting, Goto
<1> HIDE DEF j
<1>3. JobForm(j) /\ JobType(j) /\ JobAt(j, "delete")
  BY <1>1, <1>2 DEF JobForm, JobType, JobAt, JobFits
<1>4. QED BY <1>2, <1>3 DEF Works, store

LEMMA DeleteSeenStep ==
  ASSUME PipelineType, NEW s \in Sessions, DeleteSeen(s)
  PROVE  /\ at[s] = "delete" /\ UNCHANGED <<lastId, faults>> /\ DeleteBlockers(s) = {}
         /\ \E place \in {"insert", "done"} : \E j :
              /\ Works(s, place, j) /\ JobForm(j) /\ JobType(j) /\ JobAt(j, place)
              /\ j = [job[s] EXCEPT !.gone = job[s].seen]
              /\ place = "done" <=> job[s].items = <<>>
<1> DEFINE j == job'[s]
           place == IF job[s].items = <<>> THEN "done" ELSE "insert"
<1>1. JobForm(job[s]) /\ JobType(job[s]) /\ JobAt(job[s], at[s]) /\ job = [t \in Sessions |-> job[t]]
  BY JobsTyped
<1>2. /\ at[s] = "delete" /\ UNCHANGED <<store, faults>> /\ at' = [at EXCEPT ![s] = place]
      /\ j = [job[s] EXCEPT !.gone = job[s].seen] /\ job' = [job EXCEPT ![s] = j]
      /\ DeleteBlockers(s) = {}
  BY <1>1 DEF DeleteSeen, Goto
<1> HIDE DEF j
<1>3. JobForm(j) /\ JobType(j) /\ JobAt(j, place)
  BY <1>1, <1>2 DEF JobForm, JobType, JobAt, JobFits
<1>4. Works(s, place, j)
  BY <1>2 DEF Works, store
<1>5. QED BY <1>2, <1>3, <1>4 DEF store

LEMMA InsertContractStep ==
  ASSUME PipelineType, NEW s \in Sessions, InsertContract(s)
  PROVE  /\ at[s] = "insert" /\ UNCHANGED <<lastId, faults>>
         /\ InsertBlockers(s) = {} /\ ~ HasContract(s, NextPair(s))
         /\ \E place \in {"insert", "done"} : \E j :
              /\ Works(s, place, j) /\ JobForm(j) /\ JobType(j) /\ JobAt(j, place)
              /\ j = [job[s] EXCEPT !.put = [p \in DOMAIN @ \cup {NextPair(s)} |-> Wanted(s)[p]]]
              /\ place = "done" <=> DOMAIN j.put = DOMAIN Wanted(s)
<1> DEFINE j == job'[s]
           place == IF DOMAIN j.put = DOMAIN Wanted(s) THEN "done" ELSE "insert"
<1>1. JobForm(job[s]) /\ JobType(job[s]) /\ JobAt(job[s], at[s]) /\ job = [t \in Sessions |-> job[t]]
  BY JobsTyped
<1>2. /\ at[s] = "insert" /\ UNCHANGED <<store, faults>> /\ at' = [at EXCEPT ![s] = place]
      /\ InsertBlockers(s) = {} /\ ~ HasContract(s, NextPair(s))
      /\ job' = [job EXCEPT ![s].put = [p \in DOMAIN @ \cup {NextPair(s)} |-> Wanted(s)[p]]]
  BY DEF InsertContract, Goto
<1>3. /\ j = [job[s] EXCEPT !.put = [p \in DOMAIN @ \cup {NextPair(s)} |-> Wanted(s)[p]]]
      /\ job' = [job EXCEPT ![s] = j]
  BY <1>1, <1>2
<1> HIDE DEF j
<1>4. JobForm(j) /\ JobType(j) /\ JobAt(j, place)
  BY <1>1, <1>2, <1>3 DEF JobForm, JobType, JobAt, JobFits
<1>5. Works(s, place, j)
  BY <1>2, <1>3 DEF Works, store
<1>6. QED BY <1>2, <1>3, <1>4, <1>5 DEF store

\* What is classified in a run: what a builder reads.
Found(run) == {Classified(row) : row \in RowsOf(run)}

LEMMA FoundType ==
  ASSUME PipelineType, NEW run
  PROVE  /\ IsFiniteSet(Found(run)) /\ Found(run) \subseteq Item
         /\ SetToSeq(Found(run)) \in Seq(Item) /\ Range(SetToSeq(Found(run))) = Found(run)
<1>1. rows \subseteq Row /\ IsFiniteSet(rows)
  BY DEF PipelineType, StoreType
<1>2. IsFiniteSet(RowsOf(run)) /\ RowsOf(run) \subseteq Row
  <2>1. RowsOf(run) \subseteq rows
    BY DEF RowsOf
  <2>2. QED BY <1>1, <2>1, FS_Subset
<1>3. IsFiniteSet(Found(run))
  <2> DEFINE f == [row \in RowsOf(run) |-> Classified(row)]
  <2>1. f \in Surjection(RowsOf(run), Found(run))
    BY DEF Surjection, Found
  <2>2. QED BY <1>2, <2>1, FS_Surjection
<1>4. Found(run) \subseteq Item
  BY <1>2, DataTypes DEF Found, Classified, Item, Flow
<1>5. SetToSeq(Found(run)) \in Seq(Found(run)) /\ Range(SetToSeq(Found(run))) = Found(run)
  BY <1>3, ListOfSet
<1>6. QED BY <1>3, <1>4, <1>5, SeqMonotonic

LEMMA AggregateType ==
  ASSUME NEW c \in Seq(Event)
  PROVE  Aggregate(c) \subseteq Flow
<1>1. \A n \in DOMAIN c : c[n] \in Event
  OBVIOUS
<1>2. \A k : TotalHits(c, k) \in Nat
  BY DataTypes, HitsGrow
<1>3. QED BY <1>1, <1>2 DEF Aggregate, Flow, Key

\* The job of a request that begins.
Job(op, run, lines, flows, items, known) ==
  [op |-> op, run |-> run, lines |-> lines, flows |-> flows, todo |-> <<>>, items |-> items,
   known |-> known, rows |-> {}, seen |-> {}, gone |-> {}, put |-> NoContracts]

LEMMA JobOfRequest ==
  ASSUME NEW op, NEW run, NEW lines, NEW flows, NEW items, NEW known
  PROVE  LET j == Job(op, run, lines, flows, items, known)
         IN  /\ JobForm(j)
             /\ j.op = op /\ j.run = run /\ j.lines = lines /\ j.flows = flows
             /\ j.items = items /\ j.known = known /\ j.rows = {} /\ j.todo = <<>>
             /\ j.seen = {} /\ j.gone = {} /\ j.put = NoContracts
BY DEF Job, JobForm

\* What NoJob becomes.
LEMMA NewJobs ==
  ASSUME NEW run
  PROVE  /\ JobForm(NoJob)
         /\ Job("create", run, <<>>, {}, <<>>, {})
              = [NoJob EXCEPT !.op = "create", !.run = run]
         /\ \A lines : Job("ingest", run, lines, {}, <<>>, {})
              = [NoJob EXCEPT !.op = "ingest", !.run = run, !.lines = lines]
         /\ \A items : Job("matrix", run, <<>>, {}, items, {})
              = [NoJob EXCEPT !.op = "matrix", !.run = run, !.items = items]
<1>1. /\ JobForm(NoJob) /\ NoJob.lines = <<>> /\ NoJob.flows = {} /\ NoJob.todo = <<>>
      /\ NoJob.items = <<>> /\ NoJob.known = {} /\ NoJob.rows = {} /\ NoJob.seen = {}
      /\ NoJob.gone = {} /\ NoJob.put = NoContracts
  BY DEF JobForm, NoJob
<1>2. Job("create", run, <<>>, {}, <<>>, {})
       = [NoJob EXCEPT !.op = "create", !.run = run]
  <2> DEFINE j == [NoJob EXCEPT !.op = "create", !.run = run]
  <2>1. j = [NoJob EXCEPT !.op = "create", !.run = run]
    OBVIOUS
  <2> HIDE DEF j
  <2>2. JobForm(j)
    BY <1>1, <2>1 DEF JobForm
  <2>3. /\ j.op = "create" /\ j.run = run /\ j.lines = <<>> /\ j.flows = {} /\ j.todo = <<>>
        /\ j.items = <<>> /\ j.known = {} /\ j.rows = {} /\ j.seen = {} /\ j.gone = {}
        /\ j.put = NoContracts
    BY <1>1, <2>1 DEF JobForm
  <2>4. QED BY <2>1, <2>2, <2>3 DEF JobForm, Job
<1>3. ASSUME NEW lines
      PROVE  Job("ingest", run, lines, {}, <<>>, {})
               = [NoJob EXCEPT !.op = "ingest", !.run = run, !.lines = lines]
  <2> DEFINE j == [NoJob EXCEPT !.op = "ingest", !.run = run, !.lines = lines]
  <2>1. j = [NoJob EXCEPT !.op = "ingest", !.run = run, !.lines = lines]
    OBVIOUS
  <2> HIDE DEF j
  <2>2. JobForm(j)
    BY <1>1, <2>1 DEF JobForm
  <2>3. /\ j.op = "ingest" /\ j.run = run /\ j.lines = lines /\ j.flows = {} /\ j.todo = <<>>
        /\ j.items = <<>> /\ j.known = {} /\ j.rows = {} /\ j.seen = {} /\ j.gone = {}
        /\ j.put = NoContracts
    BY <1>1, <2>1 DEF JobForm
  <2>4. QED BY <2>1, <2>2, <2>3 DEF JobForm, Job
<1>4. ASSUME NEW items
      PROVE  Job("matrix", run, <<>>, {}, items, {})
               = [NoJob EXCEPT !.op = "matrix", !.run = run, !.items = items]
  <2> DEFINE j == [NoJob EXCEPT !.op = "matrix", !.run = run, !.items = items]
  <2>1. j = [NoJob EXCEPT !.op = "matrix", !.run = run, !.items = items]
    OBVIOUS
  <2> HIDE DEF j
  <2>2. JobForm(j)
    BY <1>1, <2>1 DEF JobForm
  <2>3. /\ j.op = "matrix" /\ j.run = run /\ j.lines = <<>> /\ j.flows = {} /\ j.todo = <<>>
        /\ j.items = items /\ j.known = {} /\ j.rows = {} /\ j.seen = {} /\ j.gone = {}
        /\ j.put = NoContracts
    BY <1>1, <2>1 DEF JobForm
  <2>4. QED BY <2>1, <2>2, <2>3 DEF JobForm, Job
<1>5. QED BY <1>1, <1>2, <1>3, <1>4

LEMMA NewClassify ==
  ASSUME NEW run, NEW flows, NEW known, NEW j,
         j = [NoJob EXCEPT !.op = "classify", !.run = run, !.known = known, !.flows = flows]
  PROVE  j = Job("classify", run, <<>>, flows, <<>>, known)
<1>1. JobForm(NoJob)
  BY NewJobs
<1>2. JobForm(j)
  BY <1>1 DEF JobForm
<1>3. /\ j.op = "classify" /\ j.run = run /\ j.lines = <<>> /\ j.flows = flows /\ j.todo = <<>>
      /\ j.items = <<>> /\ j.known = known /\ j.rows = {} /\ j.seen = {} /\ j.gone = {}
      /\ j.put = NoContracts
  BY <1>1 DEF JobForm, NoJob
<1>4. QED BY <1>2, <1>3 DEF JobForm, Job

\* A request begins: with nothing but its job.
LEMMA BeginStep ==
  ASSUME PipelineType, NEW s \in Sessions, NEW op \in Ops, NEW run,
         NEW lines \in Range(Batches) \cup {<<>>}, Begin(s, op, run, lines),
         op = "create" => lastId < MaxRuns,
         op # "create" => run \in 1..lastId
  PROVE  /\ at[s] = "idle" /\ job[s] = NoJob /\ UNCHANGED faults
         /\ \E place \in Place : \E j :
              /\ Works(s, place, j) /\ JobForm(j) /\ JobType(j) /\ JobFits(j, place, lastId')
              /\ \/ /\ op = "create" /\ place = "done" /\ lastId' = lastId + 1
                    /\ j = Job("create", lastId + 1, <<>>, {}, <<>>, {})
                 \/ /\ op = "ingest" /\ place = "done" /\ lastId' = lastId /\ status[run] # "none"
                    /\ j = Job("ingest", run, lines, {}, <<>>, {})
                 \/ /\ op = "classify" /\ place = "lookup" /\ lastId' = lastId /\ status[run] # "none"
                    /\ j = Job("classify", run, <<>>, Aggregate(events[run]), <<>>, Verdicts)
                 \/ /\ op = "matrix" /\ place = "existing" /\ lastId' = lastId /\ status[run] # "none"
                    /\ j = Job("matrix", run, <<>>, {}, SetToSeq(Found(run)), {})
                 \/ /\ op # "create" /\ place = "refused" /\ lastId' = lastId
                    /\ j = NoJob
<1>1. JobForm(job[s]) /\ JobAt(job[s], at[s]) /\ job = [t \in Sessions |-> job[t]] /\ lastId \in 0..MaxRuns
  BY JobsTyped
<1>2. at[s] = "idle" /\ job[s] = NoJob /\ MaxRuns \in Nat
  BY <1>1, RunAssumption DEF Begin, JobAt, JobFits
<1>3. op # "create" => run \in Runs /\ run \in 1..lastId
  BY <1>1, <1>2 DEF Runs
<1>4. /\ <<>> \in Seq(Flow) /\ <<>> \in Seq(Item) /\ IsFiniteSet({})
  BY EmptySeq, FS_EmptySet
<1>5. CASE op = "create" /\ CreateRun(s)
  <2> DEFINE j == Job("create", lastId + 1, <<>>, {}, <<>>, {})
  <2>1. j = [NoJob EXCEPT !.op = "create", !.run = lastId + 1]
    BY NewJobs
  <2>2. lastId' = lastId + 1 /\ Works(s, "done", j) /\ UNCHANGED faults
    BY <1>5, <2>1 DEF CreateRun, Work, Goto, Works
  <2>3. /\ JobForm(j) /\ j.op = "create" /\ j.run = lastId + 1 /\ j.lines = <<>> /\ j.flows = {}
        /\ j.items = <<>> /\ j.todo = <<>> /\ j.rows = {}
    BY JobOfRequest
  <2> HIDE DEF j
  <2>4. JobType(j)
    BY <1>1, <1>2, <1>4, <1>5, <2>3 DEF JobType, Ops
  <2>5. JobFits(j, "done", lastId')
    BY <1>1, <1>2, <2>2, <2>3 DEF JobFits
  <2>6. "done" \in Place BY DEF Place
  <2>7. QED BY <1>2, <1>5, <2>2, <2>3, <2>4, <2>5, <2>6 DEF j
<1>6. CASE op = "ingest" /\ IngestLines(s, run, lines) /\ status[run] # "none"
  <2> DEFINE j == Job("ingest", run, lines, {}, <<>>, {})
  <2>1. j = [NoJob EXCEPT !.op = "ingest", !.run = run, !.lines = lines]
    BY NewJobs
  <2>2. lastId' = lastId /\ Works(s, "done", j) /\ UNCHANGED faults
    BY <1>6, <2>1 DEF IngestLines, Work, Goto, Works, store
  <2>3. /\ JobForm(j) /\ j.op = "ingest" /\ j.run = run /\ j.lines = lines /\ j.flows = {}
        /\ j.items = <<>> /\ j.todo = <<>> /\ j.rows = {}
    BY JobOfRequest
  <2> HIDE DEF j
  <2>4. JobType(j)
    BY <1>3, <1>4, <1>6, <2>3 DEF JobType, Ops, Runs
  <2>5. JobFits(j, "done", lastId')
    BY <1>3, <1>6, <2>2, <2>3 DEF JobFits
  <2>6. "done" \in Place BY DEF Place
  <2>7. QED BY <1>2, <1>6, <2>2, <2>3, <2>4, <2>5, <2>6 DEF j
<1>7. CASE op = "classify" /\ ClassifyRun(s, run) /\ status[run] # "none"
  <2> DEFINE flows == Aggregate(events[run])
             known == Verdicts
             j     == [NoJob EXCEPT !.op = "classify", !.run = run, !.known = known, !.flows = flows]
  <2>0. j = [NoJob EXCEPT !.op = "classify", !.run = run, !.known = known, !.flows = flows]
    OBVIOUS
  <2>2. lastId' = lastId /\ Works(s, "lookup", j) /\ UNCHANGED faults
    BY <1>7 DEF ClassifyRun, Work, Goto, Works, store
  <2>1. j = Job("classify", run, <<>>, flows, <<>>, known)
    <3> HIDE DEF flows, known, j
    <3>1. QED BY <2>0, NewClassify
  <2>3. /\ JobForm(j) /\ j.op = "classify" /\ j.run = run /\ j.lines = <<>> /\ j.flows = flows
        /\ j.items = <<>> /\ j.todo = <<>> /\ j.rows = {}
    <3> HIDE DEF flows, known, j
    <3>1. QED BY <2>1, JobOfRequest
  <2>4. flows \subseteq Flow
    BY <1>3, <1>7, AggregateType DEF PipelineType, StoreType
  <2> HIDE DEF j, flows
  <2>5. JobType(j)
    BY <1>3, <1>4, <1>7, <2>3, <2>4 DEF JobType, Ops, Runs
  <2>6. JobFits(j, "lookup", lastId')
    BY <1>3, <1>7, <2>2, <2>3 DEF JobFits
  <2>7. "lookup" \in Place BY DEF Place
  <2>8. QED BY <1>2, <1>7, <2>2, <2>3, <2>5, <2>6, <2>7, <2>1 DEF flows
<1>8. CASE op = "matrix" /\ BuildMatrix(s, run) /\ status[run] # "none"
  <2> DEFINE items == SetToSeq(Found(run))
             j     == Job("matrix", run, <<>>, {}, items, {})
  <2>1. j = [NoJob EXCEPT !.op = "matrix", !.run = run, !.items = items]
    BY NewJobs
  <2>2. lastId' = lastId /\ Works(s, "existing", j) /\ UNCHANGED faults
    BY <1>8, <2>1 DEF BuildMatrix, Work, Goto, Works, store, Found
  <2>3. /\ JobForm(j) /\ j.op = "matrix" /\ j.run = run /\ j.lines = <<>> /\ j.flows = {}
        /\ j.items = items /\ j.todo = <<>> /\ j.rows = {}
    BY JobOfRequest
  <2>4. items \in Seq(Item)
    BY FoundType
  <2> HIDE DEF j, items
  <2>5. JobType(j)
    BY <1>3, <1>4, <1>8, <2>3, <2>4 DEF JobType, Ops, Runs
  <2>6. JobFits(j, "existing", lastId')
    BY <1>3, <1>8, <2>2, <2>3 DEF JobFits
  <2>7. "existing" \in Place BY DEF Place
  <2>8. QED BY <1>2, <1>8, <2>2, <2>3, <2>5, <2>6, <2>7 DEF j, items
<1>9. CASE op # "create" /\ Refuse(s)
  <2>1. lastId' = lastId /\ Works(s, "refused", NoJob) /\ UNCHANGED faults
    BY <1>9 DEF Refuse, Work, Goto, Works, store
  <2>2. JobForm(NoJob) /\ JobType(NoJob) /\ JobFits(NoJob, "refused", lastId')
    BY <1>2, <1>4 DEF JobForm, JobType, JobFits, NoJob
  <2>3. "refused" \in Place BY DEF Place
  <2>4. QED BY <1>2, <1>9, <2>1, <2>2, <2>3
<1>10. QED BY <1>5, <1>6, <1>7, <1>8, <1>9 DEF Begin

LEMMA NoJobFits ==
  /\ JobForm(NoJob) /\ JobType(NoJob)
  /\ \A last : JobFits(NoJob, "idle", last) /\ JobFits(NoJob, "refused", last)
<1>1. MaxRuns \in Nat /\ <<>> \in Seq(Flow) /\ <<>> \in Seq(Item) /\ IsFiniteSet({})
  BY RunAssumption, EmptySeq, FS_EmptySet
<1>2. QED BY <1>1 DEF JobForm, JobType, JobFits, NoJob

\* The session that rolls back is as it was before its request.
LEMMA FailsStep ==
  ASSUME PipelineType, NEW s \in Sessions, Fails(s)
  PROVE  /\ at[s] # "idle" /\ lastId' = lastId
         /\ faults' \in faults..MaxFaults /\ (at[s] = "done" => faults' = faults + 1)
         /\ Works(s, "idle", NoJob) /\ JobForm(NoJob) /\ JobType(NoJob) /\ JobFits(NoJob, "idle", lastId)
<1>1. Works(s, "idle", NoJob) /\ lastId' = lastId
  BY DEF Fails, RollsBack, Goto, Works, store
<1>2. JobForm(NoJob) /\ JobType(NoJob) /\ JobFits(NoJob, "idle", lastId)
  BY NoJobFits
<1>3. at[s] # "idle"
  <2>1. Blockers(s) # {} => at[s] \in {"upsert", "delete", "insert"}
    BY DEF Blockers
  <2>2. Deadlocked(s) => Blockers(s) # {}
    BY DEF Deadlocked
  <2>3. Refused(s) => at[s] \in {"refused", "insert"}
    BY DEF Refused
  <2>4. QED BY <2>1, <2>2, <2>3 DEF Fails
<1>4. faults' = faults \/ (faults' = faults + 1 /\ faults < MaxFaults)
  BY DEF Fails, CanFail
<1>5. faults \in 0..MaxFaults /\ MaxFaults \in Nat
  BY RunAssumption, JobsTyped
<1>6. at[s] = "done" => faults' = faults + 1
  <2>1. Blockers(s) # {} => at[s] \in {"upsert", "delete", "insert"}
    BY DEF Blockers
  <2>2. Deadlocked(s) => Blockers(s) # {}
    BY DEF Deadlocked
  <2>3. Refused(s) => at[s] \in {"refused", "insert"}
    BY DEF Refused
  <2>4. QED BY <2>1, <2>2, <2>3 DEF Fails
<1>7. QED BY <1>1, <1>2, <1>3, <1>4, <1>5, <1>6

\* What a job has of its own besides the contracts that a builder has seen.
KeepsLists(j, i) == j.flows = i.flows /\ j.todo = i.todo /\ j.items = i.items /\ j.rows = i.rows

\* What a session has done is committed; of the other sessions, those that
\* build the same matrix no longer see what this one has deleted.
LEMMA CommitStep ==
  ASSUME PipelineType, NEW s \in Sessions, Commit(s)
  PROVE  /\ PipelineType'
         /\ at[s] = "done" /\ job[s].op # "none" /\ job[s].run \in Runs
         /\ at'[s] = "idle" /\ job'[s] = NoJob
         /\ rows' = rows \cup job[s].rows /\ UNCHANGED <<lastId, faults>>
         /\ \A r \in Runs : /\ r # job[s].run => /\ status'[r] = status[r] /\ events'[r] = events[r]
                                                 /\ contracts'[r] = contracts[r] /\ basis'[r] = basis[r]
                            /\ job[s].op \notin DOMAIN Reached => status'[r] = status[r]
                            /\ job[s].op # "matrix" => contracts'[r] = contracts[r] /\ basis'[r] = basis[r]
         /\ job[s].op \in DOMAIN Reached => status'[job[s].run] = Reached[job[s].op]
         /\ events'[job[s].run] = events[job[s].run] \o ParseLines(job[s].lines)
         /\ job[s].op = "matrix" =>
              /\ contracts'[job[s].run] = Replaced(s)
              /\ basis'[job[s].run] = IF job[s].items # <<>> \/ job[s].gone # {} THEN job[s].items
                                      ELSE basis[job[s].run]
         /\ \A d \in Sessions \ {s} :
              /\ at'[d] = at[d]
              /\ KeepsRequest(job'[d], job[d]) /\ KeepsLists(job'[d], job[d])
              /\ job'[d].gone = job[d].gone /\ job'[d].put = job[d].put
              /\ job'[d].seen = IF job[d].run = job[s].run THEN job[d].seen \ job[s].gone ELSE job[d].seen
<1> DEFINE run == job[s].run
<1>1. JobForm(job[s]) /\ JobType(job[s]) /\ JobAt(job[s], at[s]) /\ job = [t \in Sessions |-> job[t]]
  BY JobsTyped
<1>2. /\ at[s] = "done" /\ UNCHANGED <<lastId, faults>> /\ rows' = rows \cup job[s].rows
      /\ at' = [at EXCEPT ![s] = "idle"]
      /\ job' = [Outdated(s, job[s].gone) EXCEPT ![s] = NoJob]
      /\ events' = [events EXCEPT ![run] = @ \o ParseLines(job[s].lines)]
  BY DEF Commit, Goto
<1>3. job[s].op # "none" /\ run \in Runs /\ MaxRuns \in Nat
  BY <1>1, <1>2, JobsTyped, RunAssumption DEF JobAt, JobFits, Runs
<1>4. /\ events[run] \in Seq(Event) /\ ParseLines(job[s].lines) \in Seq(Event)
      /\ events[run] \o ParseLines(job[s].lines) \in Seq(Event)
  <2>1. events[run] \in Seq(Event) /\ ParseLines(job[s].lines) \in Seq(Event)
    BY <1>1, <1>3, DataTypes DEF JobType, PipelineType, StoreType
  <2>2. QED BY <2>1, ConcatProperties
<1>5. /\ at' \in [Sessions -> Place] /\ at'[s] = "idle" /\ \A d \in Sessions \ {s} : at'[d] = at[d]
  BY <1>2 DEF PipelineType, JobsType, Place
<1>6. /\ job' = [d \in Sessions |-> job'[d]] /\ job'[s] = NoJob
      /\ \A d \in Sessions \ {s} :
           job'[d] = IF job[d].run = run THEN [job[d] EXCEPT !.seen = @ \ job[s].gone] ELSE job[d]
  BY <1>2 DEF Outdated, SameRun
<1>7. ASSUME NEW d \in Sessions \ {s}
      PROVE  /\ JobForm(job'[d])
             /\ KeepsRequest(job'[d], job[d]) /\ KeepsLists(job'[d], job[d])
             /\ job'[d].gone = job[d].gone /\ job'[d].put = job[d].put
             /\ job'[d].seen = IF job[d].run = run THEN job[d].seen \ job[s].gone ELSE job[d].seen
             /\ job[d].op = "none" => job'[d] = NoJob
  <2>1. JobForm(job[d]) /\ JobAt(job[d], at[d])
    BY JobsTyped
  <2> DEFINE j == job'[d]
             i == job[d]
             gone == job[s].gone
  <2>2. CASE i.run # run
    BY <1>6, <2>1, <2>2 DEF KeepsRequest, KeepsLists, JobAt, JobFits
  <2>3. CASE i.run = run
    <3>1. j = [i EXCEPT !.seen = @ \ gone] /\ JobForm(i)
      BY <1>6, <2>1, <2>3
    <3>2. i.op # "none"
      <4>1. run # 0 BY <1>3, RunAssumption DEF Runs
      <4>2. QED BY <2>1, <2>3, <4>1 DEF JobAt, JobFits, NoJob
    <3> HIDE DEF j, i, gone
    <3>3. /\ JobForm(j) /\ KeepsRequest(j, i) /\ KeepsLists(j, i)
          /\ j.gone = i.gone /\ j.put = i.put /\ j.seen = i.seen \ gone
      BY <3>1 DEF JobForm, KeepsRequest, KeepsLists
    <3>4. QED BY <2>3, <3>2, <3>3 DEF j, i, gone
  <2>4. QED BY <2>2, <2>3
<1>8. /\ status' \in [Runs -> Statuses]
      /\ job[s].op \in DOMAIN Reached => status'[run] = Reached[job[s].op]
      /\ \A r \in Runs : r # run \/ job[s].op \notin DOMAIN Reached => status'[r] = status[r]
  <2>1. status' = IF job[s].op \in DOMAIN Reached THEN [status EXCEPT ![run] = Reached[job[s].op]] ELSE status
    BY DEF Commit
  <2>2. status \in [Runs -> Statuses]
    BY DEF PipelineType, StoreType
  <2>3. job[s].op \in DOMAIN Reached => Reached[job[s].op] \in Statuses
    BY DEF Reached, Statuses
  <2>4. QED BY <1>3, <2>1, <2>2, <2>3
<1>9. /\ events' \in [Runs -> Seq(Event)] /\ events'[run] = events[run] \o ParseLines(job[s].lines)
      /\ \A r \in Runs : r # run => events'[r] = events[r]
  BY <1>2, <1>3, <1>4 DEF PipelineType, StoreType
<1>10. /\ contracts' = [r \in Runs |-> contracts'[r]] /\ basis' = [r \in Runs |-> basis'[r]]
       /\ \A r \in Runs : r # run \/ job[s].op # "matrix" =>
            contracts'[r] = contracts[r] /\ basis'[r] = basis[r]
       /\ job[s].op = "matrix" =>
            /\ contracts'[run] = Replaced(s)
            /\ basis'[run] = IF job[s].items # <<>> \/ job[s].gone # {} THEN job[s].items ELSE basis[run]
  <2>1. contracts = [r \in Runs |-> contracts[r]] /\ basis = [r \in Runs |-> basis[r]]
    BY DEF PipelineType, StoreType
  <2>2. CASE job[s].op = "matrix"
    <3>1. /\ contracts' = [contracts EXCEPT ![run] = Replaced(s)]
          /\ basis' = [basis EXCEPT ![run] = IF job[s].items # <<>> \/ job[s].gone # {} THEN job[s].items ELSE @]
      BY <2>2 DEF Commit
    <3>2. QED BY <1>3, <2>1, <2>2, <3>1
  <2>3. CASE job[s].op # "matrix"
    BY <2>1, <2>3 DEF Commit
  <2>4. QED BY <2>2, <2>3
<1>11. rows' \subseteq Row /\ IsFiniteSet(rows')
  BY <1>1, <1>2, FS_Union DEF JobType, PipelineType, StoreType
<1>12. StoreType'
  BY <1>2, <1>8, <1>9, <1>10, <1>11 DEF PipelineType, StoreType
<1>13. ASSUME NEW d \in Sessions
       PROVE  JobForm(job'[d]) /\ JobType(job'[d]) /\ JobAt(job'[d], at'[d]) /\ lastId' = lastId
  <2>1. CASE d = s
    <3>1. job'[d] = NoJob /\ at'[d] = "idle"
      BY <1>5, <1>6, <2>1
    <3>2. QED BY <1>2, <3>1, NoJobFits DEF JobAt
  <2>2. CASE d # s
    <3>1. JobForm(job[d]) /\ JobType(job[d]) /\ JobAt(job[d], at[d])
      BY JobsTyped
    <3>2. JobType(job'[d])
      BY <1>7, <2>2, <3>1 DEF JobType, KeepsRequest, KeepsLists
    <3>3. JobAt(job'[d], at'[d])
      BY <1>5, <1>7, <2>2, <3>1 DEF JobAt, JobFits, KeepsRequest, KeepsLists
    <3>4. QED BY <1>2, <1>7, <2>2, <3>2, <3>3
  <2>3. QED BY <2>1, <2>2
<1>14. \A d \in Sessions : JobForm(job[d])' /\ JobType(job[d])' /\ JobAt(job[d], at[d])'
  BY <1>13 DEF JobForm, JobType, JobAt
<1>15. PipelineType'
  BY <1>5, <1>6, <1>12, <1>14 DEF PipelineType, JobsType
<1>16. QED BY <1>2, <1>3, <1>5, <1>6, <1>7, <1>8, <1>9, <1>10, <1>15

\* An older row is of the same flow and the same category.
LEMMA OlderRow ==
  ASSUME NEW row \in Row
  PROVE  /\ Older(row) \in Row
         /\ Older(row).run = row.run /\ Older(row).key = row.key
         /\ Older(row).hits = row.hits /\ Older(row).category = row.category
         /\ Older(row).age = IF row.age <= Window THEN row.age + 1 ELSE row.age
<1>1. /\ row \in [run : Runs, key : Key, hits : Nat, category : Categories, age : 0..(Window + 1)]
      /\ Window \in Nat
  BY DataTypes, RunAssumption
<1>2. Older(row) = [row EXCEPT !.age = IF row.age <= Window THEN row.age + 1 ELSE row.age]
  BY <1>1 DEF Older, Fresh
<1> DEFINE age == IF row.age <= Window THEN row.age + 1 ELSE row.age
<1>3. age \in 0..(Window + 1)
  BY <1>1
<1> HIDE DEF age
<1>4. Older(row) = [row EXCEPT !.age = age]
  BY <1>2 DEF age
<1>5. QED BY <1>1, <1>3, <1>4, DataTypes DEF age

LEMMA OlderRows ==
  ASSUME NEW S, S \subseteq Row, IsFiniteSet(S)
  PROVE  {Older(row) : row \in S} \subseteq Row /\ IsFiniteSet({Older(row) : row \in S})
<1> DEFINE T == {Older(row) : row \in S}
           f == [row \in S |-> Older(row)]
<1>1. f \in Surjection(S, T)
  BY DEF Surjection
<1>2. IsFiniteSet(T)
  <2> HIDE DEF f, T
  <2>1. QED BY <1>1, FS_Surjection
<1>3. QED BY <1>2, OlderRow

LEMMA TickStep ==
  ASSUME PipelineType, Tick
  PROVE  /\ PipelineType' /\ UNCHANGED <<status, lastId, events, contracts, basis, at, faults>>
         /\ rows' = {Older(row) : row \in rows}
         /\ \A d \in Sessions :
              /\ KeepsRequest(job'[d], job[d]) /\ KeepsMatrix(job'[d], job[d])
              /\ job'[d].flows = job[d].flows /\ job'[d].todo = job[d].todo
              /\ job'[d].items = job[d].items
              /\ job'[d].rows = {Older(row) : row \in job[d].rows}
<1>1. /\ UNCHANGED <<status, lastId, events, contracts, basis, at, faults>>
      /\ rows' = {Older(row) : row \in rows}
      /\ job' = [d \in Sessions |-> [job[d] EXCEPT !.rows = {Older(row) : row \in @}]]
  BY DEF Tick
<1>2. ASSUME NEW d \in Sessions
      PROVE  /\ JobForm(job'[d]) /\ JobType(job'[d]) /\ JobAt(job'[d], at[d])
             /\ KeepsRequest(job'[d], job[d]) /\ KeepsMatrix(job'[d], job[d])
             /\ job'[d].flows = job[d].flows /\ job'[d].todo = job[d].todo
             /\ job'[d].items = job[d].items
             /\ job'[d].rows = {Older(row) : row \in job[d].rows}
  <2> DEFINE i == job[d]
             j == job'[d]
             older == {Older(row) : row \in i.rows}
  <2>1. JobForm(i) /\ JobType(i) /\ JobAt(i, at[d])
    BY JobsTyped
  <2>2. j = [i EXCEPT !.rows = older]
    BY <1>1
  <2>3. older \subseteq Row /\ IsFiniteSet(older)
    BY <2>1, OlderRows DEF JobType
  <2>4. i = NoJob => older = {}
    BY DEF NoJob
  <2> HIDE DEF i, j, older
  <2>5. /\ JobForm(j) /\ KeepsRequest(j, i) /\ KeepsMatrix(j, i) /\ j.flows = i.flows
        /\ j.todo = i.todo /\ j.items = i.items /\ j.rows = older
    BY <2>1, <2>2 DEF JobForm, KeepsRequest, KeepsMatrix
  <2>6. JobType(j)
    BY <2>1, <2>3, <2>5 DEF JobType, KeepsRequest
  <2>7. i = NoJob => j = NoJob
    <3>1. SUFFICES ASSUME i = NoJob PROVE j = NoJob
      OBVIOUS
    <3>2. j.rows = i.rows
      BY <2>4, <2>5, <3>1 DEF NoJob
    <3>3. QED BY <2>1, <2>5, <3>1, <3>2 DEF JobForm, KeepsRequest, KeepsMatrix
  <2>8. JobAt(j, at[d])
    BY <2>1, <2>5, <2>7 DEF JobAt, JobFits, KeepsRequest
  <2>9. QED BY <2>5, <2>6, <2>8 DEF i, j, older
<1>3. \A d \in Sessions : JobForm(job[d])' /\ JobType(job[d])' /\ JobAt(job[d], at[d])'
  BY <1>1, <1>2 DEF JobForm, JobType, JobAt
<1>4. JobsType'
  BY <1>1, <1>3 DEF JobsType, PipelineType
<1>5. rows' \subseteq Row /\ IsFiniteSet(rows')
  BY <1>1, OlderRows DEF PipelineType, StoreType
<1>6. StoreType'
  BY <1>1, <1>5 DEF StoreType, PipelineType
<1>7. QED BY <1>1, <1>2, <1>4, <1>6 DEF PipelineType

-----------------------------------------------------------------------------
(* What the clients do                                                      *)

Begun == [script : 0..MaxScripts, create : 0..MaxRuns, ingest : 0..MaxIngests]

ClientType ==
  /\ script \in [Clients -> Seq(Ops)]
  /\ target \in [Clients -> 0..MaxRuns]
  /\ call \in [Clients -> Sessions \cup {"none"}]
  /\ page \in [Pages -> [active : 0..MaxRuns, matrix : 0..MaxRuns]]
  /\ begun \in Begun

CreateFirst(steps) == \A n \in DOMAIN steps : steps[n] = "create" => n = 1

\* A client that waits has a session at work on the first request of its script;
\* one that does not, but has something to send, has a run.
ClientFits(c) ==
  /\ CreateFirst(script[c])
  /\ "ingest" \in Range(script[c]) => begun.ingest >= 1
  /\ Waiting(c) => /\ script[c] # <<>> /\ at[call[c]] # "idle"
                   /\ at[call[c]] = "refused" \/ job[call[c]].op = Head(script[c])
  /\ script[c] # <<>> /\ ~ Waiting(c) => Head(script[c]) # "create" /\ target[c] \in 1..lastId

ClientsFit ==
  /\ lastId <= begun.create
  /\ \A c \in Pages : page[c].active <= lastId
  /\ \A c \in Clients : ClientFits(c)

TypeInv == PipelineType /\ ClientType /\ ClientsFit

\* A request goes out, the first of a script.
Sends(c, s, steps, run, lines) ==
  /\ Begin(s, Head(steps), run, lines)
  /\ script' = [script EXCEPT ![c] = steps] /\ target' = [target EXCEPT ![c] = run]
  /\ call' = [call EXCEPT ![c] = s] /\ UNCHANGED page
  /\ begun' \in Begun /\ begun'.create >= begun.create /\ begun'.ingest >= begun.ingest
  /\ Head(steps) = "create" => begun'.create > begun.create
  /\ "ingest" \in Range(steps) => begun'.ingest >= 1

Script(steps) == steps \in Seq(Ops) /\ steps # <<>> /\ CreateFirst(steps)

LEMMA HeadOfScript ==
  ASSUME NEW steps, Script(steps)
  PROVE  /\ Head(steps) \in Ops /\ Head(steps) \in Range(steps)
         /\ Tail(steps) \in Seq(Ops) /\ Range(Tail(steps)) \subseteq Range(steps)
         /\ Len(steps) = 1 <=> Tail(steps) = <<>>
         /\ \A n \in DOMAIN Tail(steps) : Tail(steps)[n] # "create"
<1>1. steps \in Seq(Ops) /\ steps # <<>> /\ Len(steps) \in Nat \ {0}
  BY EmptySeq DEF Script
<1>2. /\ Head(steps) \in Ops /\ Tail(steps) \in Seq(Ops) /\ Len(Tail(steps)) = Len(steps) - 1
      /\ \A n \in 1..Len(Tail(steps)) : Tail(steps)[n] = steps[n + 1]
      /\ Head(steps) = steps[1]
  BY <1>1, HeadTailProperties
<1>3. Len(steps) = 1 <=> Tail(steps) = <<>>
  <2> DEFINE rest == Tail(steps)
  <2>1. rest \in Seq(Ops) /\ Len(rest) = Len(steps) - 1
    BY <1>2
  <2> HIDE DEF rest
  <2>2. rest = <<>> <=> Len(rest) = 0
    BY <2>1, EmptySeq
  <2>3. QED BY <1>1, <2>1, <2>2 DEF rest
<1>4. \A n \in DOMAIN Tail(steps) : n + 1 \in DOMAIN steps /\ n + 1 # 1 /\ Tail(steps)[n] = steps[n + 1]
  BY <1>1, <1>2
<1>5. QED BY <1>1, <1>2, <1>3, <1>4 DEF Script, CreateFirst, Range

LEMMA StartSends ==
  ASSUME TypeInv, NEW c \in Clients, NEW steps, NEW run, Script(steps),
         Head(steps) # "create" => run \in 1..lastId, Start(c, steps, run)
  PROVE  /\ Head(steps) = "create" => lastId < MaxRuns
         /\ \E s \in Sessions : \E lines \in Range(Batches) \cup {<<>>} : Sends(c, s, steps, run, lines)
<1>1. /\ begun \in Begun /\ lastId \in Nat /\ lastId <= begun.create
      /\ MaxRuns \in Nat /\ MaxScripts \in Nat /\ MaxIngests \in Nat
  BY RunAssumption, ClientAssumption DEF TypeInv, ClientType, ClientsFit, PipelineType, StoreType
<1>2. DOMAIN Bound = {"script", "create", "ingest"}
  BY DEF Bound
<1>3. /\ \A op \in DOMAIN Bound : begun[op] \in 0..Bound[op]
      /\ Bound.script = MaxScripts /\ Bound.create = MaxRuns /\ Bound.ingest = MaxIngests
  BY <1>1 DEF Bound, Begun
<1>4. /\ \A op \in Counts(steps) : begun[op] < Bound[op]
      /\ begun' = [op \in DOMAIN Bound |-> IF op \in Counts(steps) THEN begun[op] + 1 ELSE begun[op]]
  BY DEF Start
<1>5. \A op \in DOMAIN Bound : /\ begun'[op] \in 0..Bound[op] /\ begun'[op] >= begun[op]
                               /\ op \in Range(steps) => begun'[op] > begun[op] /\ begun[op] < Bound[op]
  <2>1. \A op \in DOMAIN Bound : Bound[op] \in Nat /\ (op \in Range(steps) => op \in Counts(steps))
    BY <1>1, <1>2, <1>3 DEF Counts
  <2>2. QED BY <1>3, <1>4, <2>1
<1>6. begun' \in Begun
  <2>1. begun' = [script |-> begun'["script"], create |-> begun'["create"], ingest |-> begun'["ingest"]]
    BY <1>2, <1>4
  <2>2. QED BY <1>2, <1>3, <1>5, <2>1 DEF Begun
<1>7. Head(steps) \in Range(steps)
  BY HeadOfScript
<1>8. PICK s \in Sessions :
        /\ Begin(s, Head(steps), run, IF Head(steps) = "ingest" THEN Batches[begun'["ingest"]] ELSE <<>>)
        /\ call' = [call EXCEPT ![c] = s]
  BY DEF Start, SendNext, IdleSessions
<1> DEFINE lines == IF Head(steps) = "ingest" THEN Batches[begun'["ingest"]] ELSE <<>>
<1>9. lines \in Range(Batches) \cup {<<>>}
  <2>1. "ingest" \in Range(steps) => begun'["ingest"] \in 1..MaxIngests
    BY <1>2, <1>3, <1>5, <1>6 DEF Begun
  <2>2. Batches \in Seq(Range(Batches)) /\ Len(Batches) >= MaxIngests
    BY ClientAssumption
  <2>3. \A n \in 1..MaxIngests : Batches[n] \in Range(Batches)
    BY <1>1, <2>2
  <2>4. QED BY <1>7, <2>1, <2>3
<1>10. Sends(c, s, steps, run, lines)
  BY <1>1, <1>2, <1>5, <1>6, <1>7, <1>8 DEF Start, Sends, Begun
<1>11. Head(steps) = "create" => lastId < MaxRuns
  BY <1>1, <1>2, <1>3, <1>5, <1>7 DEF Begun
<1>12. QED BY <1>9, <1>10, <1>11

LEMMA SendSends ==
  ASSUME TypeInv, NEW c \in Clients, Send(c)
  PROVE  /\ Script(script[c]) /\ Head(script[c]) # "create" /\ target[c] \in 1..lastId
         /\ \E s \in Sessions : \E lines \in Range(Batches) \cup {<<>>} :
              Sends(c, s, script[c], target[c], lines)
<1> DEFINE steps == script[c]
<1>1. /\ Script(steps) /\ Head(steps) # "create" /\ target[c] \in 1..lastId
      /\ "ingest" \in Range(steps) => begun.ingest >= 1
      /\ UNCHANGED <<script, target, page, begun>>
  BY DEF Send, TypeInv, ClientsFit, ClientFits, ClientType, Script
<1>2. PICK s \in Sessions :
        /\ Begin(s, Head(steps), target[c], IF Head(steps) = "ingest" THEN Batches[begun'["ingest"]] ELSE <<>>)
        /\ call' = [call EXCEPT ![c] = s]
  BY DEF Send, SendNext, IdleSessions
<1> DEFINE lines == IF Head(steps) = "ingest" THEN Batches[begun'["ingest"]] ELSE <<>>
<1>3. begun \in Begun /\ MaxIngests \in Nat
  BY ClientAssumption DEF TypeInv, ClientType
<1>4. lines \in Range(Batches) \cup {<<>>}
  <2>1. Head(steps) \in Range(steps)
    BY <1>1, HeadOfScript
  <2>2. "ingest" \in Range(steps) => begun'["ingest"] \in 1..MaxIngests
    BY <1>1, <1>3 DEF Begun
  <2>3. Batches \in Seq(Range(Batches)) /\ Len(Batches) >= MaxIngests
    BY ClientAssumption
  <2>4. \A n \in 1..MaxIngests : Batches[n] \in Range(Batches)
    BY <1>3, <2>3
  <2>5. QED BY <2>1, <2>2, <2>4
<1>5. /\ script = [script EXCEPT ![c] = steps] /\ target = [target EXCEPT ![c] = target[c]]
  BY DEF TypeInv, ClientType
<1>6. begun.create \in Nat /\ begun.ingest \in Nat
  BY <1>3 DEF Begun
<1>7. Sends(c, s, steps, target[c], lines)
  BY <1>1, <1>2, <1>3, <1>5, <1>6 DEF Sends
<1>8. QED BY <1>1, <1>4, <1>7

-----------------------------------------------------------------------------
(* Types                                                                    *)

\* A client sends a request that the server can begin.
Requests(c, s, steps, run, lines) ==
  /\ Script(steps) /\ Sends(c, s, steps, run, lines)
  /\ run \in 0..MaxRuns /\ lines \in Range(Batches) \cup {<<>>}
  /\ IF Head(steps) = "create" THEN lastId < MaxRuns ELSE run \in 1..lastId

Statements(s) ==
  Lookup(s) \/ Ask(s) \/ Upsert(s) \/ ReadExisting(s) \/ DeleteSeen(s) \/ InsertContract(s)

LEMMA NextCases ==
  ASSUME TypeInv, [Next]_vars
  PROVE  \/ \E c \in Clients : \E s \in Sessions : \E steps, run, lines : Requests(c, s, steps, run, lines)
         \/ \E s \in Sessions : Statements(s) /\ UNCHANGED clientVars
         \/ \E s \in Sessions : Complete(s) \/ AnswerFirst(s) \/ Break(s)
         \/ \E c \in Clients : TimeOut(c)
         \/ Tick
         \/ UNCHANGED vars
<1>1. /\ lastId \in 0..MaxRuns /\ MaxRuns \in Nat
      /\ \A c \in Pages : page[c].active \in 0..lastId
  <2>1. lastId \in 0..MaxRuns /\ MaxRuns \in Nat
    BY RunAssumption DEF TypeInv, PipelineType, StoreType
  <2>2. \A c \in Pages : page[c].active \in 0..MaxRuns /\ page[c].active <= lastId
    BY DEF TypeInv, ClientType, ClientsFit
  <2>3. QED BY <2>1, <2>2
<1>2. ASSUME NEW c \in Clients, NEW steps, NEW run \in 0..lastId, Script(steps),
             Head(steps) # "create" => run \in 1..lastId, Start(c, steps, run)
      PROVE  \E s \in Sessions : \E lines : Requests(c, s, steps, run, lines)
  BY <1>1, <1>2, StartSends DEF Requests
<1>3. ASSUME NEW c \in Pages, Press(c)
      PROVE  \E d \in Clients : \E s \in Sessions : \E steps, run, lines : Requests(d, s, steps, run, lines)
  <2>1. c \in Clients BY DEF Clients
  <2>2. /\ Script(<<"create", "ingest">>) /\ Head(<<"create", "ingest">>) = "create"
        /\ Script(<<"classify">>) /\ Script(<<"matrix">>)
    BY DEF Script, CreateFirst, Ops
  <2>3. CASE Start(c, <<"create", "ingest">>, 0)
    BY <1>1, <1>2, <2>1, <2>2, <2>3
  <2>4. CASE page[c].active # 0 /\ Start(c, <<"classify">>, page[c].active)
    BY <1>1, <1>2, <2>1, <2>2, <2>4
  <2>5. CASE page[c].active # 0 /\ Start(c, <<"matrix">>, page[c].active)
    BY <1>1, <1>2, <2>1, <2>2, <2>5
  <2>6. QED BY <1>3, <2>3, <2>4, <2>5 DEF Press
<1>4. ASSUME NEW c \in Commands, Call(c)
      PROVE  \E d \in Clients : \E s \in Sessions : \E steps, run, lines : Requests(d, s, steps, run, lines)
  <2>1. c \in Clients BY DEF Clients
  <2>2. PICK steps \in Scripts :
          IF Head(steps) = "create" THEN Start(c, steps, 0)
          ELSE \E r \in 1..lastId : Start(c, steps, r)
    BY <1>4 DEF Call
  <2>3. Script(steps)
    BY ClientAssumption DEF Script, CreateFirst
  <2>4. CASE Head(steps) = "create"
    BY <1>1, <1>2, <2>1, <2>2, <2>3, <2>4
  <2>5. CASE Head(steps) # "create"
    <3>1. PICK r \in 1..lastId : Start(c, steps, r)
      BY <2>2, <2>5
    <3>2. QED BY <1>1, <1>2, <2>1, <2>3, <3>1
  <2>6. QED BY <2>4, <2>5
<1>5. ASSUME NEW c \in Clients, Send(c)
      PROVE  \E s \in Sessions : \E steps, run, lines : Requests(c, s, steps, run, lines)
  <2>1. /\ Script(script[c]) /\ Head(script[c]) # "create" /\ target[c] \in 1..lastId
        /\ \E s \in Sessions : \E lines \in Range(Batches) \cup {<<>>} :
             Sends(c, s, script[c], target[c], lines)
    BY <1>5, SendSends
  <2>2. target[c] \in 0..MaxRuns
    BY DEF TypeInv, ClientType
  <2>3. QED BY <2>1, <2>2 DEF Requests
<1>6. QED BY <1>3, <1>4, <1>5 DEF Next, Statement, Statements

\* A statement of a request takes its session on.
LEMMA StatementMoves ==
  ASSUME PipelineType, NEW s \in Sessions, Statements(s)
  PROVE  /\ at[s] \notin {"idle", "refused", "done"} /\ UNCHANGED <<lastId, faults>>
         /\ \E place \in Place \ {"idle", "refused"} : \E j :
              /\ Works(s, place, j) /\ JobForm(j) /\ JobType(j) /\ JobFits(j, place, lastId')
              /\ j.op = job[s].op /\ j.run = job[s].run
<1>1. CASE Lookup(s)
  BY <1>1, LookupStep DEF JobAt, Place, KeepsRequest
<1>2. CASE Ask(s)
  BY <1>2, AskStep DEF JobAt, Place, KeepsRequest
<1>3. CASE Upsert(s)
  BY <1>3, UpsertStep DEF JobAt, Place, KeepsRequest
<1>4. JobForm(job[s])
  BY JobsTyped
<1>5. CASE ReadExisting(s)
  <2>1. PICK j : /\ Works(s, "delete", j) /\ JobForm(j) /\ JobType(j) /\ JobAt(j, "delete")
                 /\ j = [job[s] EXCEPT !.seen = DOMAIN contracts[job[s].run]]
    BY <1>5, ReadExistingStep
  <2>2. j.op = job[s].op /\ j.run = job[s].run
    BY <1>4, <2>1 DEF JobForm
  <2>3. QED BY <1>5, <2>1, <2>2, ReadExistingStep DEF JobAt, Place
<1>6. CASE DeleteSeen(s)
  <2>1. PICK place \in {"insert", "done"} : \E j :
               /\ Works(s, place, j) /\ JobForm(j) /\ JobType(j) /\ JobAt(j, place)
               /\ j = [job[s] EXCEPT !.gone = job[s].seen]
    BY <1>6, DeleteSeenStep
  <2>2. PICK j : /\ Works(s, place, j) /\ JobForm(j) /\ JobType(j) /\ JobAt(j, place)
                 /\ j = [job[s] EXCEPT !.gone = job[s].seen]
    BY <2>1
  <2>3. j.op = job[s].op /\ j.run = job[s].run
    BY <1>4, <2>2 DEF JobForm
  <2>4. at[s] = "delete" /\ UNCHANGED <<lastId, faults>>
    BY <1>6, DeleteSeenStep
  <2>5. place \in Place \ {"idle", "refused"} /\ JobFits(j, place, lastId')
    BY <2>2, <2>4 DEF JobAt, Place
  <2>6. QED BY <2>2, <2>3, <2>4, <2>5
<1>7. CASE InsertContract(s)
  <2>1. PICK place \in {"insert", "done"} : \E j :
               /\ Works(s, place, j) /\ JobForm(j) /\ JobType(j) /\ JobAt(j, place)
               /\ j = [job[s] EXCEPT !.put = [p \in DOMAIN @ \cup {NextPair(s)} |-> Wanted(s)[p]]]
    BY <1>7, InsertContractStep
  <2>2. PICK j : /\ Works(s, place, j) /\ JobForm(j) /\ JobType(j) /\ JobAt(j, place)
                 /\ j = [job[s] EXCEPT !.put = [p \in DOMAIN @ \cup {NextPair(s)} |-> Wanted(s)[p]]]
    BY <2>1
  <2>3. j.op = job[s].op /\ j.run = job[s].run
    BY <1>4, <2>2 DEF JobForm
  <2>4. at[s] = "insert" /\ UNCHANGED <<lastId, faults>>
    BY <1>7, InsertContractStep
  <2>5. place \in Place \ {"idle", "refused"} /\ JobFits(j, place, lastId')
    BY <2>2, <2>4 DEF JobAt, Place
  <2>6. QED BY <2>2, <2>3, <2>4, <2>5
<1>8. QED BY <1>1, <1>2, <1>3, <1>5, <1>6, <1>7 DEF Statements

\* A client that is not concerned is as it was.
LEMMA FitsStill ==
  ASSUME NEW d, ClientFits(d), lastId \in Nat, lastId' \in Nat, lastId' >= lastId,
         begun.ingest \in Nat, begun'.ingest \in Nat, begun'.ingest >= begun.ingest,
         script'[d] = script[d], target'[d] = target[d], call'[d] = call[d],
         target[d] \in Nat,
         Waiting(d) => /\ at'[call[d]] # "idle"
                       /\ \/ at'[call[d]] = "refused"
                          \/ at[call[d]] # "refused" /\ job'[call[d]].op = job[call[d]].op
  PROVE  ClientFits(d)'
<1>1. Waiting(d)' <=> Waiting(d)
  BY DEF Waiting
<1>2. QED BY <1>1 DEF ClientFits, Waiting, CreateFirst

LEMMA CountsTyped ==
  ASSUME TypeInv
  PROVE  /\ lastId \in Nat /\ begun.ingest \in Nat /\ begun.create \in Nat
         /\ MaxRuns \in Nat /\ MaxFaults \in Nat /\ faults \in Nat
         /\ \A c \in Clients : target[c] \in Nat
<1>1. MaxRuns \in Nat /\ MaxFaults \in Nat /\ {MaxScripts, MaxIngests} \subseteq Nat
  BY RunAssumption, ClientAssumption
<1>2. QED BY <1>1 DEF TypeInv, PipelineType, StoreType, ClientType, Begun

LEMMA RequestTyped ==
  ASSUME TypeInv, NEW c \in Clients, NEW s \in Sessions, NEW steps, NEW run, NEW lines,
         Requests(c, s, steps, run, lines)
  PROVE  TypeInv'
<1> DEFINE op == Head(steps)
<1>1. /\ Script(steps) /\ run \in 0..MaxRuns /\ lines \in Range(Batches) \cup {<<>>}
      /\ op \in Ops /\ (op = "create" => lastId < MaxRuns) /\ (op # "create" => run \in 1..lastId)
      /\ Begin(s, op, run, lines) /\ PipelineType
  BY HeadOfScript DEF Requests, Sends, TypeInv
<1>2. /\ at[s] = "idle" /\ job[s] = NoJob /\ UNCHANGED faults
      /\ \E place \in Place : \E j :
           /\ Works(s, place, j) /\ JobForm(j) /\ JobType(j) /\ JobFits(j, place, lastId')
           /\ lastId' = IF op = "create" THEN lastId + 1 ELSE lastId
           /\ place # "idle" /\ (place = "refused" \/ j.op = op)
  <2> HIDE DEF op
  <2>1. \A r, l, f, i, k : Job(op, r, l, f, i, k).op = op
    BY DEF Job
  <2>2. PICK place \in Place : \E j :
              /\ Works(s, place, j) /\ JobForm(j) /\ JobType(j) /\ JobFits(j, place, lastId')
              /\ \/ /\ op = "create" /\ place = "done" /\ lastId' = lastId + 1
                    /\ j = Job("create", lastId + 1, <<>>, {}, <<>>, {})
                 \/ /\ op = "ingest" /\ place = "done" /\ lastId' = lastId /\ status[run] # "none"
                    /\ j = Job("ingest", run, lines, {}, <<>>, {})
                 \/ /\ op = "classify" /\ place = "lookup" /\ lastId' = lastId /\ status[run] # "none"
                    /\ j = Job("classify", run, <<>>, Aggregate(events[run]), <<>>, Verdicts)
                 \/ /\ op = "matrix" /\ place = "existing" /\ lastId' = lastId /\ status[run] # "none"
                    /\ j = Job("matrix", run, <<>>, {}, SetToSeq(Found(run)), {})
                 \/ /\ op # "create" /\ place = "refused" /\ lastId' = lastId
                    /\ j = NoJob
    BY <1>1, BeginStep
  <2>3. at[s] = "idle" /\ job[s] = NoJob /\ UNCHANGED faults
    BY <1>1, BeginStep
  <2>4. QED BY <2>1, <2>2, <2>3
<1>3. PICK place \in Place : \E j :
           /\ Works(s, place, j) /\ JobForm(j) /\ JobType(j) /\ JobFits(j, place, lastId')
           /\ lastId' = IF op = "create" THEN lastId + 1 ELSE lastId
           /\ place # "idle" /\ (place = "refused" \/ j.op = op)
  BY <1>2
<1>4. PICK j :
           /\ Works(s, place, j) /\ JobForm(j) /\ JobType(j) /\ JobFits(j, place, lastId')
           /\ lastId' = IF op = "create" THEN lastId + 1 ELSE lastId
           /\ place # "idle" /\ (place = "refused" \/ j.op = op)
  BY <1>3
<1>5. lastId \in Nat /\ MaxRuns \in Nat /\ lastId <= MaxRuns /\ faults' \in 0..MaxFaults
  BY <1>2, RunAssumption DEF TypeInv, PipelineType, StoreType
<1>6. lastId' \in lastId..MaxRuns /\ lastId' \in Nat /\ lastId' >= lastId
  BY <1>1, <1>4, <1>5
<1>7. /\ PipelineType' /\ at'[s] = place /\ job'[s] = j
      /\ \A t \in Sessions \ {s} : at'[t] = at[t] /\ job'[t] = job[t]
  BY <1>1, <1>4, <1>5, <1>6, WorksType
<1>8. /\ script' = [script EXCEPT ![c] = steps] /\ target' = [target EXCEPT ![c] = run]
      /\ call' = [call EXCEPT ![c] = s] /\ UNCHANGED page
      /\ begun' \in Begun /\ begun'.create >= begun.create /\ begun'.ingest >= begun.ingest
      /\ op = "create" => begun'.create > begun.create
      /\ "ingest" \in Range(steps) => begun'.ingest >= 1
  BY DEF Requests, Sends
<1>9. /\ script' \in [Clients -> Seq(Ops)] /\ target' \in [Clients -> 0..MaxRuns]
      /\ call' \in [Clients -> Sessions \cup {"none"}]
      /\ script'[c] = steps /\ target'[c] = run /\ call'[c] = s
      /\ \A d \in Clients \ {c} : script'[d] = script[d] /\ target'[d] = target[d] /\ call'[d] = call[d]
  BY <1>1, <1>8 DEF TypeInv, ClientType, Script
<1>10. ClientType'
  BY <1>8, <1>9 DEF TypeInv, ClientType
<1>11. ClientFits(c)'
  <2>1. s # "none" BY RunAssumption
  <2>2. QED BY <1>1, <1>4, <1>7, <1>8, <1>9, <2>1 DEF ClientFits, Waiting, Script
<1>12. ASSUME NEW d \in Clients \ {c} PROVE ClientFits(d)'
  <2>1. ClientFits(d) /\ begun.ingest \in Nat /\ begun'.ingest \in Nat /\ target[d] \in Nat
    BY <1>8, ClientAssumption, CountsTyped DEF TypeInv, ClientsFit, Begun
  <2>2. Waiting(d) => call[d] \in Sessions \ {s}
    BY <1>2, <2>1 DEF ClientFits, Waiting, TypeInv, ClientType
  <2>3. QED BY <1>5, <1>6, <1>7, <1>8, <1>9, <2>1, <2>2, FitsStill DEF ClientFits
<1>13. ClientsFit'
  <2>1. \A d \in Clients : ClientFits(d)'
    BY <1>11, <1>12
  <2>2. lastId' <= begun'.create
    BY <1>4, <1>5, <1>8, ClientAssumption, CountsTyped DEF TypeInv, ClientsFit, Begun
  <2>3. \A d \in Pages : page'[d].active <= lastId'
    BY <1>5, <1>6, <1>8 DEF TypeInv, ClientsFit, ClientType
  <2>4. QED BY <2>1, <2>2, <2>3 DEF ClientsFit
<1>14. QED BY <1>7, <1>10, <1>13 DEF TypeInv

LEMMA StatementTyped ==
  ASSUME TypeInv, NEW s \in Sessions, Statements(s), UNCHANGED clientVars
  PROVE  TypeInv'
<1>1. at[s] \notin {"idle", "refused", "done"} /\ UNCHANGED <<lastId, faults>>
  BY StatementMoves DEF TypeInv
<1>2. PICK place \in Place \ {"idle", "refused"} : \E j :
        /\ Works(s, place, j) /\ JobForm(j) /\ JobType(j) /\ JobFits(j, place, lastId')
        /\ j.op = job[s].op /\ j.run = job[s].run
  BY StatementMoves DEF TypeInv
<1>3. PICK j :
        /\ Works(s, place, j) /\ JobForm(j) /\ JobType(j) /\ JobFits(j, place, lastId')
        /\ j.op = job[s].op /\ j.run = job[s].run
  BY <1>2
<1>4. lastId' \in lastId..MaxRuns /\ faults' \in 0..MaxFaults
  BY <1>1, CountsTyped DEF TypeInv, PipelineType, StoreType
<1>5. /\ PipelineType' /\ at'[s] = place /\ job'[s] = j
      /\ \A t \in Sessions \ {s} : at'[t] = at[t] /\ job'[t] = job[t]
  BY <1>3, <1>4, WorksType DEF TypeInv
<1>6. UNCHANGED <<script, target, call, page, begun, lastId>>
  BY <1>1 DEF clientVars
<1>7. ASSUME NEW d \in Clients PROVE ClientFits(d)'
  <2>1. ClientFits(d)
    BY DEF TypeInv, ClientsFit
  <2>2. Waiting(d) => call[d] \in Sessions
    BY DEF TypeInv, ClientType, Waiting
  <2>3. Waiting(d) => /\ at'[call[d]] # "idle"
                      /\ \/ at'[call[d]] = "refused"
                         \/ at[call[d]] # "refused" /\ job'[call[d]].op = job[call[d]].op
    BY <1>1, <1>3, <1>5, <2>1, <2>2 DEF ClientFits
  <2>4. QED BY <1>6, <2>1, <2>3, CountsTyped, FitsStill
<1>8. QED BY <1>5, <1>6, <1>7 DEF TypeInv, ClientType, ClientsFit

\* An answer is for those whom a session serves.
LEMMA AnsweredTyped ==
  ASSUME TypeInv, NEW s \in Sessions, at[s] = "done", Answered(s), PipelineType', lastId' = lastId,
         \A d \in Sessions \ {s} : at'[d] = at[d] /\ job'[d].op = job[d].op
  PROVE  TypeInv'
<1>1. /\ script' = [c \in Clients |-> IF c \in Callers(s) THEN Tail(script[c]) ELSE script[c]]
      /\ target' = [c \in Clients |-> IF c \notin Callers(s) THEN target[c]
                                      ELSE IF Len(script[c]) = 1 THEN 0 ELSE job[s].run]
      /\ call'   = [c \in Clients |-> IF c \in Callers(s) THEN "none" ELSE call[c]]
      /\ page'   = [c \in Pages |-> IF c \in Callers(s) THEN Kept(c, job[s].run) ELSE page[c]]
      /\ UNCHANGED begun
  BY DEF Answered
<1>2. job[s].run \in 1..lastId /\ job[s].run \in 0..MaxRuns
  BY JobsTyped DEF TypeInv, JobAt, JobFits, JobType
<1>3. \A c \in Callers(s) : /\ c \in Clients /\ Waiting(c) /\ call[c] = s /\ Script(script[c]) /\ ClientFits(c)
  BY RunAssumption DEF Callers, Waiting, TypeInv, ClientsFit, ClientFits, ClientType, Script
<1>4. \A c \in Callers(s) : /\ Tail(script[c]) \in Seq(Ops)
                            /\ Range(Tail(script[c])) \subseteq Range(script[c])
                            /\ Len(script[c]) = 1 <=> Tail(script[c]) = <<>>
                            /\ \A n \in DOMAIN Tail(script[c]) : Tail(script[c])[n] # "create"
  BY <1>3, HeadOfScript
<1>5. MaxRuns \in Nat /\ lastId \in Nat
  BY CountsTyped
<1>6. /\ script' \in [Clients -> Seq(Ops)] /\ target' \in [Clients -> 0..MaxRuns]
      /\ call' \in [Clients -> Sessions \cup {"none"}]
  BY <1>1, <1>2, <1>4, <1>5 DEF TypeInv, ClientType
<1>7. /\ page' \in [Pages -> [active : 0..MaxRuns, matrix : 0..MaxRuns]]
      /\ \A c \in Pages : page'[c].active <= lastId'
  <2>1. ASSUME NEW c \in Pages
        PROVE  page'[c] \in [active : 0..MaxRuns, matrix : 0..MaxRuns] /\ page'[c].active <= lastId'
    <3>1. page[c] \in [active : 0..MaxRuns, matrix : 0..MaxRuns] /\ page[c].active <= lastId
      BY DEF TypeInv, ClientType, ClientsFit
    <3> DEFINE run == job[s].run
    <3> HIDE DEF run
    <3>2. run \in 0..MaxRuns /\ run <= lastId
      BY <1>2, <1>5 DEF run
    <3>3. /\ Kept(c, run) \in [active : 0..MaxRuns, matrix : 0..MaxRuns]
          /\ Kept(c, run).active <= lastId
      BY <3>1, <3>2 DEF Kept
    <3>4. QED BY <1>1, <3>1, <3>3 DEF run
  <2>2. QED BY <1>1, <2>1
<1>8. ASSUME NEW c \in Clients PROVE ClientFits(c)'
  <2>1. CASE c \in Callers(s)
    <3> DEFINE rest == Tail(script[c])
    <3>1. script'[c] = rest /\ call'[c] = "none" /\ (rest # <<>> => target'[c] = job[s].run)
      BY <1>1, <1>4, <2>1
    <3>2. /\ rest \in Seq(Ops) /\ Range(rest) \subseteq Range(script[c])
          /\ \A n \in DOMAIN rest : rest[n] # "create"
      BY <1>4, <2>1
    <3>3. "ingest" \in Range(script[c]) => begun.ingest >= 1
      BY <1>3, <2>1 DEF ClientFits
    <3> HIDE DEF rest
    <3>4. rest # <<>> => Head(rest) # "create"
      <4>1. rest # <<>> => 1 \in DOMAIN rest /\ Head(rest) = rest[1]
        BY <3>2, EmptySeq
      <4>2. QED BY <3>2, <4>1
    <3>5. QED BY <1>1, <1>2, <3>1, <3>2, <3>3, <3>4 DEF ClientFits, Waiting, CreateFirst
  <2>2. CASE c \notin Callers(s)
    <3>1. script'[c] = script[c] /\ target'[c] = target[c] /\ call'[c] = call[c] /\ ClientFits(c)
      BY <1>1, <2>2 DEF TypeInv, ClientsFit
    <3>2. Waiting(c) => call[c] \in Sessions \ {s}
      BY <2>2 DEF TypeInv, ClientType, Waiting, Callers
    <3>3. Waiting(c) => /\ at'[call[c]] # "idle"
                        /\ \/ at'[call[c]] = "refused"
                           \/ at[call[c]] # "refused" /\ job'[call[c]].op = job[call[c]].op
      BY <3>1, <3>2 DEF ClientFits
    <3>4. begun' = begun /\ lastId \in Nat /\ begun.ingest \in Nat /\ target[c] \in Nat
      BY <1>1, CountsTyped
    <3>5. QED BY <3>1, <3>3, <3>4, FitsStill
  <2>3. QED BY <2>1, <2>2
<1>9. QED BY <1>1, <1>6, <1>7, <1>8 DEF TypeInv, ClientType, ClientsFit

LEMMA GiveUpTyped ==
  ASSUME TypeInv, NEW callers, GiveUp(callers), PipelineType', lastId' = lastId,
         \A c \in Clients \ callers : Waiting(c) =>
            at'[call[c]] = at[call[c]] /\ job'[call[c]].op = job[call[c]].op
  PROVE  TypeInv'
<1>1. /\ script' = [c \in Clients |-> IF c \in callers THEN <<>> ELSE script[c]]
      /\ target' = [c \in Clients |-> IF c \in callers THEN 0 ELSE target[c]]
      /\ call'   = [c \in Clients |-> IF c \in callers THEN "none" ELSE call[c]]
      /\ UNCHANGED <<page, begun>>
  BY DEF GiveUp
<1>2. <<>> \in Seq(Ops) /\ MaxRuns \in Nat /\ Range(<<>>) = {}
  BY CountsTyped, EmptySeq DEF Range
<1>3. ClientType'
  BY <1>1, <1>2 DEF TypeInv, ClientType
<1>4. ASSUME NEW c \in Clients PROVE ClientFits(c)'
  <2>1. CASE c \in callers
    BY <1>1, <1>2, <2>1 DEF ClientFits, Waiting, CreateFirst
  <2>2. CASE c \notin callers
    <3>1. script'[c] = script[c] /\ target'[c] = target[c] /\ call'[c] = call[c] /\ ClientFits(c)
      BY <1>1, <2>2 DEF TypeInv, ClientsFit
    <3>2. Waiting(c) => /\ at'[call[c]] # "idle"
                        /\ \/ at'[call[c]] = "refused"
                           \/ at[call[c]] # "refused" /\ job'[call[c]].op = job[call[c]].op
      BY <2>2, <3>1 DEF ClientFits
    <3>3. begun' = begun /\ lastId \in Nat /\ begun.ingest \in Nat /\ target[c] \in Nat
      BY <1>1, CountsTyped
    <3>4. QED BY <3>1, <3>2, <3>3, FitsStill
  <2>3. QED BY <2>1, <2>2
<1>5. QED BY <1>1, <1>3, <1>4 DEF TypeInv, ClientsFit

LEMMA CompleteTyped ==
  ASSUME TypeInv, NEW s \in Sessions, Complete(s)
  PROVE  TypeInv'
<1>1. Commit(s) /\ Answered(s) /\ PipelineType
  BY DEF Complete, TypeInv
<1>2. PipelineType' /\ at[s] = "done" /\ UNCHANGED lastId
  BY <1>1, CommitStep
<1>3. \A d \in Sessions \ {s} : at'[d] = at[d] /\ job'[d].op = job[d].op
  BY <1>1, CommitStep DEF KeepsRequest
<1>4. QED BY <1>1, <1>2, <1>3, AnsweredTyped

\* What only the clients have to do with.
LEMMA PipelineRests ==
  ASSUME PipelineType, UNCHANGED <<store, at, job>>, faults' \in 0..MaxFaults
  PROVE  PipelineType'
BY DEF PipelineType, StoreType, JobsType, store, JobForm, JobType, JobAt

LEMMA AnswerFirstTyped ==
  ASSUME TypeInv, NEW s \in Sessions, AnswerFirst(s)
  PROVE  TypeInv'
<1>1. at[s] = "done" /\ Answered(s) /\ UNCHANGED <<store, at, job>> /\ CanFail("early") /\ faults' = faults + 1
  BY DEF AnswerFirst
<1>2. faults' \in 0..MaxFaults
  BY <1>1, CountsTyped DEF CanFail
<1>3. PipelineType'
  BY <1>1, <1>2, PipelineRests DEF TypeInv
<1>4. QED BY <1>1, <1>3, AnsweredTyped DEF store

LEMMA BreakTyped ==
  ASSUME TypeInv, NEW s \in Sessions, Break(s)
  PROVE  TypeInv'
<1>1. Fails(s) /\ GiveUp(Callers(s)) /\ PipelineType
  BY DEF Break, TypeInv
<1>2. /\ Works(s, "idle", NoJob) /\ JobForm(NoJob) /\ JobType(NoJob) /\ JobFits(NoJob, "idle", lastId)
      /\ lastId' = lastId /\ faults' \in faults..MaxFaults
  BY <1>1, FailsStep
<1>3. lastId' \in lastId..MaxRuns /\ faults' \in 0..MaxFaults /\ "idle" \in Place
  BY <1>2, CountsTyped DEF TypeInv, PipelineType, StoreType, Place
<1>4. PipelineType' /\ \A t \in Sessions \ {s} : at'[t] = at[t] /\ job'[t] = job[t]
  BY <1>1, <1>2, <1>3, WorksType
<1>5. \A c \in Clients \ Callers(s) : Waiting(c) => call[c] \in Sessions \ {s}
  BY DEF TypeInv, ClientType, Waiting, Callers
<1>6. QED BY <1>1, <1>2, <1>4, <1>5, GiveUpTyped

LEMMA TimeOutTyped ==
  ASSUME TypeInv, NEW c \in Clients, TimeOut(c)
  PROVE  TypeInv'
<1>1. GiveUp({c}) /\ UNCHANGED <<store, at, job>> /\ CanFail("timeout") /\ faults' = faults + 1
  BY DEF TimeOut
<1>2. faults' \in 0..MaxFaults
  BY <1>1, CountsTyped DEF CanFail
<1>3. PipelineType'
  BY <1>1, <1>2, PipelineRests DEF TypeInv
<1>4. QED BY <1>1, <1>3, GiveUpTyped DEF store

LEMMA RestTyped ==
  ASSUME TypeInv, PipelineType', UNCHANGED <<at, lastId, clientVars>>,
         \A d \in Sessions : job'[d].op = job[d].op
  PROVE  TypeInv'
<1>1. UNCHANGED <<script, target, call, page, begun, lastId, at>>
  BY DEF clientVars
<1>2. ASSUME NEW c \in Clients PROVE ClientFits(c)'
  <2>1. ClientFits(c) /\ (Waiting(c) => call[c] \in Sessions)
    BY DEF TypeInv, ClientsFit, ClientType, Waiting
  <2>2. Waiting(c) => /\ at'[call[c]] # "idle"
                      /\ \/ at'[call[c]] = "refused"
                         \/ at[call[c]] # "refused" /\ job'[call[c]].op = job[call[c]].op
    BY <1>1, <2>1 DEF ClientFits
  <2>3. QED BY <1>1, <2>1, <2>2, CountsTyped, FitsStill
<1>3. QED BY <1>1, <1>2 DEF TypeInv, ClientType, ClientsFit

LEMMA TypeInvStep == TypeInv /\ [Next]_vars => TypeInv'
<1> SUFFICES ASSUME TypeInv, [Next]_vars PROVE TypeInv'
  OBVIOUS
<1>1. CASE Tick
  <2>1. /\ PipelineType' /\ UNCHANGED <<lastId, at>>
        /\ \A d \in Sessions : job'[d].op = job[d].op
    BY <1>1, TickStep DEF TypeInv, KeepsRequest
  <2>2. UNCHANGED clientVars
    BY <1>1 DEF Tick
  <2>3. QED BY <2>1, <2>2, RestTyped
<1>2. CASE UNCHANGED vars
  <2>1. /\ UNCHANGED <<store, at, job, faults, clientVars, lastId>>
    BY <1>2 DEF vars, pipelineVars, store
  <2>2. PipelineType'
    BY <2>1, PipelineRests DEF TypeInv, PipelineType, StoreType
  <2>3. QED BY <2>1, <2>2, RestTyped
<1>3. QED BY <1>1, <1>2, NextCases, RequestTyped, StatementTyped, CompleteTyped, AnswerFirstTyped,
             BreakTyped, TimeOutTyped

LEMMA TypeInvInit == Init => TypeInv
<1> SUFFICES ASSUME Init PROVE TypeInv
  OBVIOUS
<1>1. MaxRuns \in Nat /\ MaxFaults \in Nat /\ {MaxScripts, MaxIngests} \subseteq Nat
  BY RunAssumption, ClientAssumption
<1>2. <<>> \in Seq(Event) /\ <<>> \in Seq(Ops) /\ IsFiniteSet({}) /\ Range(<<>>) = {}
  BY EmptySeq, FS_EmptySet DEF Range
<1>3. StoreType
  BY <1>1, <1>2 DEF Init, PipelineInit, StoreType, Statuses
<1>4. JobsType
  BY NoJobFits DEF Init, PipelineInit, JobsType, JobAt, Place
<1>5. ClientType
  BY <1>1, <1>2 DEF Init, ClientType, NoPage, Begun
<1>6. ClientsFit
  BY <1>1, <1>2 DEF Init, PipelineInit, ClientsFit, ClientFits, CreateFirst, Waiting, NoPage
<1>7. QED BY <1>3, <1>4, <1>5, <1>6 DEF TypeInv, PipelineType

\* Every variable of the runs and of their clients has its type, whatever the
\* scripts, the batches and the answers of the model: in particular an id that
\* a client sends is that of a run, and a row is of a flow that some batch has.
THEOREM RunTypes == Spec => []TypeOK
<1>1. TypeInv => TypeOK
  <2> SUFFICES ASSUME TypeInv PROVE TypeOK
    OBVIOUS
  <2>1. \A s \in Sessions : at[s] \in Place /\ job[s].run \in 0..MaxRuns /\ job[s].rows \subseteq Row
    BY JobsTyped DEF TypeInv, JobType
  <2>2. \A c \in Clients : script[c] \in Seq(Ops) /\ target[c] \in 0..MaxRuns /\ call[c] \in Sessions \cup {"none"}
    BY DEF TypeInv, ClientType
  <2>3. DOMAIN events = Runs /\ DOMAIN contracts = Runs /\ DOMAIN basis = Runs
    BY DEF TypeInv, PipelineType, StoreType
  <2>4. QED BY <2>1, <2>2, <2>3 DEF TypeOK, TypeInv, PipelineType, StoreType, ClientType, Begun, Statuses
<1>2. QED BY <1>1, TypeInvInit, TypeInvStep, PTL DEF Spec

-----------------------------------------------------------------------------
(* The status of a run                                                      *)

\* What a step is for the server.
LEMMA PipelineCases ==
  ASSUME TypeInv, [Next]_vars
  PROVE  \/ \E s \in Sessions : \E op \in Ops : \E run : \E lines \in Range(Batches) \cup {<<>>} :
              /\ Begin(s, op, run, lines)
              /\ IF op = "create" THEN lastId < MaxRuns ELSE run \in 1..lastId
         \/ \E s \in Sessions : Statements(s) \/ Fails(s) \/ Commit(s)
         \/ Tick
         \/ UNCHANGED <<store, at, job>>
<1>1. ASSUME NEW c \in Clients, NEW s \in Sessions, NEW steps, NEW run, NEW lines,
             Requests(c, s, steps, run, lines)
      PROVE  /\ Head(steps) \in Ops /\ lines \in Range(Batches) \cup {<<>>}
             /\ Begin(s, Head(steps), run, lines)
             /\ IF Head(steps) = "create" THEN lastId < MaxRuns ELSE run \in 1..lastId
  BY <1>1, HeadOfScript DEF Requests, Sends
<1>2. UNCHANGED vars => UNCHANGED <<store, at, job>>
  BY DEF vars, pipelineVars
<1>3. QED BY <1>1, <1>2, NextCases DEF Complete, AnswerFirst, Break, TimeOut

\* A run that is being created has no status yet, and no other session creates
\* it; what other requests work on has one.
JobRun(s) ==
  /\ job[s].op = "create" =>
       /\ status[job[s].run] = "none"
       /\ \A d \in Sessions \ {s} : job[d].op = "create" => job[d].run # job[s].run
  /\ job[s].op \notin {"none", "create"} => status[job[s].run] # "none"

RunsInv ==
  /\ \A r \in Runs : r > lastId => status[r] = "none"
  /\ \A s \in Sessions : JobRun(s)

\* The job of a request that begins, or is back to none, fits the runs.
LEMMA RunsWorks ==
  ASSUME TypeInv, RunsInv, NEW s \in Sessions, NEW place, NEW j, Works(s, place, j),
         lastId' \in Nat, lastId' >= lastId,
         \/ j.op = "none"
         \/ j.op = job[s].op /\ j.run = job[s].run
         \/ j.op = "create" /\ j.run = lastId + 1 /\ lastId < MaxRuns
         \/ j.op \in Ops \ {"create"} /\ status[j.run] # "none"
  PROVE  RunsInv'
<1>1. /\ job'[s] = j /\ \A t \in Sessions \ {s} : job'[t] = job[t]
      /\ status' = status
  BY DEF Works, TypeInv, PipelineType, JobsType
<1>2. lastId \in Nat /\ MaxRuns \in Nat
  BY CountsTyped
<1>3. \A t \in Sessions : job[t].op # "none" => job[t].run \in 1..lastId
  BY JobsTyped DEF JobAt, JobFits, TypeInv
<1>4. ASSUME NEW t \in Sessions \ {s}, job[t].op = "create", j.op = "create" PROVE job[t].run # j.run
  BY <1>2, <1>3, <1>4 DEF RunsInv, JobRun, Ops
<1>5. j.op = "create" => status[j.run] = "none"
  BY <1>2 DEF RunsInv, JobRun, Runs, Ops
<1>6. j.op \notin {"none", "create"} => status[j.run] # "none"
  BY DEF RunsInv, JobRun
<1>7. ASSUME NEW t \in Sessions PROVE JobRun(t)'
  <2>1. CASE t = s
    BY <1>1, <1>4, <1>5, <1>6, <2>1 DEF JobRun
  <2>2. CASE t # s
    BY <1>1, <1>4, <2>2 DEF JobRun, RunsInv
  <2>3. QED BY <2>1, <2>2
<1>8. \A r \in Runs : r > lastId' => status'[r] = "none"
  BY <1>1, <1>2 DEF RunsInv, Runs
<1>9. QED BY <1>7, <1>8 DEF RunsInv

\* The status of a run goes from none over in progress to complete.
StatusOnward(r) ==
  /\ status[r] # "none" => status'[r] # "none"
  /\ status[r] = "complete" => status'[r] = "complete"
  /\ status'[r] = status[r] \/ r \in 1..lastId

LEMMA CommitOnward ==
  ASSUME TypeInv, RunsInv, NEW s \in Sessions, Commit(s)
  PROVE  /\ \A r \in Runs : StatusOnward(r)
         /\ RunsInv'
         /\ job[s].op = "matrix" => status'[job[s].run] = "complete"
         /\ job[s].op = "create" => status[job[s].run] = "none"
<1> DEFINE run == job[s].run
           op  == job[s].op
<1>1. /\ at[s] = "done" /\ op # "none" /\ run \in Runs /\ job'[s] = NoJob /\ UNCHANGED lastId
      /\ \A d \in Sessions \ {s} : job'[d].op = job[d].op /\ job'[d].run = job[d].run
      /\ \A r \in Runs : r # run \/ op \notin DOMAIN Reached => status'[r] = status[r]
      /\ op \in DOMAIN Reached => status'[run] = Reached[op]
  BY CommitStep DEF TypeInv, KeepsRequest
<1>2. DOMAIN Reached = {"create", "matrix"} /\ Reached["create"] = "in_progress" /\ Reached["matrix"] = "complete"
  BY DEF Reached
<1>3. run \in 1..lastId /\ (op = "create" => status[run] = "none") /\ (op # "create" => status[run] # "none")
  BY <1>1, JobsTyped DEF TypeInv, JobAt, JobFits, RunsInv, JobRun
<1>4. \A r \in Runs : StatusOnward(r)
  BY <1>1, <1>2, <1>3 DEF StatusOnward
<1>5. \A r \in Runs : r > lastId' => status'[r] = "none"
  BY <1>1, <1>3, CountsTyped DEF RunsInv, Runs
<1>6. ASSUME NEW t \in Sessions PROVE JobRun(t)'
  <2>1. CASE t = s
    BY <1>1, <2>1 DEF JobRun, NoJob
  <2>2. CASE t # s
    <3>1. job'[t].op = job[t].op /\ job'[t].run = job[t].run /\ JobRun(t) /\ JobRun(s)
      BY <1>1, <2>2 DEF RunsInv
    <3>2. job[t].op # "none" => job[t].run \in Runs
      BY <1>1, CountsTyped, JobsTyped DEF TypeInv, JobAt, JobFits, Runs, PipelineType, StoreType
    <3>3. job[t].op = "create" => job[t].run # run
      BY <1>1, <1>3, <2>2, <3>1 DEF JobRun
    <3>4. \A d \in Sessions : job'[d].op = "create" => job'[d].op = job[d].op /\ job'[d].run = job[d].run
      BY <1>1 DEF NoJob
    <3>5. QED BY <1>1, <1>4, <3>1, <3>2, <3>3, <3>4 DEF JobRun, StatusOnward
  <2>3. QED BY <2>1, <2>2
<1>7. QED BY <1>1, <1>2, <1>3, <1>4, <1>5, <1>6 DEF RunsInv

LEMMA RunsStep ==
  ASSUME TypeInv, RunsInv, [Next]_vars
  PROVE  /\ RunsInv'
         /\ \A r \in Runs : StatusOnward(r)
<1>1. lastId \in Nat /\ MaxRuns \in Nat
  BY CountsTyped
<1>2. ASSUME NEW s \in Sessions, NEW op \in Ops, NEW run, NEW lines \in Range(Batches) \cup {<<>>},
             Begin(s, op, run, lines),
             IF op = "create" THEN lastId < MaxRuns ELSE run \in 1..lastId
      PROVE  RunsInv' /\ status' = status
  <2>1. PICK place \in Place : \E j :
              /\ Works(s, place, j) /\ JobForm(j) /\ JobType(j) /\ JobFits(j, place, lastId')
              /\ \/ /\ op = "create" /\ place = "done" /\ lastId' = lastId + 1
                    /\ j = Job("create", lastId + 1, <<>>, {}, <<>>, {})
                 \/ /\ op = "ingest" /\ place = "done" /\ lastId' = lastId /\ status[run] # "none"
                    /\ j = Job("ingest", run, lines, {}, <<>>, {})
                 \/ /\ op = "classify" /\ place = "lookup" /\ lastId' = lastId /\ status[run] # "none"
                    /\ j = Job("classify", run, <<>>, Aggregate(events[run]), <<>>, Verdicts)
                 \/ /\ op = "matrix" /\ place = "existing" /\ lastId' = lastId /\ status[run] # "none"
                    /\ j = Job("matrix", run, <<>>, {}, SetToSeq(Found(run)), {})
                 \/ /\ op # "create" /\ place = "refused" /\ lastId' = lastId
                    /\ j = NoJob
    BY <1>2, BeginStep DEF TypeInv
  <2>2. \A o, r, l, f, i, k : Job(o, r, l, f, i, k).op = o /\ Job(o, r, l, f, i, k).run = r
    BY DEF Job
  <2>3. NoJob.op = "none" BY DEF NoJob
  <2>4. PICK j : /\ Works(s, place, j) /\ lastId' \in {lastId, lastId + 1}
                 /\ \/ j.op = "none"
                    \/ j.op = "create" /\ j.run = lastId + 1 /\ lastId < MaxRuns
                    \/ j.op \in Ops \ {"create"} /\ status[j.run] # "none"
    BY <1>2, <2>1, <2>2, <2>3 DEF Ops
  <2>5. RunsInv'
    BY <1>1, <2>4, RunsWorks
  <2>6. QED BY <2>4, <2>5 DEF Works
<1>3. ASSUME NEW s \in Sessions, Statements(s) PROVE RunsInv' /\ status' = status
  <2>1. PICK place \in Place : \E j : Works(s, place, j) /\ j.op = job[s].op /\ j.run = job[s].run
    BY <1>3, StatementMoves DEF TypeInv
  <2>2. lastId' = lastId
    BY <1>3, StatementMoves DEF TypeInv
  <2>3. PICK j : Works(s, place, j) /\ j.op = job[s].op /\ j.run = job[s].run
    BY <2>1
  <2>4. RunsInv'
    BY <1>1, <2>2, <2>3, RunsWorks
  <2>5. QED BY <2>3, <2>4 DEF Works
<1>4. ASSUME NEW s \in Sessions, Fails(s) PROVE RunsInv' /\ status' = status
  <2>1. Works(s, "idle", NoJob) /\ lastId' = lastId /\ NoJob.op = "none"
    BY <1>4, FailsStep DEF TypeInv, NoJob
  <2>2. RunsInv'
    BY <1>1, <2>1, RunsWorks
  <2>3. QED BY <2>1, <2>2 DEF Works
<1>5. ASSUME Tick PROVE RunsInv' /\ status' = status
  <2>1. /\ UNCHANGED <<status, lastId>>
        /\ \A d \in Sessions : job'[d].op = job[d].op /\ job'[d].run = job[d].run
    BY <1>5, TickStep DEF TypeInv, KeepsRequest
  <2>2. QED BY <2>1 DEF RunsInv, JobRun
<1>6. ASSUME UNCHANGED <<store, at, job>> PROVE RunsInv' /\ status' = status
  BY <1>6 DEF RunsInv, JobRun, store
<1>7. status' = status => \A r \in Runs : StatusOnward(r)
  BY DEF StatusOnward
<1>8. QED BY <1>2, <1>3, <1>4, <1>5, <1>6, <1>7, CommitOnward, PipelineCases

LEMMA FaultsGrow ==
  ASSUME TypeInv, [Next]_vars
  PROVE  faults \in Nat /\ faults' \in Nat /\ faults' >= faults
<1>1. faults \in Nat /\ PipelineType
  BY CountsTyped DEF TypeInv
<1>2. ASSUME NEW c \in Clients, NEW s \in Sessions, NEW steps, NEW run, NEW lines,
             Requests(c, s, steps, run, lines)
      PROVE  faults' = faults
  BY <1>1, <1>2, HeadOfScript, BeginStep DEF Requests, Sends
<1>3. ASSUME NEW s \in Sessions, Statements(s) PROVE faults' = faults
  BY <1>1, <1>3, StatementMoves
<1>4. ASSUME NEW s \in Sessions, Complete(s) \/ AnswerFirst(s) \/ Break(s)
      PROVE  faults' \in Nat /\ faults' >= faults
  <2>1. CASE Complete(s)
    BY <1>1, <2>1 DEF Complete, Commit
  <2>2. CASE AnswerFirst(s)
    BY <1>1, <2>2 DEF AnswerFirst
  <2>3. CASE Break(s)
    <3>1. faults' \in faults..MaxFaults
      BY <1>1, <2>3, FailsStep DEF Break
    <3>2. QED BY <1>1, <3>1, CountsTyped
  <2>4. QED BY <1>4, <2>1, <2>2, <2>3
<1>5. ASSUME NEW c \in Clients, TimeOut(c) PROVE faults' = faults + 1
  BY <1>5 DEF TimeOut
<1>6. Tick => faults' = faults
  BY DEF Tick
<1>7. UNCHANGED vars => faults' = faults
  BY DEF vars, pipelineVars
<1>8. QED BY <1>1, <1>2, <1>3, <1>4, <1>5, <1>6, <1>7, NextCases

\* What is ready to be committed stays so until it is, or until a crash.
LEMMA DoneStays ==
  ASSUME TypeInv, [Next]_vars, NEW s \in Sessions, at[s] = "done"
  PROVE  \/ at'[s] = "done" /\ job'[s].op = job[s].op /\ job'[s].run = job[s].run
         \/ faults' = faults + 1
         \/ Commit(s)
<1>1. PipelineType BY DEF TypeInv
<1>2. ASSUME NEW t \in Sessions, NEW op \in Ops, NEW run, NEW lines \in Range(Batches) \cup {<<>>},
             Begin(t, op, run, lines),
             IF op = "create" THEN lastId < MaxRuns ELSE run \in 1..lastId
      PROVE  at'[s] = at[s] /\ job'[s] = job[s]
  <2>1. PICK place \in Place : \E j : Works(t, place, j)
    BY <1>1, <1>2, BeginStep
  <2>2. t # s
    BY <1>1, <1>2, BeginStep
  <2>3. QED BY <1>1, <2>1, <2>2 DEF Works, PipelineType, JobsType
<1>3. ASSUME NEW t \in Sessions, Statements(t) PROVE at'[s] = at[s] /\ job'[s] = job[s]
  <2>1. PICK place \in Place : \E j : Works(t, place, j)
    BY <1>1, <1>3, StatementMoves
  <2>2. t # s
    BY <1>1, <1>3, StatementMoves
  <2>3. QED BY <1>1, <2>1, <2>2 DEF Works, PipelineType, JobsType
<1>4. ASSUME NEW t \in Sessions, Fails(t)
      PROVE  (at'[s] = at[s] /\ job'[s] = job[s]) \/ faults' = faults + 1
  <2>1. CASE t = s
    BY <1>1, <1>4, <2>1, FailsStep
  <2>2. CASE t # s
    BY <1>1, <1>4, <2>2, FailsStep DEF Works, PipelineType, JobsType
  <2>3. QED BY <2>1, <2>2
<1>5. ASSUME NEW t \in Sessions \ {s}, Commit(t)
      PROVE  at'[s] = at[s] /\ job'[s].op = job[s].op /\ job'[s].run = job[s].run
  BY <1>1, <1>5, CommitStep DEF KeepsRequest
<1>6. Tick => at' = at /\ job'[s].op = job[s].op /\ job'[s].run = job[s].run
  BY <1>1, TickStep DEF KeepsRequest
<1>7. QED BY <1>2, <1>3, <1>4, <1>5, <1>6, PipelineCases

\* ShownIsStored, as it carries over: what is about to be stored is a matrix,
\* and it takes a fault to be shown before.
Stored(r) ==
  \/ status[r] = "complete"
  \/ \E s \in Sessions : at[s] = "done" /\ job[s].op = "matrix" /\ job[s].run = r /\ faults >= 1
  \/ faults > 1

ShownInv == \A c \in Pages, r \in Runs : page[c].matrix = r => Stored(r)

LEMMA StoredStays ==
  ASSUME TypeInv, RunsInv, [Next]_vars, NEW r \in Runs, Stored(r)
  PROVE  Stored(r)'
<1>1. faults \in Nat /\ faults' \in Nat /\ faults' >= faults
  BY FaultsGrow
<1>2. CASE status[r] = "complete"
  BY <1>2, RunsStep DEF StatusOnward, Stored
<1>3. CASE faults > 1
  BY <1>1, <1>3 DEF Stored
<1>4. ASSUME NEW s \in Sessions, at[s] = "done" /\ job[s].op = "matrix" /\ job[s].run = r /\ faults >= 1
      PROVE  Stored(r)'
  <2>1. CASE at'[s] = "done" /\ job'[s].op = job[s].op /\ job'[s].run = job[s].run
    BY <1>1, <1>4, <2>1 DEF Stored
  <2>2. CASE faults' = faults + 1
    BY <1>1, <1>4, <2>2 DEF Stored
  <2>3. CASE Commit(s)
    BY <1>4, <2>3, CommitOnward DEF Stored
  <2>4. QED BY <1>4, <2>1, <2>2, <2>3, DoneStays
<1>5. QED BY <1>2, <1>3, <1>4 DEF Stored

\* The matrix that a page is sent.
LEMMA AnsweredStored ==
  ASSUME TypeInv, RunsInv, [Next]_vars, ShownInv, NEW s \in Sessions, at[s] = "done", Answered(s),
         \A r \in Runs : job[s].op = "matrix" /\ job[s].run = r => Stored(r)'
  PROVE  ShownInv'
<1>1. page' = [c \in Pages |-> IF c \in Callers(s) THEN Kept(c, job[s].run) ELSE page[c]]
  BY DEF Answered
<1>2. ASSUME NEW c \in Pages, NEW r \in Runs, page'[c].matrix = r PROVE Stored(r)'
  <2>1. page[c] \in [active : 0..MaxRuns, matrix : 0..MaxRuns] /\ c \in Clients /\ MaxRuns \in Nat
    BY CountsTyped DEF TypeInv, ClientType, Clients
  <2>2. page[c].matrix = r => Stored(r)'
    BY <2>1, StoredStays DEF ShownInv
  <2>3. CASE c \in Callers(s) /\ script[c] = <<"matrix">>
    <3>1. call[c] = s /\ Waiting(c) /\ ClientFits(c)
      BY <2>1, <2>3, RunAssumption DEF Callers, TypeInv, ClientsFit, Waiting
    <3>2. job[s].op = "matrix"
      BY <2>3, <3>1 DEF ClientFits
    <3>3. page'[c].matrix = job[s].run
      BY <1>1, <2>1, <2>3 DEF Kept
    <3>4. QED BY <1>2, <3>2, <3>3
  <2>4. CASE ~ (c \in Callers(s) /\ script[c] = <<"matrix">>)
    <3>1. page'[c].matrix = page[c].matrix
      BY <1>1, <2>1, <2>4 DEF Kept
    <3>2. QED BY <1>2, <2>2, <3>1
  <2>5. QED BY <2>3, <2>4
<1>3. QED BY <1>2 DEF ShownInv

LEMMA ShownStep ==
  ASSUME TypeInv, RunsInv, [Next]_vars, ShownInv
  PROVE  ShownInv'
<1>1. CASE page' = page
  BY <1>1, StoredStays DEF ShownInv
<1>2. ASSUME NEW s \in Sessions, Complete(s) PROVE ShownInv'
  <2>1. at[s] = "done" /\ Answered(s) /\ (job[s].op = "matrix" => status'[job[s].run] = "complete")
    BY <1>2, CommitOnward DEF Complete, Commit
  <2>2. \A r \in Runs : job[s].op = "matrix" /\ job[s].run = r => Stored(r)'
    BY <2>1 DEF Stored
  <2>3. QED BY <2>1, <2>2, AnsweredStored
<1>3. ASSUME NEW s \in Sessions, AnswerFirst(s) PROVE ShownInv'
  <2>1. at[s] = "done" /\ Answered(s) /\ at' = at /\ job' = job /\ faults' >= 1
    BY <1>3, CountsTyped DEF AnswerFirst
  <2>2. \A r \in Runs : job[s].op = "matrix" /\ job[s].run = r => Stored(r)'
    BY <2>1 DEF Stored
  <2>3. QED BY <2>1, <2>2, AnsweredStored
<1>4. UNCHANGED page \/ \E s \in Sessions : Complete(s) \/ AnswerFirst(s)
  BY NextCases DEF Requests, Sends, clientVars, Break, GiveUp, TimeOut, Tick, vars
<1>5. QED BY <1>1, <1>2, <1>3, <1>4

LEMMA RunsInit == Init => RunsInv /\ ShownInv
<1> SUFFICES ASSUME Init PROVE RunsInv /\ ShownInv
  OBVIOUS
<1>1. RunsInv
  BY DEF Init, PipelineInit, RunsInv, JobRun, NoJob
<1>2. ShownInv
  BY DEF Init, ShownInv, NoPage, Runs
<1>3. QED BY <1>1, <1>2

\* The matrix on a page is stored or is about to be: an answer that comes before
\* its commit and a crash in between are needed to lose it, two faults.
THEOREM ShownKept == Spec => []ShownIsStored
<1>1. TypeInv /\ ShownInv => ShownIsStored
  <2> SUFFICES ASSUME TypeInv, ShownInv PROVE ShownIsStored
    OBVIOUS
  <2>1. \A c \in Pages : page[c].matrix # 0 => page[c].matrix \in Runs
    BY CountsTyped DEF TypeInv, ClientType, Runs
  <2>2. QED BY <2>1 DEF ShownInv, ShownIsStored, Stored
<1>2. TypeInv /\ RunsInv /\ ShownInv /\ [Next]_vars => RunsInv' /\ ShownInv'
  BY RunsStep, ShownStep
<1>3. QED BY <1>1, <1>2, RunsInit, TypeInvInit, TypeInvStep, PTL DEF Spec

-----------------------------------------------------------------------------
(* One verdict for a flow, from events of the run                           *)

LEMMA RangeOfAppend ==
  ASSUME NEW S, NEW q \in Seq(S), NEW x \in S
  PROVE  Range(Append(q, x)) = Range(q) \cup {x}
<1>1. /\ Append(q, x) \in Seq(S) /\ Len(Append(q, x)) = Len(q) + 1 /\ Append(q, x)[Len(q) + 1] = x
      /\ \A n \in 1..Len(q) : Append(q, x)[n] = q[n]
      /\ Len(q) \in Nat
  BY AppendProperties
<1> DEFINE a == Append(q, x)
<1>2. DOMAIN a = 1..(Len(q) + 1) /\ DOMAIN q = 1..Len(q)
  BY <1>1
<1> HIDE DEF a
<1>3. \A n \in DOMAIN a : n \in 1..Len(q) \/ n = Len(q) + 1
  BY <1>1, <1>2
<1>4. QED BY <1>1, <1>2, <1>3 DEF Range, a

\* What is said of a flow comes from events that are in the run.
OfEvents(run, flow) ==
  flow.hits <= TotalHits(events[run], flow.key) /\ Places(events[run], flow.key) # {}

JobOfEvents(j) ==
  /\ j.op # "classify" => j.rows = {}
  /\ j.op = "classify" =>
       /\ \A flow \in j.flows \cup Range(j.todo) : OfEvents(j.run, flow)
       /\ \A item \in Range(j.items) : OfEvents(j.run, item.flow)
       /\ \A row \in j.rows : row.run = j.run /\ OfEvents(j.run, row)

EventsInv ==
  /\ \A row \in rows : OfEvents(row.run, row)
  /\ \A s \in Sessions : JobOfEvents(job[s])

\* The events of a run are never fewer.
LEMMA MoreEvents ==
  ASSUME NEW c \in Seq(Event), NEW d \in Seq(Event), NEW flow, flow.hits \in Nat,
         flow.hits <= TotalHits(c, flow.key), Places(c, flow.key) # {}
  PROVE  flow.hits <= TotalHits(c \o d, flow.key) /\ Places(c \o d, flow.key) # {}
<1>1. TotalHits(c, flow.key) \in Nat /\ TotalHits(c, flow.key) <= TotalHits(c \o d, flow.key)
  BY DataTypes, HitsGrow
<1>2. TotalHits(c \o d, flow.key) \in Nat
  <2>1. c \o d \in Seq(Event)
    BY ConcatProperties
  <2>2. QED BY <2>1, DataTypes, HitsGrow
<1>3. PICK n \in DOMAIN c : FlowKey(c[n]) = flow.key
  BY DEF Places
<1>4. n \in DOMAIN (c \o d) /\ (c \o d)[n] = c[n]
  OBVIOUS
<1>5. Places(c \o d, flow.key) # {}
  BY <1>3, <1>4 DEF Places
<1>6. QED BY <1>1, <1>2, <1>5

LEMMA AggregateOfEvents ==
  ASSUME PipelineType, NEW run \in Runs
  PROVE  \A flow \in Aggregate(events[run]) : OfEvents(run, flow)
<1> DEFINE c == events[run]
<1>1. c \in Seq(Event)
  BY DEF PipelineType, StoreType
<1> HIDE DEF c
<1>2. \A k : TotalHits(c, k) \in Nat
  BY <1>1, DataTypes, HitsGrow
<1>3. \A flow \in Aggregate(c) : flow.hits = TotalHits(c, flow.key) /\ Places(c, flow.key) # {}
  BY DEF Aggregate, Places
<1>4. \A flow \in Aggregate(c) : flow.hits <= TotalHits(c, flow.key)
  BY <1>2, <1>3
<1>5. QED BY <1>3, <1>4 DEF OfEvents, c

LEMMA BeginOfEvents ==
  ASSUME PipelineType, NEW s \in Sessions, NEW op \in Ops, NEW run,
         NEW lines \in Range(Batches) \cup {<<>>}, Begin(s, op, run, lines),
         IF op = "create" THEN lastId < MaxRuns ELSE run \in 1..lastId
  PROVE  \E place, j : Works(s, place, j) /\ JobOfEvents(j) /\ j.rows = {}
<1>1. PICK place \in Place : \E j :
              /\ Works(s, place, j) /\ JobForm(j) /\ JobType(j) /\ JobFits(j, place, lastId')
              /\ \/ /\ op = "create" /\ place = "done" /\ lastId' = lastId + 1
                    /\ j = Job("create", lastId + 1, <<>>, {}, <<>>, {})
                 \/ /\ op = "ingest" /\ place = "done" /\ lastId' = lastId /\ status[run] # "none"
                    /\ j = Job("ingest", run, lines, {}, <<>>, {})
                 \/ /\ op = "classify" /\ place = "lookup" /\ lastId' = lastId /\ status[run] # "none"
                    /\ j = Job("classify", run, <<>>, Aggregate(events[run]), <<>>, Verdicts)
                 \/ /\ op = "matrix" /\ place = "existing" /\ lastId' = lastId /\ status[run] # "none"
                    /\ j = Job("matrix", run, <<>>, {}, SetToSeq(Found(run)), {})
                 \/ /\ op # "create" /\ place = "refused" /\ lastId' = lastId
                    /\ j = NoJob
  BY BeginStep
<1>2. PICK j : /\ Works(s, place, j)
               /\ \/ j = Job("create", lastId + 1, <<>>, {}, <<>>, {})
                  \/ j = Job("ingest", run, lines, {}, <<>>, {})
                  \/ /\ op = "classify"
                     /\ j = Job("classify", run, <<>>, Aggregate(events[run]), <<>>, Verdicts)
                  \/ j = Job("matrix", run, <<>>, {}, SetToSeq(Found(run)), {})
                  \/ j = NoJob
  BY <1>1
<1>3. j.rows = {}
  BY <1>2 DEF Job, NoJob
<1>4. j.op = "classify" =>
        j.run = run /\ j.flows = Aggregate(events[run]) /\ j.todo = <<>> /\ j.items = <<>> /\ op = "classify"
  BY <1>2 DEF Job, NoJob
<1>5. op = "classify" => run \in Runs
  BY RunAssumption DEF PipelineType, StoreType, Runs
<1>6. Range(<<>>) = {}
  BY DEF Range
<1>7. JobOfEvents(j)
  BY <1>3, <1>4, <1>5, <1>6, AggregateOfEvents DEF JobOfEvents
<1>8. QED BY <1>2, <1>3, <1>7

\* The statements of a request say nothing else.
LEMMA StatementOfEvents ==
  ASSUME PipelineType, EventsInv, NEW s \in Sessions, Statements(s)
  PROVE  \E place, j : Works(s, place, j) /\ JobOfEvents(j)
<1>1. JobForm(job[s]) /\ JobType(job[s]) /\ JobAt(job[s], at[s]) /\ JobOfEvents(job[s])
  BY JobsTyped DEF EventsInv
<1>2. CASE Lookup(s)
  <2>1. at[s] = "lookup"
    BY <1>2, LookupStep
  <2>2. PICK place \in {"lookup", "ask", "upsert"} : \E j :
              /\ Works(s, place, j) /\ JobForm(j) /\ JobType(j) /\ JobAt(j, place)
              /\ KeepsRequest(j, job[s]) /\ KeepsMatrix(j, job[s]) /\ j.rows = job[s].rows
              /\ \E flow \in job[s].flows :
                   /\ j.flows = job[s].flows \ {flow}
                   /\ \/ /\ Recent(flow.key) = {}
                         /\ j.todo = Append(job[s].todo, flow) /\ j.items = job[s].items
                      \/ \E hit \in Recent(flow.key) :
                           /\ j.items = Append(job[s].items, [flow |-> flow, category |-> hit.category])
                           /\ j.todo = job[s].todo
    BY <1>2, LookupStep
  <2>3. PICK j :
              /\ Works(s, place, j)
              /\ KeepsRequest(j, job[s]) /\ j.rows = job[s].rows
              /\ \E flow \in job[s].flows :
                   /\ j.flows = job[s].flows \ {flow}
                   /\ \/ j.todo = Append(job[s].todo, flow) /\ j.items = job[s].items
                      \/ \E hit \in Recent(flow.key) :
                           /\ j.items = Append(job[s].items, [flow |-> flow, category |-> hit.category])
                           /\ j.todo = job[s].todo
    BY <2>2
  <2>4. PICK flow \in job[s].flows :
                   /\ j.flows = job[s].flows \ {flow}
                   /\ \/ j.todo = Append(job[s].todo, flow) /\ j.items = job[s].items
                      \/ \E hit \in Recent(flow.key) :
                           /\ j.items = Append(job[s].items, [flow |-> flow, category |-> hit.category])
                           /\ j.todo = job[s].todo
    BY <2>3
  <2>5. flow \in Flow /\ job[s].todo \in Seq(Flow) /\ job[s].items \in Seq(Item) /\ job[s].op = "classify"
    BY <1>1, <2>1, <2>4 DEF JobType, JobAt, JobFits
  <2>6. \A hit \in Recent(flow.key) : [flow |-> flow, category |-> hit.category] \in Item
    BY <2>5, DataTypes DEF Recent, Item, PipelineType, StoreType
  <2>7. Range(j.todo) \subseteq Range(job[s].todo) \cup {flow}
    <3>1. Range(Append(job[s].todo, flow)) = Range(job[s].todo) \cup {flow}
      BY <2>5, RangeOfAppend
    <3>2. j.todo = Append(job[s].todo, flow) \/ j.todo = job[s].todo
      BY <2>4
    <3>3. QED BY <3>1, <3>2
  <2>8. \A item \in Range(j.items) : item \in Range(job[s].items) \/ item.flow = flow
    <3>1. CASE j.items = job[s].items
      BY <3>1
    <3>2. ASSUME NEW hit \in Recent(flow.key),
                 j.items = Append(job[s].items, [flow |-> flow, category |-> hit.category])
          PROVE  \A item \in Range(j.items) : item \in Range(job[s].items) \/ item.flow = flow
      <4> DEFINE last == [flow |-> flow, category |-> hit.category]
      <4>1. last \in Item /\ last.flow = flow /\ j.items = Append(job[s].items, last)
        BY <2>6, <3>2
      <4> HIDE DEF last
      <4>2. Range(j.items) = Range(job[s].items) \cup {last}
        BY <2>5, <4>1, RangeOfAppend
      <4>3. QED BY <4>1, <4>2
    <3>3. QED BY <2>4, <3>1, <3>2
  <2>9. JobOfEvents(j)
    BY <1>1, <2>3, <2>4, <2>5, <2>7, <2>8 DEF JobOfEvents, KeepsRequest
  <2>10. QED BY <2>3, <2>9
<1>3. CASE Ask(s)
  <2>1. at[s] = "ask" /\ \E place \in {"ask", "upsert"} : \E j :
              /\ Works(s, place, j)
              /\ KeepsRequest(j, job[s])
              /\ j.rows = job[s].rows /\ j.flows = job[s].flows
              /\ Range(j.todo) \subseteq Range(job[s].todo)
              /\ \A item \in Range(j.items) \ Range(job[s].items) : item.flow \in Range(job[s].todo)
    BY <1>3, AskStep
  <2>2. job[s].op = "classify"
    BY <1>1, <2>1 DEF JobAt, JobFits
  <2>3. QED BY <1>1, <2>1, <2>2 DEF JobOfEvents, KeepsRequest
<1>4. CASE Upsert(s)
  <2>1. at[s] = "upsert" /\ \E place \in {"upsert", "done"} : \E j :
              /\ Works(s, place, j)
              /\ KeepsRequest(j, job[s])
              /\ j.todo = job[s].todo /\ j.flows = job[s].flows
              /\ Range(j.items) \subseteq Range(job[s].items)
              /\ LET item == Head(job[s].items)
                     row  == RowOf(job[s].run, item)
                 IN  item \in Range(job[s].items) /\ j.rows \subseteq job[s].rows \cup {row}
    BY <1>4, UpsertStep
  <2>2. job[s].op = "classify"
    BY <1>1, <2>1 DEF JobAt, JobFits
  <2> DEFINE item == Head(job[s].items)
             row  == RowOf(job[s].run, item)
  <2>3. PICK place, j :
              /\ Works(s, place, j)
              /\ KeepsRequest(j, job[s])
              /\ j.todo = job[s].todo /\ j.flows = job[s].flows
              /\ Range(j.items) \subseteq Range(job[s].items)
              /\ item \in Range(job[s].items) /\ j.rows \subseteq job[s].rows \cup {row}
    BY <2>1
  <2>4. row.run = job[s].run /\ OfEvents(job[s].run, row)
    <3>1. OfEvents(job[s].run, item.flow)
      BY <1>1, <2>2, <2>3 DEF JobOfEvents
    <3>2. row.run = job[s].run /\ row.key = item.flow.key /\ row.hits = item.flow.hits
      BY DEF RowOf
    <3> HIDE DEF row
    <3>3. QED BY <3>1, <3>2 DEF OfEvents
  <2> HIDE DEF row, item
  <2>5. JobOfEvents(j)
    BY <1>1, <2>2, <2>3, <2>4 DEF JobOfEvents, KeepsRequest
  <2>6. QED BY <2>3, <2>5
<1>5. CASE ReadExisting(s) \/ DeleteSeen(s) \/ InsertContract(s)
  <2>1. at[s] \in {"existing", "delete", "insert"}
        /\ \E place, j : /\ Works(s, place, j)
                         /\ \/ j = [job[s] EXCEPT !.seen = DOMAIN contracts[job[s].run]]
                            \/ j = [job[s] EXCEPT !.gone = job[s].seen]
                            \/ j = [job[s] EXCEPT !.put = [p \in DOMAIN @ \cup {NextPair(s)} |-> Wanted(s)[p]]]
    BY <1>5, ReadExistingStep, DeleteSeenStep, InsertContractStep
  <2>2. PICK place, j : /\ Works(s, place, j)
                        /\ \/ j = [job[s] EXCEPT !.seen = DOMAIN contracts[job[s].run]]
                           \/ j = [job[s] EXCEPT !.gone = job[s].seen]
                           \/ j = [job[s] EXCEPT !.put = [p \in DOMAIN @ \cup {NextPair(s)} |-> Wanted(s)[p]]]
    BY <2>1
  <2>3. j.op = "matrix" /\ j.rows = job[s].rows /\ job[s].op = "matrix"
    BY <1>1, <2>1, <2>2 DEF JobForm, JobAt, JobFits
  <2>4. JobOfEvents(j)
    BY <1>1, <2>3 DEF JobOfEvents
  <2>5. QED BY <2>2, <2>4
<1>6. QED BY <1>2, <1>3, <1>4, <1>5 DEF Statements

LEMMA EventsWorks ==
  ASSUME PipelineType, EventsInv, NEW s \in Sessions, NEW place, NEW j, Works(s, place, j), JobOfEvents(j)
  PROVE  EventsInv'
<1>1. /\ job'[s] = j /\ \A t \in Sessions \ {s} : job'[t] = job[t]
      /\ events' = events /\ rows' = rows
  BY DEF Works, PipelineType, JobsType
<1>2. ASSUME NEW t \in Sessions PROVE JobOfEvents(job[t])'
  <2>1. CASE t = s
    BY <1>1, <2>1 DEF JobOfEvents, OfEvents
  <2>2. CASE t # s
    BY <1>1, <2>2 DEF JobOfEvents, OfEvents, EventsInv
  <2>3. QED BY <2>1, <2>2
<1>3. QED BY <1>1, <1>2 DEF EventsInv, OfEvents

\* Committed events are more events: what is said of a flow stays.
LEMMA CommitOfEvents ==
  ASSUME PipelineType, EventsInv, NEW s \in Sessions, Commit(s)
  PROVE  EventsInv'
<1>1. /\ job[s].run \in Runs /\ job'[s] = NoJob /\ rows' = rows \cup job[s].rows
      /\ \A r \in Runs : r # job[s].run => events'[r] = events[r]
      /\ events'[job[s].run] = events[job[s].run] \o ParseLines(job[s].lines)
      /\ \A d \in Sessions \ {s} : KeepsRequest(job'[d], job[d]) /\ KeepsLists(job'[d], job[d])
  BY CommitStep
<1>2. \A t \in Sessions : JobType(job[t]) /\ JobOfEvents(job[t])
  BY JobsTyped DEF EventsInv
<1>3. ParseLines(job[s].lines) \in Seq(Event)
  BY <1>2, DataTypes DEF JobType
<1>4. ASSUME NEW run \in Runs, NEW flow, flow.hits \in Nat, OfEvents(run, flow)
      PROVE  OfEvents(run, flow)'
  <2>1. events[run] \in Seq(Event)
    BY DEF PipelineType, StoreType
  <2>2. CASE run = job[s].run
    BY <1>1, <1>3, <1>4, <2>1, <2>2, MoreEvents DEF OfEvents
  <2>3. CASE run # job[s].run
    BY <1>1, <1>4, <2>3 DEF OfEvents
  <2>4. QED BY <2>2, <2>3
<1>5. \A row \in rows \cup job[s].rows : row.run \in Runs /\ row.hits \in Nat
  BY <1>2, DataTypes DEF JobType, PipelineType, StoreType
<1>6. \A row \in rows' : OfEvents(row.run, row)'
  <2>1. \A row \in rows \cup job[s].rows : OfEvents(row.run, row)
    BY <1>2 DEF EventsInv, JobOfEvents
  <2>2. QED BY <1>1, <1>4, <1>5, <2>1
<1>7. ASSUME NEW t \in Sessions PROVE JobOfEvents(job[t])'
  <2>1. CASE t = s
    BY <1>1, <2>1 DEF JobOfEvents, NoJob
  <2>2. CASE t # s
    <3>1. KeepsRequest(job'[t], job[t]) /\ KeepsLists(job'[t], job[t]) /\ JobOfEvents(job[t]) /\ JobType(job[t])
      BY <1>1, <1>2, <2>2
    <3>2. job[t].op = "classify" => job[t].run \in Runs
      BY JobsTyped, RunAssumption DEF JobAt, JobFits, Runs, PipelineType, StoreType
    <3>3. /\ \A flow \in job[t].flows \cup Range(job[t].todo) : flow.hits \in Nat
          /\ \A item \in Range(job[t].items) : item.flow.hits \in Nat
          /\ \A row \in job[t].rows : row.hits \in Nat
      <4>1. /\ job[t].flows \subseteq Flow /\ job[t].rows \subseteq Row
            /\ Range(job[t].todo) \subseteq Flow /\ Range(job[t].items) \subseteq Item
        BY <3>1 DEF JobType, Range
      <4>2. \A flow \in Flow : flow.hits \in Nat
        BY DEF Flow
      <4>3. \A item \in Item : item.flow \in Flow
        BY DEF Item
      <4>4. \A row \in Row : row.hits \in Nat
        BY DataTypes
      <4>5. QED BY <4>1, <4>2, <4>3, <4>4
    <3>4. QED BY <1>4, <3>1, <3>2, <3>3 DEF JobOfEvents, KeepsRequest, KeepsLists
  <2>3. QED BY <2>1, <2>2
<1>8. QED BY <1>6, <1>7 DEF EventsInv

LEMMA TickOfEvents ==
  ASSUME PipelineType, EventsInv, Tick
  PROVE  EventsInv'
<1>1. /\ UNCHANGED events /\ rows' = {Older(row) : row \in rows}
      /\ \A d \in Sessions :
           /\ KeepsRequest(job'[d], job[d]) /\ job'[d].flows = job[d].flows
           /\ job'[d].todo = job[d].todo /\ job'[d].items = job[d].items
           /\ job'[d].rows = {Older(row) : row \in job[d].rows}
  BY TickStep
<1>2. ASSUME NEW row \in Row
      PROVE  /\ Older(row).run = row.run
             /\ \A run : OfEvents(run, row) => OfEvents(run, Older(row))
  BY <1>2, OlderRow DEF OfEvents
<1>3. \A run, flow : OfEvents(run, flow) => OfEvents(run, flow)'
  BY <1>1 DEF OfEvents
<1>4. rows \subseteq Row /\ \A d \in Sessions : job[d].rows \subseteq Row /\ JobOfEvents(job[d])
  BY JobsTyped DEF JobType, PipelineType, StoreType, EventsInv
<1>5. \A row \in rows' : OfEvents(row.run, row)'
  BY <1>1, <1>2, <1>3, <1>4 DEF EventsInv
<1>6. ASSUME NEW d \in Sessions PROVE JobOfEvents(job[d])'
  BY <1>1, <1>2, <1>3, <1>4 DEF JobOfEvents, KeepsRequest
<1>7. QED BY <1>5, <1>6 DEF EventsInv

LEMMA EventsStep ==
  ASSUME TypeInv, EventsInv, [Next]_vars
  PROVE  EventsInv'
<1>1. PipelineType BY DEF TypeInv
<1>2. ASSUME NEW s \in Sessions, NEW op \in Ops, NEW run, NEW lines \in Range(Batches) \cup {<<>>},
             Begin(s, op, run, lines),
             IF op = "create" THEN lastId < MaxRuns ELSE run \in 1..lastId
      PROVE  EventsInv'
  BY <1>1, <1>2, BeginOfEvents, EventsWorks
<1>3. ASSUME NEW s \in Sessions, Statements(s) PROVE EventsInv'
  BY <1>1, <1>3, StatementOfEvents, EventsWorks
<1>4. ASSUME NEW s \in Sessions, Fails(s) PROVE EventsInv'
  <2>1. Works(s, "idle", NoJob) /\ JobOfEvents(NoJob)
    BY <1>1, <1>4, FailsStep DEF JobOfEvents, NoJob
  <2>2. QED BY <1>1, <2>1, EventsWorks
<1>5. ASSUME UNCHANGED <<store, at, job>> PROVE EventsInv'
  BY <1>5 DEF EventsInv, JobOfEvents, OfEvents, store
<1>6. QED BY <1>1, <1>2, <1>3, <1>4, <1>5, CommitOfEvents, TickOfEvents, PipelineCases

Same(v, w) == v.run = w.run /\ v.key = w.key

\* No two rows are of one flow of one run, be they stored or still uncommitted,
\* of one session or of two.
AloneInv ==
  /\ \A v, w \in rows : Same(v, w) => v = w
  /\ \A s \in Sessions : \A v \in job[s].rows :
       /\ \A w \in rows : ~ Same(v, w)
       /\ \A w \in job[s].rows : Same(v, w) => v = w
       /\ \A d \in Sessions \ {s} : \A w \in job[d].rows : ~ Same(v, w)

\* A row that is of no flow with a row.
NewRow(row) ==
  /\ \A w \in rows : ~ Same(row, w)
  /\ \A d \in Sessions : \A w \in job[d].rows : ~ Same(row, w)

LEMMA StatementRows ==
  ASSUME PipelineType, NEW s \in Sessions, Statements(s)
  PROVE  \E place, j : /\ Works(s, place, j)
                       /\ \/ j.rows = job[s].rows
                          \/ \E row : NewRow(row) /\ j.rows = job[s].rows \cup {row}
<1>1. JobForm(job[s])
  BY JobsTyped
<1>2. CASE Lookup(s)
  BY <1>2, LookupStep
<1>3. CASE Ask(s)
  BY <1>3, AskStep
<1>4. CASE Upsert(s)
  <2> DEFINE item == Head(job[s].items)
             row  == RowOf(job[s].run, item)
  <2>1. RowBlockers(s) = {} /\ \E place, j :
              /\ Works(s, place, j)
              /\ \/ j.rows = job[s].rows
                 \/ ~ HasRow(s, row) /\ j.rows = job[s].rows \cup {row}
    BY <1>4, UpsertStep
  <2>2. row.run = job[s].run /\ row.key = item.flow.key
    BY DEF RowOf
  <2>3. \A d \in Sessions \ {s} : \A w \in job[d].rows : ~ Same(row, w)
    BY <2>1, <2>2 DEF RowBlockers, Holds, Same
  <2>4. ~ HasRow(s, row) => \A w \in rows \cup job[s].rows : ~ Same(row, w)
    BY DEF HasRow, Holds, Same
  <2> HIDE DEF row, item
  <2>5. ~ HasRow(s, row) => NewRow(row)
    BY <2>3, <2>4 DEF NewRow
  <2>6. QED BY <2>1, <2>5
<1>5. CASE ReadExisting(s) \/ DeleteSeen(s) \/ InsertContract(s)
  <2>1. \E place, j : /\ Works(s, place, j)
                      /\ \/ j = [job[s] EXCEPT !.seen = DOMAIN contracts[job[s].run]]
                         \/ j = [job[s] EXCEPT !.gone = job[s].seen]
                         \/ j = [job[s] EXCEPT !.put = [p \in DOMAIN @ \cup {NextPair(s)} |-> Wanted(s)[p]]]
    <3>1. CASE ReadExisting(s)
      BY <3>1, ReadExistingStep
    <3>2. CASE DeleteSeen(s)
      BY <3>2, DeleteSeenStep
    <3>3. CASE InsertContract(s)
      BY <3>3, InsertContractStep
    <3>4. QED BY <1>5, <3>1, <3>2, <3>3
  <2>2. PICK place, j : /\ Works(s, place, j)
                        /\ \/ j = [job[s] EXCEPT !.seen = DOMAIN contracts[job[s].run]]
                           \/ j = [job[s] EXCEPT !.gone = job[s].seen]
                           \/ j = [job[s] EXCEPT !.put = [p \in DOMAIN @ \cup {NextPair(s)} |-> Wanted(s)[p]]]
    BY <2>1
  <2>3. j.rows = job[s].rows
    BY <1>1, <2>2 DEF JobForm
  <2>4. QED BY <2>2, <2>3
<1>6. QED BY <1>2, <1>3, <1>4, <1>5 DEF Statements

LEMMA AloneWorks ==
  ASSUME PipelineType, AloneInv, NEW s \in Sessions, NEW place, NEW j, Works(s, place, j),
         \/ j.rows = {} \/ j.rows = job[s].rows
         \/ \E row : NewRow(row) /\ j.rows = job[s].rows \cup {row}
  PROVE  AloneInv'
<1>1. /\ job'[s] = j /\ \A t \in Sessions \ {s} : job'[t] = job[t]
      /\ rows' = rows
  BY DEF Works, PipelineType, JobsType
<1>2. CASE j.rows = {} \/ j.rows = job[s].rows
  BY <1>1, <1>2 DEF AloneInv, Same
<1>3. ASSUME NEW row, NewRow(row), j.rows = job[s].rows \cup {row}
      PROVE  AloneInv'
  <2>1. \A d \in Sessions \ {s} : job'[d].rows = job[d].rows
    BY <1>1
  <2>2. job'[s].rows = job[s].rows \cup {row}
    BY <1>1, <1>3
  <2>3. \A v, w : Same(v, w) <=> Same(w, v)
    BY DEF Same
  <2>4. ASSUME NEW t \in Sessions, NEW v \in job'[t].rows
        PROVE  /\ \A w \in rows' : ~ Same(v, w)
               /\ \A w \in job'[t].rows : Same(v, w) => v = w
               /\ \A d \in Sessions \ {t} : \A w \in job'[d].rows : ~ Same(v, w)
    <3>1. CASE t = s /\ v = row
      BY <1>1, <1>3, <2>1, <2>2, <3>1 DEF NewRow
    <3>2. CASE t = s /\ v \in job[s].rows
      BY <1>1, <1>3, <2>1, <2>2, <2>3, <3>2 DEF NewRow, AloneInv
    <3>3. CASE t # s
      BY <1>1, <1>3, <2>1, <2>2, <2>3, <2>4, <3>3 DEF NewRow, AloneInv
    <3>4. QED BY <2>2, <2>4, <3>1, <3>2, <3>3
  <2>5. \A v, w \in rows' : Same(v, w) => v = w
    BY <1>1 DEF AloneInv
  <2>6. QED BY <2>4, <2>5 DEF AloneInv, Same
<1>4. QED BY <1>2, <1>3

LEMMA CommitAlone ==
  ASSUME PipelineType, AloneInv, NEW s \in Sessions, Commit(s)
  PROVE  AloneInv'
<1>1. /\ job'[s].rows = {} /\ rows' = rows \cup job[s].rows
      /\ \A d \in Sessions \ {s} : job'[d].rows = job[d].rows
  <2>1. /\ job'[s] = NoJob /\ rows' = rows \cup job[s].rows
        /\ \A d \in Sessions \ {s} : KeepsLists(job'[d], job[d])
    BY CommitStep
  <2>2. QED BY <2>1 DEF KeepsLists, NoJob
<1>2. \A v, w : Same(v, w) <=> Same(w, v)
  BY DEF Same
<1>3. \A v, w \in rows' : Same(v, w) => v = w
  BY <1>1, <1>2 DEF AloneInv
<1>4. ASSUME NEW t \in Sessions, NEW v \in job'[t].rows
      PROVE  /\ \A w \in rows' : ~ Same(v, w)
             /\ \A w \in job'[t].rows : Same(v, w) => v = w
             /\ \A d \in Sessions \ {t} : \A w \in job'[d].rows : ~ Same(v, w)
  <2>1. t # s /\ v \in job[t].rows
    BY <1>1, <1>4
  <2>2. QED BY <1>1, <2>1 DEF AloneInv
<1>5. QED BY <1>3, <1>4 DEF AloneInv, Same

LEMMA TickAlone ==
  ASSUME PipelineType, AloneInv, Tick
  PROVE  AloneInv'
<1>1. /\ rows' = {Older(row) : row \in rows}
      /\ \A d \in Sessions : job'[d].rows = {Older(row) : row \in job[d].rows}
  BY TickStep
<1>2. rows \subseteq Row /\ \A d \in Sessions : job[d].rows \subseteq Row
  BY JobsTyped DEF JobType, PipelineType, StoreType
<1>3. \A v, w \in Row : Same(Older(v), Older(w)) <=> Same(v, w)
  BY OlderRow DEF Same
<1>4. \A v, w \in rows' : Same(v, w) => v = w
  BY <1>1, <1>2, <1>3 DEF AloneInv
<1>5. ASSUME NEW t \in Sessions, NEW v \in job'[t].rows
      PROVE  /\ \A w \in rows' : ~ Same(v, w)
             /\ \A w \in job'[t].rows : Same(v, w) => v = w
             /\ \A d \in Sessions \ {t} : \A w \in job'[d].rows : ~ Same(v, w)
  <2>1. PICK u \in job[t].rows : v = Older(u)
    BY <1>1, <1>5
  <2>2. u \in Row
    BY <1>2
  <2>3. \A w \in rows' : ~ Same(v, w)
    BY <1>1, <1>2, <1>3, <2>1, <2>2 DEF AloneInv
  <2>4. \A w \in job'[t].rows : Same(v, w) => v = w
    BY <1>1, <1>2, <1>3, <2>1, <2>2 DEF AloneInv
  <2>5. ASSUME NEW d \in Sessions \ {t}, NEW w \in job'[d].rows PROVE ~ Same(v, w)
    BY <1>1, <1>2, <1>3, <2>1, <2>2, <2>5 DEF AloneInv
  <2>6. QED BY <2>3, <2>4, <2>5
<1>6. QED BY <1>4, <1>5 DEF AloneInv, Same

LEMMA AloneStep ==
  ASSUME TypeInv, AloneInv, [Next]_vars
  PROVE  AloneInv'
<1>1. PipelineType BY DEF TypeInv
<1>2. ASSUME NEW s \in Sessions, NEW op \in Ops, NEW run, NEW lines \in Range(Batches) \cup {<<>>},
             Begin(s, op, run, lines),
             IF op = "create" THEN lastId < MaxRuns ELSE run \in 1..lastId
      PROVE  AloneInv'
  BY <1>1, <1>2, BeginOfEvents, AloneWorks
<1>3. ASSUME NEW s \in Sessions, Statements(s) PROVE AloneInv'
  BY <1>1, <1>3, StatementRows, AloneWorks
<1>4. ASSUME NEW s \in Sessions, Fails(s) PROVE AloneInv'
  <2>1. Works(s, "idle", NoJob) /\ NoJob.rows = {}
    BY <1>1, <1>4, FailsStep DEF NoJob
  <2>2. QED BY <1>1, <2>1, AloneWorks
<1>5. ASSUME UNCHANGED <<store, at, job>> PROVE AloneInv'
  BY <1>5 DEF AloneInv, Same, store
<1>6. QED BY <1>1, <1>2, <1>3, <1>4, <1>5, CommitAlone, TickAlone, PipelineCases

LEMMA RowsInit == Init => EventsInv /\ AloneInv
BY DEF Init, PipelineInit, EventsInv, AloneInv, JobOfEvents, NoJob

\* A flow is classified once in a run, however many requests classify it at the
\* same time, and from events that are in the run, with no more hits than they
\* have: those that are ingested meanwhile add to them.
THEOREM OneVerdictAlways == Spec => []OneVerdictPerFlow
<1>1. EventsInv /\ AloneInv => OneVerdictPerFlow
  BY DEF EventsInv, AloneInv, OneVerdictPerFlow, OfEvents, Same
<1>2. TypeInv /\ EventsInv /\ AloneInv /\ [Next]_vars => EventsInv' /\ AloneInv'
  BY EventsStep, AloneStep
<1>3. QED BY <1>1, <1>2, RowsInit, TypeInvInit, TypeInvStep, PTL DEF Spec

-----------------------------------------------------------------------------
(* The matrix is one build's                                                *)

\* What two builders have read: one has read all that the other has.
Comparable(b, c) == Range(b) \subseteq Range(c) \/ Range(c) \subseteq Range(b)

\* A builder, at a place: it has read classifications of the run; it deletes all
\* contracts that there are or none; what it inserts is none that is left, and is
\* all of its matrix in the end.
BuildFits(j, place) ==
  LET here == DOMAIN contracts[j.run]
  IN  /\ Range(j.items) \subseteq Found(j.run)
      /\ Comparable(j.items, basis[j.run])
      /\ place \in {"existing", "delete"} => j.gone = {} /\ j.put = NoContracts
      /\ place = "delete" => j.seen \in {{}, here}
      /\ j.gone \in {{}, here}
      /\ j.put = [p \in DOMAIN j.put |-> BuildContracts(j.items)[p]]
      /\ DOMAIN j.put \cap (here \ j.gone) = {}
      /\ place = "done" => DOMAIN j.put = DOMAIN BuildContracts(j.items)

\* Two builders of one matrix: neither deletes or inserts what the other does.
Apart(j, i) ==
  /\ j.gone \cap i.gone = {}
  /\ DOMAIN j.put \cap DOMAIN i.put = {}
  /\ Comparable(j.items, i.items)

MatrixJob(j, place) ==
  IF j.op = "matrix" THEN BuildFits(j, place) ELSE j.gone = {} /\ j.put = NoContracts

RunMatrix(r) ==
  /\ contracts[r] = BuildContracts(basis[r])
  /\ basis[r] \in Seq(Item) /\ Range(basis[r]) \subseteq Found(r)
  /\ status[r] # "complete" => contracts[r] = NoContracts

SameMatrix(j, i) == j.op = "matrix" /\ i.op = "matrix" /\ j.run = i.run

MatrixInv ==
  /\ \A r \in Runs : RunMatrix(r)
  /\ \A s \in Sessions : MatrixJob(job[s], at[s])
  /\ \A s, d \in Sessions : s # d /\ SameMatrix(job[s], job[d]) => Apart(job[s], job[d])

LEMMA BuiltFunction ==
  ASSUME NEW c \in Seq(Item)
  PROVE  /\ BuildContracts(c) = [p \in DOMAIN BuildContracts(c) |-> BuildContracts(c)[p]]
         /\ DOMAIN BuildContracts(c) = {Pair(x.flow.key) : x \in Range(c)}
         /\ c = <<>> => BuildContracts(c) = NoContracts
         /\ DOMAIN BuildContracts(c) = {} => c = <<>>
<1>1. Len(c) \in Nat /\ DOMAIN c = 1..Len(c)
  OBVIOUS
<1>2. PICK B : /\ B[0] = NoContracts
               /\ \A n \in 1..Len(c) : B[n] = AddClassified(B[n - 1], c[n])
               /\ BuildContracts(c) = B[Len(c)]
  BY <1>1, BuiltTurns
<1> DEFINE built == BuildContracts(c)
<1>3. built = [p \in DOMAIN built |-> built[p]]
  <2>1. CASE Len(c) = 0
    <3>1. built = NoContracts BY <1>2, <2>1
    <3>2. QED BY <3>1 DEF NoContracts
  <2>2. CASE Len(c) # 0
    <3>1. \A C, i : AddClassified(C, i) = [p \in DOMAIN AddClassified(C, i) |-> AddClassified(C, i)[p]]
      BY DEF AddClassified
    <3>2. built = AddClassified(B[Len(c) - 1], c[Len(c)])
      BY <1>1, <1>2, <2>2
    <3>3. QED BY <3>1, <3>2
  <2>3. QED BY <2>1, <2>2
<1>4. DOMAIN built = {Pair(x.flow.key) : x \in Range(c)}
  <2>1. \A n \in DOMAIN c : KeyForm(c[n].flow.key)
    <3>1. \A k \in Key : KeyForm(k)
      BY DEF KeyForm, Key
    <3>2. \A x \in Item : x.flow.key \in Key
      BY DEF Item, Flow
    <3>3. \A n \in DOMAIN c : c[n] \in Item
      OBVIOUS
    <3> HIDE DEF built
    <3>4. QED BY <3>1, <3>2, <3>3
  <2>2. RightFor(built, {c[n] : n \in DOMAIN c})
    BY <1>1, <2>1, BuiltRight
  <2>3. {c[n] : n \in DOMAIN c} = Range(c)
    BY DEF Range
  <2> HIDE DEF built
  <2>4. QED BY <2>2, <2>3 DEF RightFor
<1>5. c = <<>> => built = NoContracts
  BY <1>2
<1>6. DOMAIN built = {} => c = <<>>
  <2>1. ASSUME c # <<>> PROVE c[1] \in Range(c)
    BY <1>1, <2>1 DEF Range
  <2> HIDE DEF built
  <2>2. QED BY <1>4, <2>1
<1>7. QED BY <1>3, <1>4, <1>5, <1>6

LEMMA MatrixWorks ==
  ASSUME PipelineType, MatrixInv, NEW s \in Sessions, NEW place, NEW j, Works(s, place, j),
         MatrixJob(j, place),
         \A d \in Sessions \ {s} : SameMatrix(j, job[d]) => Apart(j, job[d])
  PROVE  MatrixInv'
<1>1. /\ job'[s] = j /\ \A t \in Sessions \ {s} : job'[t] = job[t]
      /\ at'[s] = place /\ \A t \in Sessions \ {s} : at'[t] = at[t]
      /\ UNCHANGED <<rows, contracts, basis, status>>
  BY DEF Works, PipelineType, JobsType
<1>2. \A r : Found(r)' = Found(r)
  BY <1>1 DEF Found, RowsOf
<1>3. \A i, at0 : MatrixJob(i, at0)' <=> MatrixJob(i, at0)
  BY <1>1, <1>2 DEF MatrixJob, BuildFits
<1>4. \A r \in Runs : RunMatrix(r)'
  BY <1>1, <1>2 DEF MatrixInv, RunMatrix
<1>5. \A i, k : Apart(i, k) => Apart(k, i)
  BY DEF Apart, Comparable
<1>6. \A i, k : SameMatrix(i, k) => SameMatrix(k, i)
  BY DEF SameMatrix
<1>7. ASSUME NEW t \in Sessions PROVE MatrixJob(job[t], at[t])'
  <2>1. MatrixJob(job'[t], at'[t])
    BY <1>1 DEF MatrixInv
  <2>2. QED BY <1>3, <2>1
<1>8. ASSUME NEW t \in Sessions, NEW d \in Sessions, t # d, SameMatrix(job'[t], job'[d])
      PROVE  Apart(job'[t], job'[d])
  BY <1>1, <1>5, <1>6, <1>8 DEF MatrixInv
<1>9. \A t, d \in Sessions : t # d /\ SameMatrix(job[t], job[d])' => Apart(job[t], job[d])'
  BY <1>8 DEF SameMatrix, Apart, Comparable
<1>10. QED BY <1>4, <1>7, <1>9 DEF MatrixInv

\* What a builder finds is what a session that begins compares with: all others
\* have read part of it.
LEMMA BeginMatrix ==
  ASSUME PipelineType, MatrixInv, NEW s \in Sessions, NEW op \in Ops, NEW run,
         NEW lines \in Range(Batches) \cup {<<>>}, Begin(s, op, run, lines),
         IF op = "create" THEN lastId < MaxRuns ELSE run \in 1..lastId
  PROVE  MatrixInv'
<1>1. op = "create" => lastId < MaxRuns
  OBVIOUS
<1>2. op # "create" => run \in 1..lastId
  OBVIOUS
<1>3. PICK place \in Place : \E j :
              /\ Works(s, place, j) /\ JobForm(j) /\ JobType(j) /\ JobFits(j, place, lastId')
              /\ \/ /\ op = "create" /\ place = "done" /\ lastId' = lastId + 1
                    /\ j = Job("create", lastId + 1, <<>>, {}, <<>>, {})
                 \/ /\ op = "ingest" /\ place = "done" /\ lastId' = lastId /\ status[run] # "none"
                    /\ j = Job("ingest", run, lines, {}, <<>>, {})
                 \/ /\ op = "classify" /\ place = "lookup" /\ lastId' = lastId /\ status[run] # "none"
                    /\ j = Job("classify", run, <<>>, Aggregate(events[run]), <<>>, Verdicts)
                 \/ /\ op = "matrix" /\ place = "existing" /\ lastId' = lastId /\ status[run] # "none"
                    /\ j = Job("matrix", run, <<>>, {}, SetToSeq(Found(run)), {})
                 \/ /\ op # "create" /\ place = "refused" /\ lastId' = lastId
                    /\ j = NoJob
  BY <1>1, <1>2, BeginStep
<1>4. PICK j : /\ Works(s, place, j)
               /\ \/ j.op # "matrix" /\ j.gone = {} /\ j.put = NoContracts
                  \/ /\ op = "matrix" /\ place = "existing"
                     /\ j = Job("matrix", run, <<>>, {}, SetToSeq(Found(run)), {})
  BY <1>3 DEF Job, NoJob
<1>5. CASE j.op # "matrix" /\ j.gone = {} /\ j.put = NoContracts
  <2>1. MatrixJob(j, place) /\ \A d \in Sessions : ~ SameMatrix(j, job[d])
    BY <1>5 DEF MatrixJob, SameMatrix
  <2>2. QED BY <1>4, <2>1, MatrixWorks
<1>6. CASE /\ op = "matrix" /\ place = "existing"
           /\ j = Job("matrix", run, <<>>, {}, SetToSeq(Found(run)), {})
  <2>1. /\ j.op = "matrix" /\ j.run = run /\ j.items = SetToSeq(Found(run))
        /\ j.seen = {} /\ j.gone = {} /\ j.put = NoContracts
    BY <1>6, JobOfRequest
  <2>2. Range(j.items) = Found(run) /\ run \in Runs
    <3>1. run \in 1..lastId /\ lastId \in 0..MaxRuns
      BY <1>2, <1>6 DEF PipelineType, StoreType
    <3>2. QED BY <2>1, <3>1, FoundType, RunAssumption DEF Runs
  <2>3. BuildFits(j, place)
    <3>1. Comparable(j.items, basis[run])
      BY <2>2 DEF MatrixInv, RunMatrix, Comparable
    <3>2. /\ j.put = [p \in DOMAIN j.put |-> BuildContracts(j.items)[p]]
          /\ DOMAIN j.put = {}
      BY <2>1 DEF NoContracts
    <3>3. place = "existing" BY <1>6
    <3>4. QED BY <2>1, <2>2, <3>1, <3>2, <3>3 DEF BuildFits
  <2>4. ASSUME NEW d \in Sessions, SameMatrix(j, job[d]) PROVE Apart(j, job[d])
    <3>1. job[d].op = "matrix" /\ job[d].run = run
      BY <2>1, <2>4 DEF SameMatrix
    <3>2. Range(job[d].items) \subseteq Found(run)
      BY <3>1 DEF MatrixInv, MatrixJob, BuildFits
    <3>3. DOMAIN j.put = {} BY <2>1 DEF NoContracts
    <3>4. QED BY <2>1, <2>2, <3>2, <3>3 DEF Apart, Comparable
  <2>5. MatrixJob(j, place) BY <2>1, <2>3 DEF MatrixJob
  <2>6. QED BY <1>4, <2>4, <2>5, MatrixWorks
<1>7. QED BY <1>4, <1>5, <1>6

\* The statements of the other requests leave the fields of a builder as they are.
LEMMA OtherStatementMatrix ==
  ASSUME PipelineType, MatrixInv, NEW s \in Sessions, Lookup(s) \/ Ask(s) \/ Upsert(s)
  PROVE  MatrixInv'
<1>1. job[s].op = "classify"
  BY JobsTyped DEF JobAt, JobFits, Lookup, Ask, Upsert
<1>2. \E place, j : Works(s, place, j) /\ KeepsRequest(j, job[s]) /\ KeepsMatrix(j, job[s])
  <2>1. CASE Lookup(s)
    BY <2>1, LookupStep
  <2>2. CASE Ask(s)
    BY <2>2, AskStep
  <2>3. CASE Upsert(s)
    BY <2>3, UpsertStep
  <2>4. QED BY <2>1, <2>2, <2>3
<1>3. PICK place, j : Works(s, place, j) /\ KeepsRequest(j, job[s]) /\ KeepsMatrix(j, job[s])
  BY <1>2
<1>4. j.op = "classify" /\ j.gone = {} /\ j.put = NoContracts
  BY <1>1, <1>3 DEF KeepsRequest, KeepsMatrix, MatrixInv, MatrixJob
<1>5. MatrixJob(j, place) /\ \A d \in Sessions : ~ SameMatrix(j, job[d])
  BY <1>4 DEF MatrixJob, SameMatrix
<1>6. QED BY <1>3, <1>5, MatrixWorks

LEMMA ReadExistingMatrix ==
  ASSUME PipelineType, MatrixInv, NEW s \in Sessions, ReadExisting(s)
  PROVE  MatrixInv'
<1>1. JobForm(job[s]) /\ job[s].op = "matrix" /\ at[s] = "existing"
  BY JobsTyped DEF JobAt, JobFits, ReadExisting
<1>2. PICK j : /\ Works(s, "delete", j)
               /\ j = [job[s] EXCEPT !.seen = DOMAIN contracts[job[s].run]]
  BY ReadExistingStep
<1>3. /\ j.op = "matrix" /\ j.run = job[s].run /\ j.items = job[s].items
      /\ j.gone = job[s].gone /\ j.put = job[s].put /\ j.seen = DOMAIN contracts[j.run]
  BY <1>1, <1>2 DEF JobForm
<1>4. BuildFits(job[s], "existing")
  BY <1>1 DEF MatrixInv, MatrixJob
<1>5. BuildFits(j, "delete")
  BY <1>3, <1>4 DEF BuildFits
<1>6. MatrixJob(j, "delete") BY <1>3, <1>5 DEF MatrixJob
<1>7. ASSUME NEW d \in Sessions \ {s}, SameMatrix(j, job[d]) PROVE Apart(j, job[d])
  <2>1. SameMatrix(job[s], job[d]) BY <1>1, <1>3, <1>7 DEF SameMatrix
  <2>2. Apart(job[s], job[d]) BY <2>1 DEF MatrixInv
  <2>3. QED BY <1>3, <2>2 DEF Apart
<1>8. QED BY <1>2, <1>6, <1>7, MatrixWorks

\* It deletes what it saw, if no other has: either all that there is, or nothing,
\* when the contracts that it saw are gone meanwhile.
LEMMA DeleteSeenMatrix ==
  ASSUME PipelineType, MatrixInv, NEW s \in Sessions, DeleteSeen(s)
  PROVE  MatrixInv'
<1>1. JobForm(job[s]) /\ job[s].op = "matrix" /\ at[s] = "delete"
  BY JobsTyped DEF JobAt, JobFits, DeleteSeen
<1>2. DeleteBlockers(s) = {} /\ \E place \in {"insert", "done"} : \E i :
        /\ Works(s, place, i) /\ JobForm(i) /\ JobType(i) /\ JobAt(i, place)
        /\ i = [job[s] EXCEPT !.gone = job[s].seen]
        /\ place = "done" <=> job[s].items = <<>>
  BY DeleteSeenStep
<1>3. PICK place \in {"insert", "done"} : \E i :
        /\ Works(s, place, i) /\ JobForm(i) /\ JobType(i) /\ JobAt(i, place)
        /\ i = [job[s] EXCEPT !.gone = job[s].seen]
        /\ place = "done" <=> job[s].items = <<>>
  BY <1>2
<1>4. PICK j : /\ Works(s, place, j) /\ JobType(j)
               /\ j = [job[s] EXCEPT !.gone = job[s].seen]
               /\ place = "done" <=> job[s].items = <<>>
  BY <1>3
<1>5. /\ j.op = "matrix" /\ j.run = job[s].run /\ j.items = job[s].items
      /\ j.gone = job[s].seen /\ j.put = job[s].put
  BY <1>1, <1>4 DEF JobForm
<1>6. BuildFits(job[s], "delete")
  BY <1>1 DEF MatrixInv, MatrixJob
<1>7. j.put = NoContracts /\ DOMAIN j.put = {}
  BY <1>5, <1>6 DEF BuildFits, NoContracts
<1>8. BuildFits(j, place)
  <2>1. place = "done" => DOMAIN BuildContracts(j.items) = {}
    <3>1. j.items = <<>> => BuildContracts(j.items) = NoContracts
      BY <1>4, BuiltFunction DEF JobType
    <3>2. QED BY <1>4, <1>5, <3>1 DEF NoContracts
  <2>2. place \notin {"existing", "delete"} OBVIOUS
  <2>3. j.put = [p \in DOMAIN j.put |-> BuildContracts(j.items)[p]]
    BY <1>7 DEF NoContracts
  <2>4. QED BY <1>5, <1>6, <1>7, <2>1, <2>2, <2>3 DEF BuildFits
<1>9. MatrixJob(j, place) BY <1>5, <1>8 DEF MatrixJob
<1>10. ASSUME NEW d \in Sessions \ {s}, SameMatrix(j, job[d]) PROVE Apart(j, job[d])
  <2>1. SameMatrix(job[s], job[d]) BY <1>1, <1>5, <1>10 DEF SameMatrix
  <2>2. Apart(job[s], job[d]) BY <2>1 DEF MatrixInv
  <2>3. job[d].gone \cap job[s].seen = {}
    BY <1>2, <2>1 DEF DeleteBlockers, SameRun, SameMatrix
  <2>4. QED BY <1>5, <1>7, <2>2, <2>3 DEF Apart
<1>11. QED BY <1>4, <1>9, <1>10, MatrixWorks

\* It inserts a contract that no other has inserted and that is not there, or that
\* it has itself deleted.
LEMMA InsertContractMatrix ==
  ASSUME PipelineType, MatrixInv, NEW s \in Sessions, InsertContract(s)
  PROVE  MatrixInv'
<1>1. JobForm(job[s]) /\ job[s].op = "matrix" /\ at[s] = "insert"
  BY JobsTyped DEF JobAt, JobFits, InsertContract
<1> DEFINE pair == NextPair(s)
<1>2. /\ InsertBlockers(s) = {} /\ ~ HasContract(s, NextPair(s))
      /\ \E place \in {"insert", "done"} : \E i :
           /\ Works(s, place, i) /\ JobForm(i) /\ JobType(i) /\ JobAt(i, place)
           /\ i = [job[s] EXCEPT !.put = [p \in DOMAIN @ \cup {NextPair(s)} |-> Wanted(s)[p]]]
           /\ place = "done" <=> DOMAIN i.put = DOMAIN Wanted(s)
  BY InsertContractStep
<1>3. PICK place \in {"insert", "done"} : \E i :
           /\ Works(s, place, i) /\ JobForm(i) /\ JobType(i) /\ JobAt(i, place)
           /\ i = [job[s] EXCEPT !.put = [p \in DOMAIN @ \cup {NextPair(s)} |-> Wanted(s)[p]]]
           /\ place = "done" <=> DOMAIN i.put = DOMAIN Wanted(s)
  BY <1>2
<1>4. PICK j : /\ Works(s, place, j)
               /\ j = [job[s] EXCEPT !.put = [p \in DOMAIN @ \cup {NextPair(s)} |-> Wanted(s)[p]]]
               /\ place = "done" <=> DOMAIN j.put = DOMAIN Wanted(s)
  BY <1>3
<1>5. /\ j.op = "matrix" /\ j.run = job[s].run /\ j.items = job[s].items /\ j.gone = job[s].gone
      /\ j.put = [p \in DOMAIN job[s].put \cup {pair} |-> BuildContracts(j.items)[p]]
  BY <1>1, <1>4 DEF JobForm, Wanted
<1>6. DOMAIN j.put = DOMAIN job[s].put \cup {pair}
  BY <1>5
<1>7. BuildFits(job[s], "insert")
  BY <1>1 DEF MatrixInv, MatrixJob
<1>8. pair \notin DOMAIN contracts[j.run] \ j.gone
  BY <1>2, <1>5 DEF HasContract
<1>9. \A d \in Sessions \ {s} : job[d].run = job[s].run => pair \notin DOMAIN job[d].put
  BY <1>2 DEF InsertBlockers, SameRun
<1> HIDE DEF pair
<1>10. BuildFits(j, place)
  <2>1. j.put = [p \in DOMAIN j.put |-> BuildContracts(j.items)[p]]
    BY <1>5, <1>6
  <2>2. place = "done" => DOMAIN j.put = DOMAIN BuildContracts(j.items)
    BY <1>4, <1>5 DEF Wanted
  <2>3. DOMAIN j.put \cap (DOMAIN contracts[j.run] \ j.gone) = {}
    BY <1>5, <1>6, <1>7, <1>8 DEF BuildFits
  <2>4. place \notin {"existing", "delete"} OBVIOUS
  <2>5. QED BY <1>5, <1>7, <2>1, <2>2, <2>3, <2>4 DEF BuildFits
<1>11. MatrixJob(j, place) BY <1>5, <1>10 DEF MatrixJob
<1>12. ASSUME NEW d \in Sessions \ {s}, SameMatrix(j, job[d]) PROVE Apart(j, job[d])
  <2>1. SameMatrix(job[s], job[d]) BY <1>1, <1>5, <1>12 DEF SameMatrix
  <2>2. Apart(job[s], job[d]) BY <2>1 DEF MatrixInv
  <2>3. pair \notin DOMAIN job[d].put
    BY <1>9, <2>1 DEF SameMatrix
  <2>4. QED BY <1>5, <1>6, <2>2, <2>3 DEF Apart
<1>13. QED BY <1>4, <1>11, <1>12, MatrixWorks

KeepsBuild(j, i) == j.op = i.op /\ j.run = i.run /\ j.items = i.items /\ KeepsMatrix(j, i)

\* Other steps leave the contracts, what builders have read is still classified,
\* and a complete run stays so.
LEMMA MatrixRests ==
  ASSUME PipelineType, MatrixInv,
         \A r \in Runs : /\ contracts'[r] = contracts[r] /\ basis'[r] = basis[r]
                         /\ Found(r) \subseteq Found(r)'
                         /\ status[r] = "complete" => status'[r] = "complete",
         \A d \in Sessions : \/ at'[d] = at[d] /\ KeepsBuild(job'[d], job[d])
                             \/ job'[d] = NoJob
  PROVE  MatrixInv'
<1>1. \A r \in Runs : RunMatrix(r)'
  BY DEF MatrixInv, RunMatrix
<1>2. NoJob.op = "none" /\ NoJob.gone = {} /\ NoJob.put = NoContracts
  BY DEF NoJob
<1>3. ASSUME NEW d \in Sessions PROVE MatrixJob(job[d], at[d])'
  <2>1. CASE job'[d] = NoJob
    BY <1>2, <2>1 DEF MatrixJob
  <2>2. CASE at'[d] = at[d] /\ KeepsBuild(job'[d], job[d])
    <3>1. MatrixJob(job[d], at[d])
      BY DEF MatrixInv
    <3>2. job[d].op = "matrix" => job[d].run \in Runs
      <4>1. /\ JobAt(job[d], at[d]) /\ lastId \in 0..MaxRuns
        BY JobsTyped
      <4>2. QED BY <4>1, RunAssumption DEF JobAt, JobFits, Runs
    <3>3. CASE job[d].op = "matrix"
      <4> PICK r \in Runs : r = job[d].run
        BY <3>2, <3>3
      <4>1. /\ Found(r) \subseteq Found(r)' /\ contracts'[r] = contracts[r] /\ basis'[r] = basis[r]
        OBVIOUS
      <4>2. BuildFits(job[d], at[d])
        BY <3>1, <3>3 DEF MatrixJob
      <4>3. job'[d].run = r /\ job'[d].items = job[d].items /\ KeepsMatrix(job'[d], job[d])
        BY <2>2 DEF KeepsBuild
      <4>4. Range(job[d].items)' \subseteq Found(job[d].run)'
        BY <4>1, <4>2, <4>3 DEF BuildFits, Found, RowsOf
      <4>5. BuildFits(job[d], at[d])'
        BY <2>2, <4>1, <4>2, <4>3, <4>4 DEF BuildFits, KeepsMatrix, Comparable
      <4>6. QED BY <2>2, <3>3, <4>5 DEF MatrixJob, KeepsBuild
    <3>4. CASE job[d].op # "matrix"
      BY <2>2, <3>1, <3>4 DEF MatrixJob, KeepsBuild, KeepsMatrix
    <3>5. QED BY <3>3, <3>4
  <2>3. QED BY <2>1, <2>2
<1>4. ASSUME NEW t \in Sessions, NEW d \in Sessions, t # d, SameMatrix(job'[t], job'[d])
      PROVE  Apart(job'[t], job'[d])
  <2>1. KeepsBuild(job'[t], job[t]) /\ KeepsBuild(job'[d], job[d])
    BY <1>2, <1>4 DEF SameMatrix
  <2>2. Apart(job[t], job[d])
    BY <1>4, <2>1 DEF SameMatrix, KeepsBuild, MatrixInv
  <2>3. QED BY <2>1, <2>2 DEF Apart, KeepsBuild, KeepsMatrix
<1>5. \A t, d \in Sessions : t # d /\ SameMatrix(job[t], job[d])' => Apart(job[t], job[d])'
  BY <1>4 DEF SameMatrix, Apart, Comparable
<1>6. QED BY <1>1, <1>3, <1>5 DEF MatrixInv

\* A builder that is done: the contracts are of what it has read, and it has deleted
\* all others, or it changes nothing.
LEMMA BuildOutcome ==
  ASSUME PipelineType, MatrixInv, NEW s \in Sessions, Commit(s), job[s].op = "matrix"
  PROVE  LET run == job[s].run
         IN  \/ /\ contracts'[run] = contracts[run] /\ basis'[run] = basis[run] /\ job[s].gone = {}
             \/ /\ contracts'[run] = BuildContracts(job[s].items) /\ basis'[run] = job[s].items
                /\ job[s].gone = DOMAIN contracts[run] /\ job[s].put = BuildContracts(job[s].items)
<1> DEFINE run   == job[s].run
           here  == DOMAIN contracts[run]
           items == job[s].items
           built == BuildContracts(items)
<1>1. /\ at[s] = "done" /\ run \in Runs /\ contracts'[run] = Replaced(s)
      /\ basis'[run] = IF items # <<>> \/ job[s].gone # {} THEN items ELSE basis[run]
  BY CommitStep
<1>2. items \in Seq(Item)
  BY JobsTyped DEF JobType
<1>3. /\ built = [p \in DOMAIN built |-> built[p]]
      /\ DOMAIN built = {Pair(x.flow.key) : x \in Range(items)}
      /\ DOMAIN built = {} => items = <<>>
      /\ items = <<>> => DOMAIN built = {}
  <2>1. DOMAIN NoContracts = {} BY DEF NoContracts
  <2>2. QED BY <1>2, <2>1, BuiltFunction
<1>4. RunMatrix(run)
  BY <1>1 DEF MatrixInv
<1>5. /\ contracts[run] = [p \in here |-> contracts[run][p]]
      /\ here = {Pair(x.flow.key) : x \in Range(basis[run])}
      /\ here = {} => basis[run] = <<>>
  BY <1>4, BuiltFunction DEF RunMatrix
<1>6. BuildFits(job[s], "done")
  BY <1>1 DEF MatrixInv, MatrixJob
<1>7. /\ job[s].gone \in {{}, here} /\ Comparable(items, basis[run])
      /\ DOMAIN job[s].put = DOMAIN built
      /\ DOMAIN job[s].put \cap (here \ job[s].gone) = {}
      /\ job[s].put = [p \in DOMAIN job[s].put |-> built[p]]
  BY <1>6 DEF BuildFits
<1>8. Replaced(s) = [p \in (here \ job[s].gone) \cup DOMAIN job[s].put |->
                       IF p \in DOMAIN job[s].put THEN job[s].put[p] ELSE contracts[run][p]]
  BY DEF Replaced
<1> HIDE DEF built, here, items, run
<1>9. job[s].put = built
  BY <1>3, <1>7
<1>10. CASE job[s].gone = here
  <2>1. Replaced(s) = [p \in DOMAIN built |-> built[p]]
    BY <1>8, <1>9, <1>10
  <2>2. basis'[run] = items
    <3>1. CASE items # <<>> \/ job[s].gone # {}
      BY <1>1, <3>1
    <3>2. CASE items = <<>> /\ job[s].gone = {}
      BY <1>1, <1>5, <1>10, <3>2
    <3>3. QED BY <3>1, <3>2
  <2>3. QED BY <1>1, <1>3, <1>9, <1>10, <2>1, <2>2 DEF run, here, items, built
<1>11. CASE job[s].gone = {} /\ here # {}
  <2>1. ASSUME items # <<>> PROVE FALSE
    <3>1. \A x : x \in Range(items) /\ x \in Range(basis[run]) => Pair(x.flow.key) \in DOMAIN built \cap here
      BY <1>3, <1>5
    <3>2. Range(items) # {} /\ Range(basis[run]) # {}
      BY <1>3, <1>5, <1>11, <2>1
    <3>3. \E x : x \in Range(items) /\ x \in Range(basis[run])
      BY <1>7, <3>2 DEF Comparable
    <3>4. QED BY <1>7, <1>11, <3>1, <3>3
  <2>2. DOMAIN job[s].put = {}
    BY <1>3, <1>7, <2>1
  <2>3. Replaced(s) = [p \in here |-> contracts[run][p]]
    BY <1>8, <1>11, <2>2
  <2>4. QED BY <1>1, <1>5, <1>11, <2>1, <2>3 DEF run, here, items, built
<1>12. QED BY <1>7, <1>10, <1>11

LEMMA CommitFound ==
  ASSUME PipelineType, NEW s \in Sessions, Commit(s)
  PROVE  \A r \in Runs : Found(r) \subseteq Found(r)'
<1>1. rows \subseteq rows'
  BY CommitStep
<1>2. QED BY <1>1 DEF Found, RowsOf

LEMMA CommitOthers ==
  ASSUME PipelineType, NEW s \in Sessions, Commit(s)
  PROVE  \A d \in Sessions \ {s} :
              /\ at'[d] = at[d]
              /\ KeepsRequest(job'[d], job[d]) /\ KeepsLists(job'[d], job[d])
              /\ job'[d].gone = job[d].gone /\ job'[d].put = job[d].put
              /\ job'[d].seen = IF job[d].run = job[s].run THEN job[d].seen \ job[s].gone ELSE job[d].seen
BY CommitStep

\* A build that is committed: what the other builders of the run have done stays
\* right, for they have deleted nothing, and will not.
LEMMA CommitBuild ==
  ASSUME TypeInv, RunsInv, MatrixInv, NEW s \in Sessions, Commit(s), job[s].op = "matrix",
         contracts'[job[s].run] = BuildContracts(job[s].items), basis'[job[s].run] = job[s].items,
         job[s].gone = DOMAIN contracts[job[s].run], job[s].put = BuildContracts(job[s].items)
  PROVE  MatrixInv'
<1> DEFINE run   == job[s].run
           here  == DOMAIN contracts[run]
           items == job[s].items
<1>1. PipelineType BY DEF TypeInv
<1>2. /\ run \in Runs /\ job'[s] = NoJob /\ at[s] = "done"
      /\ \A r \in Runs : r # run => status'[r] = status[r] /\ contracts'[r] = contracts[r] /\ basis'[r] = basis[r]
      /\ \A d \in Sessions \ {s} :
           /\ at'[d] = at[d]
           /\ KeepsRequest(job'[d], job[d]) /\ KeepsLists(job'[d], job[d])
           /\ job'[d].gone = job[d].gone /\ job'[d].put = job[d].put
           /\ job'[d].seen = IF job[d].run = run THEN job[d].seen \ here ELSE job[d].seen
  <2>1. /\ job[s].run \in Runs /\ job'[s] = NoJob /\ at[s] = "done"
        /\ \A r \in Runs : r # job[s].run =>
             status'[r] = status[r] /\ contracts'[r] = contracts[r] /\ basis'[r] = basis[r]
    BY <1>1, CommitStep
  <2>2. ASSUME NEW d \in Sessions \ {s}
        PROVE  /\ at'[d] = at[d]
               /\ KeepsRequest(job'[d], job[d]) /\ KeepsLists(job'[d], job[d])
               /\ job'[d].gone = job[d].gone /\ job'[d].put = job[d].put
               /\ job'[d].seen = IF job[d].run = job[s].run THEN job[d].seen \ job[s].gone ELSE job[d].seen
    BY <1>1, CommitOthers
  <2>3. QED BY <2>1, <2>2
<1>3. NoJob.op = "none" /\ NoJob.gone = {} /\ NoJob.put = NoContracts
  BY DEF NoJob
<1>4. items \in Seq(Item) /\ Range(items) \subseteq Found(run)
  <2>1. items \in Seq(Item)
    BY <1>1, JobsTyped DEF JobType
  <2>2. QED BY <1>2, <2>1 DEF MatrixInv, MatrixJob, BuildFits
<1>5. \A r \in Runs : Found(r) \subseteq Found(r)'
  BY <1>1, CommitFound
<1>6. status'[run] = "complete"
  BY CommitOnward
<1>7. ASSUME NEW r \in Runs PROVE RunMatrix(r)'
  <2>1. CASE r = run
    BY <1>4, <1>5, <1>6, <2>1 DEF RunMatrix
  <2>2. CASE r # run
    BY <1>2, <1>5, <2>2 DEF RunMatrix, MatrixInv
  <2>3. QED BY <2>1, <2>2
<1>8. \A d \in Sessions \ {s} : /\ job'[d].op = job[d].op /\ job'[d].run = job[d].run
                                /\ job'[d].items = job[d].items
                                /\ job'[d].gone = job[d].gone /\ job'[d].put = job[d].put
  BY <1>2 DEF KeepsRequest, KeepsLists
<1>9. ASSUME NEW d \in Sessions PROVE MatrixJob(job[d], at[d])'
  <2>1. CASE d = s
    BY <1>2, <1>3, <2>1 DEF MatrixJob
  <2>2. CASE d # s /\ job[d].op # "matrix"
    <3>1. MatrixJob(job[d], at[d])
      BY DEF MatrixInv
    <3>2. QED BY <1>8, <2>2, <3>1 DEF MatrixJob
  <2>3. CASE d # s /\ job[d].op = "matrix"
    <3>1. BuildFits(job[d], at[d])
      BY <2>3 DEF MatrixInv, MatrixJob
    <3>2. job[d].run \in Runs
      <4>1. JobAt(job[d], at[d]) /\ lastId \in 0..MaxRuns
        BY <1>1, JobsTyped
      <4>2. QED BY <2>3, <4>1, RunAssumption DEF JobAt, JobFits, Runs
    <3> PICK r \in Runs : r = job[d].run
      BY <3>2
    <3>3. /\ job'[d].op = "matrix" /\ job'[d].run = r /\ job'[d].items = job[d].items
          /\ job'[d].gone = job[d].gone /\ job'[d].put = job[d].put /\ at'[d] = at[d]
      BY <1>2, <1>8, <2>3
    <3>4. Range(job[d].items)' \subseteq Found(job[d].run)'
      BY <1>5, <3>1, <3>3 DEF BuildFits, Found, RowsOf
    <3>5. CASE r = run
      <4>1. Apart(job[s], job[d])
        BY <2>3, <3>5 DEF MatrixInv, SameMatrix
      <4>2. job[d].gone = {}
        BY <3>1, <3>5, <4>1 DEF BuildFits, Apart
      <4>3. contracts'[r] = job[s].put /\ basis'[r] = items
        BY <3>5
      <4>4. Comparable(job[d].items, items)
        BY <4>1 DEF Apart, Comparable
      <4>5. DOMAIN job[d].put \cap DOMAIN job[s].put = {}
        BY <4>1 DEF Apart
      <4>6. at[d] = "delete" => job'[d].seen = {}
        BY <1>2, <2>3, <3>1, <3>5 DEF BuildFits
      <4> HIDE DEF run, here, items
      <4>7. BuildFits(job[d], at[d])'
        BY <3>1, <3>3, <3>4, <4>2, <4>3, <4>4, <4>5, <4>6 DEF BuildFits, Comparable
      <4>8. QED BY <3>3, <4>7 DEF MatrixJob
    <3>6. CASE r # run
      <4>1. contracts'[r] = contracts[r] /\ basis'[r] = basis[r] /\ job'[d].seen = job[d].seen
        BY <1>2, <2>3, <3>6
      <4> HIDE DEF run, here, items
      <4>2. BuildFits(job[d], at[d])'
        BY <3>1, <3>3, <3>4, <4>1 DEF BuildFits, Comparable
      <4>3. QED BY <3>3, <4>2 DEF MatrixJob
    <3>7. QED BY <3>5, <3>6
  <2>4. QED BY <2>1, <2>2, <2>3
<1>10. ASSUME NEW t \in Sessions, NEW d \in Sessions, t # d, SameMatrix(job'[t], job'[d])
       PROVE  Apart(job'[t], job'[d])
  <2>1. t # s /\ d # s
    BY <1>2, <1>3, <1>10 DEF SameMatrix
  <2>2. SameMatrix(job[t], job[d])
    BY <1>8, <1>10, <2>1 DEF SameMatrix
  <2>3. Apart(job[t], job[d])
    BY <1>10, <2>2 DEF MatrixInv
  <2>4. QED BY <1>8, <2>1, <2>3 DEF Apart
<1>11. \A t, d \in Sessions : t # d /\ SameMatrix(job[t], job[d])' => Apart(job[t], job[d])'
  BY <1>10 DEF SameMatrix, Apart, Comparable
<1>12. QED BY <1>7, <1>9, <1>11 DEF MatrixInv

LEMMA CommitMatrix ==
  ASSUME TypeInv, RunsInv, MatrixInv, NEW s \in Sessions, Commit(s)
  PROVE  MatrixInv'
<1>1. PipelineType BY DEF TypeInv
<1>2. \A r \in Runs : Found(r) \subseteq Found(r)'
  BY <1>1, CommitFound
<1>3. \A r \in Runs : status[r] = "complete" => status'[r] = "complete"
  BY CommitOnward DEF StatusOnward
<1>4. ASSUME \A r \in Runs : contracts'[r] = contracts[r] /\ basis'[r] = basis[r],
             job[s].gone = {}
      PROVE  MatrixInv'
  <2>1. ASSUME NEW d \in Sessions
        PROVE  \/ at'[d] = at[d] /\ KeepsBuild(job'[d], job[d])
               \/ job'[d] = NoJob
    <3>1. CASE d = s
      BY <1>1, <3>1, CommitStep
    <3>2. CASE d # s
      <4>1. /\ at'[d] = at[d]
            /\ KeepsRequest(job'[d], job[d]) /\ KeepsLists(job'[d], job[d])
            /\ job'[d].gone = job[d].gone /\ job'[d].put = job[d].put
            /\ job'[d].seen = IF job[d].run = job[s].run THEN job[d].seen \ job[s].gone ELSE job[d].seen
        <5>1. d \in Sessions \ {s} BY <3>2
        <5>2. QED BY <1>1, <5>1, CommitOthers
      <4>2. job'[d].seen = job[d].seen
        BY <1>4, <4>1
      <4>3. QED BY <4>1, <4>2 DEF KeepsBuild, KeepsRequest, KeepsLists, KeepsMatrix
    <3>3. QED BY <3>1, <3>2
  <2>2. QED BY <1>1, <1>2, <1>3, <1>4, <2>1, MatrixRests
<1>5. CASE job[s].op # "matrix"
  <2>1. job[s].gone = {}
    BY <1>5 DEF MatrixInv, MatrixJob
  <2>2. \A r \in Runs : contracts'[r] = contracts[r] /\ basis'[r] = basis[r]
    BY <1>1, <1>5, CommitStep
  <2>3. QED BY <1>4, <2>1, <2>2
<1>6. CASE job[s].op = "matrix"
  <2>1. CASE /\ contracts'[job[s].run] = contracts[job[s].run]
             /\ basis'[job[s].run] = basis[job[s].run] /\ job[s].gone = {}
    <3>1. \A r \in Runs : r # job[s].run => contracts'[r] = contracts[r] /\ basis'[r] = basis[r]
      BY <1>1, CommitStep
    <3>2. \A r \in Runs : contracts'[r] = contracts[r] /\ basis'[r] = basis[r]
      BY <2>1, <3>1
    <3>3. QED BY <1>4, <2>1, <3>2
  <2>2. CASE /\ contracts'[job[s].run] = BuildContracts(job[s].items)
             /\ basis'[job[s].run] = job[s].items
             /\ job[s].gone = DOMAIN contracts[job[s].run] /\ job[s].put = BuildContracts(job[s].items)
    BY <1>6, <2>2, CommitBuild
  <2>3. QED BY <1>1, <1>6, <2>1, <2>2, BuildOutcome
<1>7. QED BY <1>5, <1>6

LEMMA TickMatrix ==
  ASSUME PipelineType, MatrixInv, Tick
  PROVE  MatrixInv'
<1>1. /\ rows' = {Older(row) : row \in rows}
      /\ UNCHANGED <<status, contracts, basis, at>>
      /\ \A d \in Sessions :
           /\ KeepsRequest(job'[d], job[d]) /\ KeepsMatrix(job'[d], job[d])
           /\ job'[d].items = job[d].items
  BY TickStep
<1>2. rows \subseteq Row
  BY DEF PipelineType, StoreType
<1>3. \A row \in Row : Older(row).run = row.run /\ Classified(Older(row)) = Classified(row)
  BY OlderRow DEF Classified
<1>4. ASSUME NEW r \in Runs, NEW x \in Found(r) PROVE x \in Found(r)'
  <2>1. PICK row \in rows : row.run = r /\ x = Classified(row)
    BY DEF Found, RowsOf
  <2>2. Older(row) \in rows' /\ Older(row).run = r /\ x = Classified(Older(row))
    BY <1>1, <1>2, <1>3, <2>1
  <2>3. QED BY <2>2 DEF Found, RowsOf
<1>5. \A d \in Sessions : at'[d] = at[d] /\ KeepsBuild(job'[d], job[d])
  BY <1>1 DEF KeepsBuild, KeepsRequest
<1>6. \A r \in Runs : /\ contracts'[r] = contracts[r] /\ basis'[r] = basis[r]
                      /\ Found(r) \subseteq Found(r)'
                      /\ status[r] = "complete" => status'[r] = "complete"
  BY <1>1, <1>4
<1>7. QED BY <1>5, <1>6, MatrixRests

LEMMA MatrixStep ==
  ASSUME TypeInv, RunsInv, MatrixInv, [Next]_vars
  PROVE  MatrixInv'
<1>1. PipelineType BY DEF TypeInv
<1>2. ASSUME NEW s \in Sessions, NEW op \in Ops, NEW run, NEW lines \in Range(Batches) \cup {<<>>},
             Begin(s, op, run, lines),
             IF op = "create" THEN lastId < MaxRuns ELSE run \in 1..lastId
      PROVE  MatrixInv'
  BY <1>1, <1>2, BeginMatrix
<1>3. ASSUME NEW s \in Sessions, Statements(s) PROVE MatrixInv'
  BY <1>1, <1>3, OtherStatementMatrix, ReadExistingMatrix, DeleteSeenMatrix, InsertContractMatrix
  DEF Statements
<1>4. ASSUME NEW s \in Sessions, Fails(s) PROVE MatrixInv'
  <2>1. Works(s, "idle", NoJob)
    BY <1>1, <1>4, FailsStep
  <2>2. MatrixJob(NoJob, "idle") /\ \A d \in Sessions : ~ SameMatrix(NoJob, job[d])
    BY DEF MatrixJob, SameMatrix, NoJob
  <2>3. QED BY <1>1, <2>1, <2>2, MatrixWorks
<1>5. ASSUME UNCHANGED <<store, at, job>> PROVE MatrixInv'
  <2>1. UNCHANGED <<status, rows, contracts, basis, at, job>>
    BY <1>5 DEF store
  <2>2. \A r \in Runs : Found(r)' = Found(r)
    BY <2>1 DEF Found, RowsOf
  <2>3. \A d \in Sessions : at'[d] = at[d] /\ KeepsBuild(job'[d], job[d])
    BY <2>1 DEF KeepsBuild, KeepsMatrix
  <2>4. QED BY <1>1, <2>1, <2>2, <2>3, MatrixRests
<1>6. QED BY <1>1, <1>2, <1>3, <1>4, <1>5, CommitMatrix, TickMatrix, PipelineCases

LEMMA MatrixInit == Init => MatrixInv
<1> SUFFICES ASSUME Init PROVE MatrixInv
  OBVIOUS
<1>1. <<>> \in Seq(Item) /\ Range(<<>>) = {}
  BY DEF Range
<1>2. \A c \in Seq(Item) : c = <<>> => BuildContracts(c) = NoContracts
  BY BuiltFunction
<1>3. ASSUME NEW r \in Runs PROVE RunMatrix(r)
  <2>1. contracts[r] = NoContracts /\ basis[r] = <<>>
    BY DEF Init, PipelineInit
  <2>2. QED BY <1>1, <1>2, <2>1 DEF RunMatrix
<1>4. \A s \in Sessions : job[s].op = "none" /\ job[s].gone = {} /\ job[s].put = NoContracts
  BY DEF Init, PipelineInit, NoJob
<1>5. QED BY <1>3, <1>4 DEF MatrixInv, MatrixJob, SameMatrix

\* The contracts of a run are those of one build of it, however many build at the
\* same time: its basis is of classifications that the run has, and a run in
\* progress has no contracts.
THEOREM MatrixAlways == Spec => []MatrixOfOneBuild
<1>1. TypeInv /\ MatrixInv => MatrixOfOneBuild
  <2> SUFFICES ASSUME TypeInv, MatrixInv, NEW r \in Runs
               PROVE  /\ LeastPrivilege(contracts[r], basis[r])
                      /\ Range(basis[r]) \subseteq {Classified(row) : row \in RowsOf(r)}
                      /\ status[r] # "complete" => contracts[r] = NoContracts
    BY DEF MatrixOfOneBuild
  <2>1. RunMatrix(r)
    BY DEF MatrixInv
  <2>2. PICK c \in Seq(Item) : c = basis[r]
    BY <2>1 DEF RunMatrix
  <2>3. \A n \in DOMAIN c : \E e : c[n].flow.key = FlowKey(e)
    <3>1. \A k \in Key : \E e : k = FlowKey(e)
      BY DEF Key
    <3>2. \A x \in Item : x.flow.key \in Key
      BY DEF Item, Flow
    <3>3. \A n \in DOMAIN c : c[n] \in Item
      OBVIOUS
    <3>4. QED BY <3>1, <3>2, <3>3
  <2>4. Len(c) \in Nat /\ DOMAIN c = 1..Len(c)
    OBVIOUS
  <2>5. LeastPrivilege(BuildContracts(c), c)
    BY <2>3, <2>4, LeastPrivilegeAlways
  <2>6. QED BY <2>1, <2>2, <2>5 DEF RunMatrix, Found
<1>2. TypeInv /\ RunsInv /\ MatrixInv /\ [Next]_vars => RunsInv' /\ MatrixInv'
  BY RunsStep, MatrixStep
<1>3. QED BY <1>1, <1>2, RunsInit, MatrixInit, TypeInvInit, TypeInvStep, PTL DEF Spec

-----------------------------------------------------------------------------
(* A verdict is remembered                                                  *)

\* Of a flow there is no known verdict that is still within the window; or one has
\* been taken that is no older than any known verdict.
Asked(known, key) ==
  \A v \in rows : v.key = key /\ Identity(v) \in known => v.age > Window

Recalled(known, key, category) ==
  \E h \in rows :
    /\ h.key = key /\ h.category = category
    /\ \A v \in rows : v.key = key /\ Identity(v) \in known => h.age <= v.age

Minded(known, key, category) == Asked(known, key) \/ Recalled(known, key, category)

StillThere(known) == \A id \in known : \E v \in rows : Identity(v) = id

\* A flow in todo has no verdict that is known and within the window; an item and a
\* row that come of a flow have the verdict that is.
JobMinds(j) ==
  j.op = "classify" =>
    /\ StillThere(j.known)
    /\ \A flow \in Range(j.todo) : Asked(j.known, flow.key)
    /\ \A item \in Range(j.items) : Minded(j.known, item.flow.key, item.category)
    /\ \A row \in j.rows : Minded(j.known, row.key, row.category)

MindInv == \A s \in Sessions : JobMinds(job[s])

\* Within the window there is a latest verdict, if there is any.
LEMMA LatestIsRecalled ==
  ASSUME PipelineType, NEW known, NEW key
  PROVE  /\ Recent(key) = {} => Asked(known, key)
         /\ \A hit \in Recent(key) : Recalled(known, key, hit.category)
<1>1. \A row \in rows : row.age \in Nat
  <2>1. Window \in Nat BY RunAssumption
  <2>2. \A row \in Row : row.age \in 0..(Window + 1)
    BY DEF Row
  <2>3. QED BY <2>1, <2>2 DEF PipelineType, StoreType
<1>2. Window \in Nat BY RunAssumption
<1> DEFINE hits == {row \in rows : row.key = key /\ Fresh(row)}
           ages == {row.age : row \in hits}
<1>3. ASSUME Recent(key) = {} PROVE Asked(known, key)
  <2>1. CASE hits = {}
    BY <1>1, <1>2, <2>1 DEF Asked, Fresh
  <2>2. CASE hits # {}
    <3>1. ages \subseteq Nat /\ ages # {}
      BY <1>1, <2>2
    <3> HIDE DEF ages
    <3>2. PICK x \in ages : \A y \in ages : x <= y
      BY <3>1, Smallest
    <3>3. PICK row \in hits : row.age = x
      BY <3>2 DEF ages
    <3>4. \A other \in hits : row.age <= other.age
      BY <3>2, <3>3 DEF ages
    <3>5. row \in Recent(key)
      BY <3>3, <3>4 DEF Recent
    <3>6. QED BY <1>3, <3>5
  <2>3. QED BY <2>1, <2>2
<1>4. ASSUME NEW hit \in Recent(key) PROVE Recalled(known, key, hit.category)
  <2>1. /\ hit \in rows /\ hit.key = key /\ hit.age <= Window
        /\ \A other \in rows : other.key = key /\ other.age <= Window => hit.age <= other.age
    BY <1>4 DEF Recent, Fresh
  <2>2. \A v \in rows : v.key = key => hit.age <= v.age
    BY <1>1, <1>2, <2>1
  <2>3. QED BY <2>1, <2>2 DEF Recalled
<1>5. QED BY <1>3, <1>4

LEMMA MindWorks ==
  ASSUME PipelineType, MindInv, NEW s \in Sessions, NEW place, NEW j, Works(s, place, j), JobMinds(j)
  PROVE  MindInv'
<1>1. /\ job'[s] = j /\ \A t \in Sessions \ {s} : job'[t] = job[t]
      /\ rows' = rows
  BY DEF Works, PipelineType, JobsType
<1>2. \A known, key, category :
        /\ Asked(known, key)' <=> Asked(known, key)
        /\ Minded(known, key, category)' <=> Minded(known, key, category)
        /\ StillThere(known)' <=> StillThere(known)
  BY <1>1 DEF Asked, Minded, Recalled, StillThere
<1>3. \A i : JobMinds(i)' <=> JobMinds(i)
  BY <1>2 DEF JobMinds
<1>4. ASSUME NEW t \in Sessions PROVE JobMinds(job[t])'
  <2>1. JobMinds(job'[t])
    BY <1>1 DEF MindInv
  <2>2. QED BY <1>3, <2>1
<1>5. QED BY <1>4 DEF MindInv

LEMMA BeginMinds ==
  ASSUME PipelineType, MindInv, NEW s \in Sessions, NEW op \in Ops, NEW run,
         NEW lines \in Range(Batches) \cup {<<>>}, Begin(s, op, run, lines),
         IF op = "create" THEN lastId < MaxRuns ELSE run \in 1..lastId
  PROVE  MindInv'
<1>1. op = "create" => lastId < MaxRuns
  OBVIOUS
<1>2. op # "create" => run \in 1..lastId
  OBVIOUS
<1>3. PICK place \in Place : \E j :
              /\ Works(s, place, j) /\ JobForm(j) /\ JobType(j) /\ JobFits(j, place, lastId')
              /\ \/ /\ op = "create" /\ place = "done" /\ lastId' = lastId + 1
                    /\ j = Job("create", lastId + 1, <<>>, {}, <<>>, {})
                 \/ /\ op = "ingest" /\ place = "done" /\ lastId' = lastId /\ status[run] # "none"
                    /\ j = Job("ingest", run, lines, {}, <<>>, {})
                 \/ /\ op = "classify" /\ place = "lookup" /\ lastId' = lastId /\ status[run] # "none"
                    /\ j = Job("classify", run, <<>>, Aggregate(events[run]), <<>>, Verdicts)
                 \/ /\ op = "matrix" /\ place = "existing" /\ lastId' = lastId /\ status[run] # "none"
                    /\ j = Job("matrix", run, <<>>, {}, SetToSeq(Found(run)), {})
                 \/ /\ op # "create" /\ place = "refused" /\ lastId' = lastId
                    /\ j = NoJob
  BY <1>1, <1>2, BeginStep
<1>4. PICK j : /\ Works(s, place, j)
               /\ j.op = "classify" => j.known = Verdicts /\ j.todo = <<>> /\ j.items = <<>> /\ j.rows = {}
  BY <1>3 DEF Job, NoJob
<1>5. Range(<<>>) = {} BY DEF Range
<1>6. StillThere(Verdicts)
  BY DEF StillThere, Verdicts
<1>7. JobMinds(j)
  BY <1>4, <1>5, <1>6 DEF JobMinds
<1>8. QED BY <1>4, <1>7, MindWorks

LEMMA LookupMinds ==
  ASSUME PipelineType, MindInv, NEW s \in Sessions, Lookup(s)
  PROVE  MindInv'
<1>1. JobForm(job[s]) /\ JobType(job[s]) /\ job[s].op = "classify" /\ JobMinds(job[s])
  BY JobsTyped DEF JobAt, JobFits, Lookup, MindInv
<1>2. PICK place \in {"lookup", "ask", "upsert"} : \E j :
              /\ Works(s, place, j) /\ JobForm(j) /\ JobType(j) /\ JobAt(j, place)
              /\ KeepsRequest(j, job[s]) /\ KeepsMatrix(j, job[s]) /\ j.rows = job[s].rows
              /\ \E flow \in job[s].flows :
                   /\ j.flows = job[s].flows \ {flow}
                   /\ \/ /\ Recent(flow.key) = {}
                         /\ j.todo = Append(job[s].todo, flow) /\ j.items = job[s].items
                      \/ \E hit \in Recent(flow.key) :
                           /\ j.items = Append(job[s].items, [flow |-> flow, category |-> hit.category])
                           /\ j.todo = job[s].todo
  BY LookupStep
<1>3. PICK j :
              /\ Works(s, place, j)
              /\ KeepsRequest(j, job[s]) /\ j.rows = job[s].rows
              /\ \E flow \in job[s].flows :
                   \/ /\ Recent(flow.key) = {}
                      /\ j.todo = Append(job[s].todo, flow) /\ j.items = job[s].items
                   \/ \E hit \in Recent(flow.key) :
                        /\ j.items = Append(job[s].items, [flow |-> flow, category |-> hit.category])
                        /\ j.todo = job[s].todo
  BY <1>2
<1>4. PICK flow \in job[s].flows :
                   \/ /\ Recent(flow.key) = {}
                      /\ j.todo = Append(job[s].todo, flow) /\ j.items = job[s].items
                   \/ \E hit \in Recent(flow.key) :
                        /\ j.items = Append(job[s].items, [flow |-> flow, category |-> hit.category])
                        /\ j.todo = job[s].todo
  BY <1>3
<1>5. flow \in Flow /\ job[s].todo \in Seq(Flow) /\ job[s].items \in Seq(Item)
  BY <1>1, <1>4 DEF JobType
<1>6. j.op = "classify" /\ j.known = job[s].known /\ j.rows = job[s].rows
  BY <1>1, <1>3 DEF KeepsRequest
<1>7. CASE /\ Recent(flow.key) = {}
           /\ j.todo = Append(job[s].todo, flow) /\ j.items = job[s].items
  <2>1. Range(j.todo) = Range(job[s].todo) \cup {flow}
    BY <1>5, <1>7, RangeOfAppend
  <2>2. Asked(j.known, flow.key)
    BY <1>7, LatestIsRecalled
  <2>3. JobMinds(j)
    BY <1>1, <1>6, <1>7, <2>1, <2>2 DEF JobMinds
  <2>4. QED BY <1>3, <2>3, MindWorks
<1>8. ASSUME NEW hit \in Recent(flow.key), j.todo = job[s].todo,
             j.items = Append(job[s].items, [flow |-> flow, category |-> hit.category])
      PROVE  MindInv'
  <2> DEFINE last == [flow |-> flow, category |-> hit.category]
  <2>1. last \in Item /\ last.flow = flow /\ last.category = hit.category
    BY <1>5, DataTypes DEF Recent, Item, PipelineType, StoreType
  <2>2. j.items = Append(job[s].items, last)
    BY <1>8
  <2> HIDE DEF last
  <2>3. Range(j.items) = Range(job[s].items) \cup {last}
    BY <1>5, <2>1, <2>2, RangeOfAppend
  <2>4. Minded(j.known, last.flow.key, last.category)
    BY <1>8, <2>1, LatestIsRecalled DEF Minded
  <2>5. JobMinds(j)
    BY <1>1, <1>6, <1>8, <2>3, <2>4 DEF JobMinds
  <2>6. QED BY <1>3, <2>5, MindWorks
<1>9. QED BY <1>4, <1>7, <1>8

LEMMA StatementMinds ==
  ASSUME PipelineType, MindInv, NEW s \in Sessions, Statements(s)
  PROVE  MindInv'
<1>1. JobForm(job[s]) /\ JobType(job[s]) /\ JobAt(job[s], at[s]) /\ JobMinds(job[s])
  BY JobsTyped DEF MindInv
<1>2. CASE Lookup(s)
  BY <1>2, LookupMinds
<1>3. CASE Ask(s)
  <2>1. at[s] = "ask" /\ \E place \in {"ask", "upsert"} : \E j :
              /\ Works(s, place, j)
              /\ KeepsRequest(j, job[s])
              /\ j.rows = job[s].rows
              /\ Range(j.todo) \subseteq Range(job[s].todo)
              /\ \A item \in Range(j.items) \ Range(job[s].items) : item.flow \in Range(job[s].todo)
    BY <1>3, AskStep
  <2>2. job[s].op = "classify"
    BY <1>1, <2>1 DEF JobAt, JobFits
  <2>3. PICK place, j :
              /\ Works(s, place, j)
              /\ KeepsRequest(j, job[s])
              /\ j.rows = job[s].rows
              /\ Range(j.todo) \subseteq Range(job[s].todo)
              /\ \A item \in Range(j.items) \ Range(job[s].items) : item.flow \in Range(job[s].todo)
    BY <2>1
  <2>4. JobMinds(j)
    BY <1>1, <2>2, <2>3 DEF JobMinds, KeepsRequest, Minded
  <2>5. QED BY <2>3, <2>4, MindWorks
<1>4. CASE Upsert(s)
  <2>1. at[s] = "upsert" /\ \E place \in {"upsert", "done"} : \E j :
              /\ Works(s, place, j)
              /\ KeepsRequest(j, job[s])
              /\ j.todo = job[s].todo
              /\ Range(j.items) \subseteq Range(job[s].items)
              /\ LET item == Head(job[s].items)
                     row  == RowOf(job[s].run, item)
                 IN  item \in Range(job[s].items) /\ j.rows \subseteq job[s].rows \cup {row}
    BY <1>4, UpsertStep
  <2>2. job[s].op = "classify"
    BY <1>1, <2>1 DEF JobAt, JobFits
  <2> DEFINE item == Head(job[s].items)
             row  == RowOf(job[s].run, item)
  <2>3. PICK place, j :
              /\ Works(s, place, j)
              /\ KeepsRequest(j, job[s])
              /\ j.todo = job[s].todo
              /\ Range(j.items) \subseteq Range(job[s].items)
              /\ item \in Range(job[s].items) /\ j.rows \subseteq job[s].rows \cup {row}
    BY <2>1
  <2>4. Minded(job[s].known, row.key, row.category)
    <3>1. Minded(job[s].known, item.flow.key, item.category)
      BY <1>1, <2>2, <2>3 DEF JobMinds
    <3>2. row.key = item.flow.key /\ row.category = item.category
      BY DEF RowOf
    <3> HIDE DEF row
    <3>3. QED BY <3>1, <3>2
  <2> HIDE DEF row, item
  <2>5. JobMinds(j)
    BY <1>1, <2>2, <2>3, <2>4 DEF JobMinds, KeepsRequest
  <2>6. QED BY <2>3, <2>5, MindWorks
<1>5. CASE ReadExisting(s) \/ DeleteSeen(s) \/ InsertContract(s)
  <2>1. at[s] \in {"existing", "delete", "insert"}
        /\ \E place, j : /\ Works(s, place, j)
                         /\ \/ j = [job[s] EXCEPT !.seen = DOMAIN contracts[job[s].run]]
                            \/ j = [job[s] EXCEPT !.gone = job[s].seen]
                            \/ j = [job[s] EXCEPT !.put = [p \in DOMAIN @ \cup {NextPair(s)} |-> Wanted(s)[p]]]
    BY <1>5, ReadExistingStep, DeleteSeenStep, InsertContractStep
  <2>2. PICK place, j : /\ Works(s, place, j)
                        /\ \/ j = [job[s] EXCEPT !.seen = DOMAIN contracts[job[s].run]]
                           \/ j = [job[s] EXCEPT !.gone = job[s].seen]
                           \/ j = [job[s] EXCEPT !.put = [p \in DOMAIN @ \cup {NextPair(s)} |-> Wanted(s)[p]]]
    BY <2>1
  <2>3. j.op = "matrix"
    BY <1>1, <2>1, <2>2 DEF JobForm, JobAt, JobFits
  <2>4. JobMinds(j)
    BY <2>3 DEF JobMinds
  <2>5. QED BY <2>2, <2>4, MindWorks
<1>6. QED BY <1>2, <1>3, <1>4, <1>5 DEF Statements

\* Rows that a session commits are of flows that had no row in their run: they are
\* no verdicts that another request has known.
LEMMA CommitMinds ==
  ASSUME PipelineType, AloneInv, MindInv, NEW s \in Sessions, Commit(s)
  PROVE  MindInv'
<1>1. /\ job'[s] = NoJob /\ rows' = rows \cup job[s].rows
      /\ \A d \in Sessions \ {s} : KeepsRequest(job'[d], job[d]) /\ KeepsLists(job'[d], job[d])
  BY CommitStep
<1>2. ASSUME NEW known, StillThere(known)
      PROVE  /\ StillThere(known)'
             /\ \A key : Asked(known, key) => Asked(known, key)'
             /\ \A key, category : Minded(known, key, category) => Minded(known, key, category)'
  <2>1. ASSUME NEW v \in rows', Identity(v) \in known PROVE v \in rows
    <3>1. PICK w \in rows : Identity(w) = Identity(v)
      BY <1>2, <2>1 DEF StillThere
    <3>2. Same(v, w)
      BY <3>1 DEF Identity, Same
    <3>3. QED BY <1>1, <2>1, <3>2 DEF AloneInv
  <2>2. StillThere(known)'
    BY <1>1, <1>2 DEF StillThere, Identity
  <2>3. \A key : Asked(known, key) => Asked(known, key)'
    BY <2>1 DEF Asked, Identity
  <2>4. \A key, category : Recalled(known, key, category) => Recalled(known, key, category)'
    BY <1>1, <2>1 DEF Recalled, Identity
  <2>5. QED BY <2>2, <2>3, <2>4 DEF Minded
<1>3. ASSUME NEW d \in Sessions PROVE JobMinds(job[d])'
  <2>1. CASE d = s
    BY <1>1, <2>1 DEF JobMinds, NoJob
  <2>2. CASE d # s
    <3> PICK known, todo, items, seen :
           known = job[d].known /\ todo = job[d].todo /\ items = job[d].items /\ seen = job[d].rows
      OBVIOUS
    <3>1. /\ job'[d].op = job[d].op /\ job'[d].known = known /\ job'[d].todo = todo
          /\ job'[d].items = items /\ job'[d].rows = seen
      BY <1>1, <2>2 DEF KeepsRequest, KeepsLists
    <3>2. job[d].op = "classify" =>
            /\ StillThere(known)
            /\ \A flow \in Range(todo) : Asked(known, flow.key)
            /\ \A item \in Range(items) : Minded(known, item.flow.key, item.category)
            /\ \A row \in seen : Minded(known, row.key, row.category)
      BY DEF MindInv, JobMinds
    <3>3. job[d].op = "classify" =>
            /\ StillThere(known)'
            /\ \A flow \in Range(todo) : Asked(known, flow.key)'
            /\ \A item \in Range(items) : Minded(known, item.flow.key, item.category)'
            /\ \A row \in seen : Minded(known, row.key, row.category)'
      BY <1>2, <3>2
    <3>4. QED BY <3>1, <3>3 DEF JobMinds, StillThere, Asked, Minded, Recalled
  <2>3. QED BY <2>1, <2>2
<1>4. QED BY <1>3 DEF MindInv

\* Time passes for all verdicts alike, those within the window.
LEMMA TickMinds ==
  ASSUME PipelineType, MindInv, Tick
  PROVE  MindInv'
<1>1. /\ rows' = {Older(row) : row \in rows}
      /\ \A d \in Sessions :
           /\ KeepsRequest(job'[d], job[d])
           /\ job'[d].todo = job[d].todo /\ job'[d].items = job[d].items
           /\ job'[d].rows = {Older(row) : row \in job[d].rows}
  BY TickStep
<1>2. rows \subseteq Row /\ \A d \in Sessions : job[d].rows \subseteq Row
  BY JobsTyped DEF JobType, PipelineType, StoreType
<1>3. \A row \in Row : /\ Older(row).run = row.run /\ Older(row).key = row.key
                       /\ Older(row).category = row.category
                       /\ Older(row).age = IF row.age <= Window THEN row.age + 1 ELSE row.age
                       /\ row.age \in 0..(Window + 1)
  BY OlderRow DEF Row
<1>4. Window \in Nat BY RunAssumption
<1>5. \A row \in Row : Identity(Older(row)) = Identity(row)
  BY <1>3 DEF Identity
<1>6. \A v \in Row : v.age > Window => Older(v).age > Window
  BY <1>3, <1>4
<1>7. \A v, w \in Row : v.age <= w.age => Older(v).age <= Older(w).age
  BY <1>3, <1>4
<1>8. ASSUME NEW known
      PROVE  /\ StillThere(known) => StillThere(known)'
             /\ \A key : Asked(known, key) => Asked(known, key)'
             /\ \A key, category : Minded(known, key, category) => Minded(known, key, category)'
  <2>1. ASSUME StillThere(known), NEW id \in known PROVE \E v \in rows' : Identity(v) = id
    <3>1. PICK v \in rows : Identity(v) = id
      BY <2>1 DEF StillThere
    <3>2. Older(v) \in rows' /\ Identity(Older(v)) = id
      BY <1>1, <1>2, <1>5, <3>1
    <3>3. QED BY <3>2
  <2>2. StillThere(known) => StillThere(known)'
    BY <2>1 DEF StillThere, Identity
  <2>3. ASSUME NEW key, Asked(known, key), NEW v \in rows', v.key = key, Identity(v) \in known
        PROVE  v.age > Window
    <3>1. PICK w \in rows : v = Older(w)
      BY <1>1
    <3>2. w.key = key /\ Identity(w) \in known /\ w \in Row
      BY <1>2, <1>3, <1>5, <2>3, <3>1
    <3>3. QED BY <1>6, <2>3, <3>1, <3>2 DEF Asked
  <2>4. \A key : Asked(known, key) => Asked(known, key)'
    BY <2>3 DEF Asked, Identity
  <2>5. ASSUME NEW key, NEW category, Recalled(known, key, category)
        PROVE  \E h \in rows' :
                 /\ h.key = key /\ h.category = category
                 /\ \A v \in rows' : v.key = key /\ Identity(v) \in known => h.age <= v.age
    <3>1. PICK h \in rows :
            /\ h.key = key /\ h.category = category
            /\ \A v \in rows : v.key = key /\ Identity(v) \in known => h.age <= v.age
      BY <2>5 DEF Recalled
    <3>2. Older(h) \in rows' /\ Older(h).key = key /\ Older(h).category = category
      BY <1>1, <1>2, <1>3, <3>1
    <3>3. ASSUME NEW v \in rows', v.key = key, Identity(v) \in known PROVE Older(h).age <= v.age
      <4>1. PICK w \in rows : v = Older(w)
        BY <1>1
      <4>2. w.key = key /\ Identity(w) \in known /\ w \in Row /\ h \in Row
        BY <1>2, <1>3, <1>5, <3>3, <4>1
      <4>3. QED BY <1>7, <3>1, <4>1, <4>2
    <3>4. QED BY <3>2, <3>3
  <2>6. \A key, category : Recalled(known, key, category) => Recalled(known, key, category)'
    BY <2>5 DEF Recalled, Identity
  <2>7. QED BY <2>2, <2>4, <2>6 DEF Minded
<1>9. ASSUME NEW d \in Sessions PROVE JobMinds(job[d])'
  <2> PICK known, todo, items, seen :
         known = job[d].known /\ todo = job[d].todo /\ items = job[d].items /\ seen = job[d].rows
    OBVIOUS
  <2>1. /\ job'[d].op = job[d].op /\ job'[d].known = known /\ job'[d].todo = todo
        /\ job'[d].items = items /\ job'[d].rows = {Older(row) : row \in seen}
    BY <1>1 DEF KeepsRequest
  <2>2. job[d].op = "classify" =>
          /\ StillThere(known)
          /\ \A flow \in Range(todo) : Asked(known, flow.key)
          /\ \A item \in Range(items) : Minded(known, item.flow.key, item.category)
          /\ \A row \in seen : Minded(known, row.key, row.category)
    BY DEF MindInv, JobMinds
  <2>3. \A row \in seen : Older(row).key = row.key /\ Older(row).category = row.category
    BY <1>2, <1>3
  <2>4. job[d].op = "classify" =>
          /\ StillThere(known)'
          /\ \A flow \in Range(todo) : Asked(known, flow.key)'
          /\ \A item \in Range(items) : Minded(known, item.flow.key, item.category)'
          /\ \A row \in {Older(row) : row \in seen} : Minded(known, row.key, row.category)'
    BY <1>8, <2>2, <2>3
  <2>5. QED BY <2>1, <2>4 DEF JobMinds, StillThere, Asked, Minded, Recalled
<1>10. QED BY <1>9 DEF MindInv

LEMMA MindStep ==
  ASSUME TypeInv, AloneInv, MindInv, [Next]_vars
  PROVE  MindInv'
<1>1. PipelineType BY DEF TypeInv
<1>2. ASSUME NEW s \in Sessions, NEW op \in Ops, NEW run, NEW lines \in Range(Batches) \cup {<<>>},
             Begin(s, op, run, lines),
             IF op = "create" THEN lastId < MaxRuns ELSE run \in 1..lastId
      PROVE  MindInv'
  BY <1>1, <1>2, BeginMinds
<1>3. ASSUME NEW s \in Sessions, Statements(s) PROVE MindInv'
  BY <1>1, <1>3, StatementMinds
<1>4. ASSUME NEW s \in Sessions, Fails(s) PROVE MindInv'
  <2>1. Works(s, "idle", NoJob) /\ JobMinds(NoJob)
    BY <1>1, <1>4, FailsStep DEF JobMinds, NoJob
  <2>2. QED BY <1>1, <2>1, MindWorks
<1>5. ASSUME UNCHANGED <<store, at, job>> PROVE MindInv'
  BY <1>5 DEF MindInv, JobMinds, StillThere, Asked, Minded, Recalled, store
<1>6. QED BY <1>1, <1>2, <1>3, <1>4, <1>5, CommitMinds, TickMinds, PipelineCases

\* A flow with a verdict that was known when the request began, and that is still
\* within the window, keeps it, or takes a later one of those that are.
THEOREM Remembered == Spec => Remembers
<1>1. ASSUME TypeInv, EventsInv, MindInv, [Next]_vars,
             NEW row \in rows' \ rows, NEW s \in Sessions, row \in job[s].rows, at'[s] = "idle",
             \E w \in {v \in rows : v.key = row.key /\ Fresh(v)} : Identity(w) \in job[s].known
      PROVE  row.category \in {w.category : w \in {v \in rows : v.key = row.key /\ Fresh(v)}}
  <2>1. job[s].op = "classify"
    BY <1>1 DEF EventsInv, JobOfEvents
  <2>2. Minded(job[s].known, row.key, row.category)
    BY <1>1, <2>1 DEF MindInv, JobMinds
  <2>3. PICK w \in rows : w.key = row.key /\ w.age <= Window /\ Identity(w) \in job[s].known
    BY <1>1 DEF Fresh
  <2>4. \A v \in rows : v.age \in Nat
    <3>1. \A v \in Row : v.age \in 0..(Window + 1)
      BY DEF Row
    <3>2. QED BY <1>1, <3>1, RunAssumption DEF TypeInv, PipelineType, StoreType
  <2>5. Window \in Nat BY RunAssumption
  <2>6. ~ Asked(job[s].known, row.key)
    BY <2>3, <2>4, <2>5 DEF Asked
  <2>7. PICK h \in rows : h.key = row.key /\ h.category = row.category /\ h.age <= w.age
    BY <2>2, <2>3, <2>6 DEF Minded, Recalled
  <2>8. h.age <= Window
    BY <2>3, <2>4, <2>5, <2>7
  <2>9. QED BY <2>7, <2>8 DEF Fresh
<1>2. TypeInv /\ EventsInv /\ MindInv /\ [Next]_vars =>
        [\A row \in rows' \ rows, s \in Sessions :
           LET still == {w \in rows : w.key = row.key /\ Fresh(w)}
           IN  /\ row \in job[s].rows /\ at'[s] = "idle"
               /\ \E w \in still : Identity(w) \in job[s].known
               => row.category \in {w.category : w \in still}]_vars
  BY <1>1
<1>3. Init => MindInv
  BY DEF Init, PipelineInit, MindInv, JobMinds, NoJob
<1>4. TypeInv /\ EventsInv /\ AloneInv /\ MindInv /\ [Next]_vars => EventsInv' /\ AloneInv' /\ MindInv'
  BY EventsStep, AloneStep, MindStep
<1>5. QED BY <1>2, <1>3, <1>4, RowsInit, TypeInvInit, TypeInvStep, PTL DEF Spec, Remembers

-----------------------------------------------------------------------------
(* Requests take effect at once                                             *)

\* The verdicts of a run, of rows R, that the items c are, and what a matrix of them says.
SeenIn(R, run, c) == {v \in {Verdict(row) : row \in R} : v.run = run /\ Classified(v) \in Range(c)}
MadeOf(R, run, c) == {Ledger!Entry(v) : v \in SeenIn(R, run, c)}

\* What contracts say of each flow is what its one verdict says, if they are built of
\* classifications of one run.
LEMMA EntriesOfBuild ==
  ASSUME NEW R, NEW run, NEW c \in Seq(Item),
         Range(c) \subseteq {Classified(row) : row \in {w \in R : w.run = run}},
         \A v, w \in R : Same(v, w) => v = w
  PROVE  Entries(BuildContracts(c)) = MadeOf(R, run, c)
<1> DEFINE verdicts == {Verdict(row) : row \in R}
           seen     == {v \in verdicts : v.run = run /\ Classified(v) \in Range(c)}
           made     == BuildContracts(c)
           Says(k)  == IF Denied(Range(c), k) THEN "deny" ELSE "permit"
<1>1. Len(c) \in Nat /\ DOMAIN c = 1..Len(c) /\ Range(c) = {c[n] : n \in DOMAIN c}
  BY DEF Range
<1>2. \A x \in Range(c) : KeyForm(x.flow.key)
  <2>1. \A k \in Key : KeyForm(k)
    BY DEF KeyForm, Key
  <2>2. \A x \in Item : x.flow.key \in Key
    BY DEF Item, Flow
  <2>3. \A n \in DOMAIN c : c[n] \in Item
    OBVIOUS
  <2>4. QED BY <1>1, <2>1, <2>2, <2>3
<1>3. RightFor(made, Range(c))
  <2>1. \A n \in DOMAIN c : KeyForm(c[n].flow.key)
    BY <1>1, <1>2
  <2>2. RightFor(BuildContracts(c), {c[n] : n \in DOMAIN c})
    BY <1>1, <2>1, BuiltRight
  <2>3. QED BY <1>1, <2>2
<1>4. \A k : KeyForm(k) => FlowOf(Pair(k), AceKey(k)) = k
  BY DEF KeyForm, FlowKey, FlowOf, Pair, AceKey
<1>5. \A row : /\ Verdict(row).run = row.run /\ Verdict(row).key = row.key
               /\ Verdict(row).category = row.category /\ Classified(Verdict(row)) = Classified(row)
               /\ Classified(row).flow.key = row.key /\ Classified(row).category = row.category
  BY DEF Verdict, Classified
<1>6. \A x, y \in Range(c) : x.flow.key = y.flow.key => x.category = y.category
  <2> SUFFICES ASSUME NEW x \in Range(c), NEW y \in Range(c), x.flow.key = y.flow.key
               PROVE  x.category = y.category
    OBVIOUS
  <2>1. PICK v \in R : v.run = run /\ x = Classified(v)
    OBVIOUS
  <2>2. PICK w \in R : w.run = run /\ y = Classified(w)
    OBVIOUS
  <2>3. v = w
    BY <1>5, <2>1, <2>2 DEF Same
  <2>4. QED BY <2>1, <2>2, <2>3
<1>7. \A x \in Range(c) : Says(x.flow.key) = IF x.category \in DenyCategories THEN "deny" ELSE "permit"
  BY <1>6 DEF Denied
<1>8. \A v : Ledger!Entry(v)
               = [key |-> v.key, action |-> IF v.category \in DenyCategories THEN "deny" ELSE "permit"]
  BY DEF Ledger!Entry
<1>9. \A x : x \in Range(c) <=> \E v \in seen : x = Classified(v)
  <2>1. ASSUME NEW x \in Range(c) PROVE \E v \in seen : x = Classified(v)
    <3>1. PICK row \in R : row.run = run /\ x = Classified(row)
      BY <2>1
    <3>2. Verdict(row) \in seen /\ x = Classified(Verdict(row))
      BY <1>5, <2>1, <3>1
    <3>3. QED BY <3>2
  <2>2. QED BY <2>1
<1> HIDE DEF seen, verdicts, made
<1>10. ASSUME NEW x \in Range(c), NEW v \in seen, x = Classified(v)
       PROVE  Ledger!Entry(v) = [key |-> x.flow.key, action |-> Says(x.flow.key)]
  BY <1>5, <1>7, <1>8, <1>10
<1>11. ASSUME NEW e \in Entries(made) PROVE e \in {Ledger!Entry(v) : v \in seen}
  <2>1. PICK p \in DOMAIN made : \E a \in DOMAIN made[p] : e = [key |-> FlowOf(p, a), action |-> made[p][a].action]
    BY <1>11 DEF Entries
  <2>2. PICK a \in DOMAIN made[p] : e = [key |-> FlowOf(p, a), action |-> made[p][a].action]
    BY <2>1
  <2>3. PICK x \in Range(c) : Pair(x.flow.key) = p /\ AceKey(x.flow.key) = a
    BY <1>3 DEF RightFor
  <2>4. made[p][a].action = Says(x.flow.key)
    BY <1>3, <2>3 DEF RightFor
  <2>5. FlowOf(p, a) = x.flow.key
    BY <1>2, <1>4, <2>3
  <2>6. PICK v \in seen : x = Classified(v)
    BY <1>9
  <2>7. e = Ledger!Entry(v)
    BY <1>10, <2>2, <2>4, <2>5, <2>6
  <2>8. QED BY <2>7
<1>12. ASSUME NEW v \in seen PROVE Ledger!Entry(v) \in Entries(made)
  <2>1. PICK x \in Range(c) : x = Classified(v)
    BY <1>9
  <2> DEFINE p == Pair(x.flow.key)
             a == AceKey(x.flow.key)
  <2>2. p \in DOMAIN made /\ a \in DOMAIN made[p] /\ made[p][a].action = Says(x.flow.key)
    BY <1>3 DEF RightFor
  <2>3. FlowOf(p, a) = x.flow.key
    BY <1>2, <1>4
  <2>4. Ledger!Entry(v) = [key |-> FlowOf(p, a), action |-> made[p][a].action]
    BY <1>10, <2>1, <2>2, <2>3
  <2> HIDE DEF p, a
  <2>5. QED BY <2>2, <2>4 DEF Entries
<1>13. Entries(made) = {Ledger!Entry(v) : v \in seen}
  BY <1>11, <1>12
<1>14. seen = SeenIn(R, run, c)
  BY DEF seen, verdicts, SeenIn
<1>15. made = BuildContracts(c)
  BY DEF made
<1>16. QED BY <1>13, <1>14, <1>15 DEF MadeOf

LedgerInv == TypeInv /\ RunsInv /\ EventsInv /\ AloneInv /\ MatrixInv

LEMMA LedgerRests ==
  ASSUME UNCHANGED <<status, contracts>>, {Verdict(row) : row \in rows'} = {Verdict(row) : row \in rows}
  PROVE  UNCHANGED Ledger!vars
BY DEF Ledger!vars

LEMMA CommitCreate ==
  ASSUME LedgerInv, NEW s \in Sessions, Commit(s), job[s].op = "create"
  PROVE  Ledger!Next
<1> DEFINE run == job[s].run
<1>1. PipelineType BY DEF LedgerInv, TypeInv
<1>2. /\ PipelineType' /\ run \in Runs /\ rows' = rows \cup job[s].rows
      /\ \A r \in Runs : r # run => status'[r] = status[r]
      /\ \A r \in Runs : contracts'[r] = contracts[r]
      /\ status'[run] = "in_progress"
  <2>1. "create" \in DOMAIN Reached /\ Reached["create"] = "in_progress"
    BY DEF Reached
  <2>2. QED BY <1>1, <2>1, CommitStep
<1>3. rows' = rows
  BY <1>2 DEF LedgerInv, EventsInv, JobOfEvents
<1>4. status[run] = "none"
  BY DEF LedgerInv, RunsInv, JobRun
<1>5. status' = [status EXCEPT ![run] = "in_progress"]
  BY <1>1, <1>2 DEF PipelineType, StoreType
<1> HIDE DEF run
<1>6. Ledger!Open(run)
  BY <1>2, <1>3, <1>4, <1>5 DEF Ledger!Open
<1>7. QED BY <1>2, <1>6 DEF Ledger!Next

LEMMA CommitClassify ==
  ASSUME LedgerInv, NEW s \in Sessions, Commit(s), job[s].op = "classify"
  PROVE  Ledger!Next
<1> DEFINE run == job[s].run
<1>1. PipelineType /\ AloneInv BY DEF LedgerInv, TypeInv
<1>2. /\ PipelineType' /\ run \in Runs /\ rows' = rows \cup job[s].rows
      /\ \A r \in Runs : contracts'[r] = contracts[r] /\ status'[r] = status[r]
  BY <1>1, CommitStep DEF Reached
<1>3. status' = status
  BY <1>1, <1>2 DEF PipelineType, StoreType
<1>4. AloneInv'
  BY <1>1, CommitAlone
<1>5. status[run] # "none"
  BY DEF LedgerInv, RunsInv, JobRun
<1>6. \A row \in job[s].rows : row.run = run
  BY DEF LedgerInv, EventsInv, JobOfEvents
<1>7. \A v, w \in rows' : Same(v, w) => v = w
  BY <1>4 DEF AloneInv
<1> DEFINE before == {Verdict(row) : row \in rows}
           after  == {Verdict(row) : row \in rows'}
<1>8. before \subseteq after
  BY <1>2
<1>9. ASSUME NEW v \in after \ before
      PROVE  v.run = run /\ \A w \in after : Ledger!SameFlow(v, w) => v = w
  <2>1. PICK row \in rows' : v = Verdict(row)
    OBVIOUS
  <2>2. row \in job[s].rows
    BY <1>2, <1>9, <2>1
  <2>3. \A u : Verdict(u).run = u.run /\ Verdict(u).key = u.key
    BY DEF Verdict
  <2>4. ASSUME NEW u \in rows', Ledger!SameFlow(v, Verdict(u)) PROVE v = Verdict(u)
    <3>1. Same(row, u)
      BY <2>1, <2>3, <2>4 DEF Same, Ledger!SameFlow
    <3>2. QED BY <1>7, <2>1, <3>1
  <2>5. QED BY <1>6, <2>1, <2>2, <2>3, <2>4
<1> HIDE DEF run
<1>10. Ledger!Classify(run)
  BY <1>2, <1>3, <1>5, <1>8, <1>9 DEF Ledger!Classify
<1>11. QED BY <1>2, <1>10 DEF Ledger!Next

LEMMA CommitBuilt ==
  ASSUME LedgerInv, NEW s \in Sessions, Commit(s), job[s].op = "matrix"
  PROVE  Ledger!Next
<1> DEFINE run == job[s].run
<1>1. /\ PipelineType /\ TypeInv /\ RunsInv /\ AloneInv /\ MatrixInv
  BY DEF LedgerInv, TypeInv
<1>2. /\ PipelineType' /\ run \in Runs /\ rows' = rows \cup job[s].rows /\ at[s] = "done"
      /\ \A r \in Runs : r # run => contracts'[r] = contracts[r] /\ status'[r] = status[r]
  BY <1>1, CommitStep
<1>3. rows' = rows
  BY <1>2 DEF LedgerInv, EventsInv, JobOfEvents
<1>4. status'[run] = "complete" /\ status[run] # "none"
  BY <1>1, CommitOnward DEF RunsInv, JobRun
<1>5. status' = [status EXCEPT ![run] = "complete"]
  BY <1>1, <1>2, <1>4 DEF PipelineType, StoreType
<1>6. MatrixInv'
  BY <1>1, CommitMatrix
<1>7. PICK b : /\ b = basis[run] /\ b \in Seq(Item) /\ contracts[run] = BuildContracts(b)
               /\ Range(b) \subseteq {Classified(row) : row \in {w \in rows : w.run = run}}
  BY <1>1, <1>2 DEF MatrixInv, RunMatrix, Found, RowsOf
<1>8. PICK c : /\ c = basis'[run] /\ c \in Seq(Item) /\ contracts'[run] = BuildContracts(c)
               /\ Range(c) \subseteq {Classified(row) : row \in {w \in rows : w.run = run}}
  BY <1>2, <1>3, <1>6 DEF MatrixInv, RunMatrix, Found, RowsOf
<1>9. Range(b) \subseteq Range(c) \/ Range(c) \subseteq Range(b)
  <2>1. BuildFits(job[s], "done")
    BY <1>1, <1>2 DEF MatrixInv, MatrixJob
  <2>2. c = b \/ c = job[s].items
    BY <1>1, <1>7, <1>8, BuildOutcome
  <2>3. QED BY <1>7, <2>1, <2>2 DEF BuildFits, Comparable
<1>10. \A v, w \in rows : Same(v, w) => v = w
  BY <1>1 DEF AloneInv
<1> DEFINE Seen(d) == SeenIn(rows, run, d)
           Made(d) == MadeOf(rows, run, d)
<1>11. Entries(contracts[run]) = Made(b) /\ Entries(contracts'[run]) = Made(c)
  <2>1. Entries(BuildContracts(b)) = Made(b)
    BY <1>7, <1>10, EntriesOfBuild
  <2>2. Entries(BuildContracts(c)) = Made(c)
    BY <1>8, <1>10, EntriesOfBuild
  <2>3. QED BY <1>7, <1>8, <2>1, <2>2
<1>12. Seen(c) \subseteq {v \in {Verdict(row) : row \in rows} : v.run = run}
  BY DEF SeenIn
<1>13. Made(b) \subseteq Made(c) \/ Made(c) \subseteq Made(b)
  <2>1. Seen(b) \subseteq Seen(c) \/ Seen(c) \subseteq Seen(b)
    BY <1>9 DEF SeenIn
  <2>2. QED BY <2>1 DEF MadeOf
<1>14. \E seen \in SUBSET {v \in {Verdict(row) : row \in rows} : v.run = run} :
         Made(c) = {Ledger!Entry(v) : v \in seen}
  BY <1>12 DEF MadeOf
<1>15. [r \in Runs |-> Entries(contracts'[r])]
         = [[r \in Runs |-> Entries(contracts[r])] EXCEPT ![run] = Made(c)]
  BY <1>2, <1>11
<1> HIDE DEF run, Made
<1>16. Ledger!Build(run)
  BY <1>2, <1>3, <1>4, <1>5, <1>11, <1>13, <1>14, <1>15 DEF Ledger!Build
<1>17. QED BY <1>2, <1>16 DEF Ledger!Next

LEMMA LedgerStep ==
  ASSUME LedgerInv, [Next]_vars
  PROVE  Ledger!Next \/ UNCHANGED Ledger!vars
<1>1. PipelineType /\ TypeInv BY DEF LedgerInv, TypeInv
<1>2. ASSUME NEW s \in Sessions, NEW place, NEW j, Works(s, place, j) PROVE UNCHANGED Ledger!vars
  BY <1>2, LedgerRests DEF Works
<1>3. ASSUME NEW s \in Sessions, NEW op \in Ops, NEW run, NEW lines \in Range(Batches) \cup {<<>>},
             Begin(s, op, run, lines),
             IF op = "create" THEN lastId < MaxRuns ELSE run \in 1..lastId
      PROVE  UNCHANGED Ledger!vars
  BY <1>1, <1>2, <1>3, BeginOfEvents
<1>4. ASSUME NEW s \in Sessions, Statements(s) PROVE UNCHANGED Ledger!vars
  BY <1>1, <1>2, <1>4, StatementMoves
<1>5. ASSUME NEW s \in Sessions, Fails(s) PROVE UNCHANGED Ledger!vars
  BY <1>1, <1>2, <1>5, FailsStep
<1>6. ASSUME NEW s \in Sessions, Commit(s) PROVE Ledger!Next \/ UNCHANGED Ledger!vars
  <2>1. job[s].op \in Ops
    BY <1>1, <1>6, CommitStep, JobsTyped DEF JobType
  <2>2. CASE job[s].op = "ingest"
    <3>1. /\ PipelineType' /\ rows' = rows \cup job[s].rows
          /\ \A r \in Runs : contracts'[r] = contracts[r] /\ status'[r] = status[r]
      BY <1>1, <1>6, <2>2, CommitStep DEF Reached
    <3>2. rows' = rows
      BY <2>2, <3>1 DEF LedgerInv, EventsInv, JobOfEvents
    <3>3. status' = status /\ contracts' = contracts
      BY <1>1, <3>1 DEF PipelineType, StoreType
    <3>4. QED BY <3>2, <3>3, LedgerRests
  <2>3. QED BY <1>6, <2>1, <2>2, CommitCreate, CommitClassify, CommitBuilt DEF Ops
<1>7. ASSUME Tick PROVE UNCHANGED Ledger!vars
  <2>1. rows' = {Older(row) : row \in rows} /\ UNCHANGED <<status, contracts>>
    BY <1>1, <1>7, TickStep
  <2>2. \A row \in rows : Verdict(Older(row)) = Verdict(row)
    BY <1>1, OlderRow DEF Verdict, PipelineType, StoreType
  <2>3. {Verdict(row) : row \in rows'} = {Verdict(row) : row \in rows}
    BY <2>1, <2>2
  <2>4. QED BY <2>1, <2>3, LedgerRests
<1>8. ASSUME UNCHANGED <<store, at, job>> PROVE UNCHANGED Ledger!vars
  BY <1>8, LedgerRests DEF store
<1>9. QED BY <1>1, <1>3, <1>4, <1>5, <1>6, <1>7, <1>8, PipelineCases

LEMMA RunLedgerInit == Init => Ledger!Init
<1> SUFFICES ASSUME Init PROVE Ledger!Init
  OBVIOUS
<1>1. /\ status = [r \in Runs |-> "none"] /\ rows = {}
      /\ contracts = [r \in Runs |-> NoContracts]
  BY DEF Init, PipelineInit
<1>2. Entries(NoContracts) = {}
  BY DEF Entries, NoContracts
<1>3. QED BY <1>1, <1>2 DEF Ledger!Init

\* Requests that overlap, fail half way, are given up or sent again do to the runs
\* what requests do that take effect one at a time, at their commit.
THEOREM RunsAreLedger == Spec => ImplementsLedger
<1>1. Init => LedgerInv
  BY TypeInvInit, RunsInit, RowsInit, MatrixInit DEF LedgerInv
<1>2. LedgerInv /\ [Next]_vars => LedgerInv'
  BY TypeInvStep, RunsStep, EventsStep, AloneStep, MatrixStep DEF LedgerInv
<1>3. LedgerInv /\ [Next]_vars => [Ledger!Next]_(Ledger!vars)
  BY LedgerStep
<1>4. QED BY <1>1, <1>2, <1>3, RunLedgerInit, PTL DEF Spec, ImplementsLedger, Ledger!Spec
=============================================================================
