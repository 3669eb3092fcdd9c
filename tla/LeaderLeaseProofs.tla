------------------------- MODULE LeaderLeaseProofs -------------------------
(***************************************************************************)
(* Why one lease is enough, for every number of replicas and every choice   *)
(* of times: a round that renews the key and the next one that does are at  *)
(* most Refresh + 2 * MaxStall ticks apart.  The argument needs rounds that *)
(* fit in the lease, and it ends with the first error: after that a flag is *)
(* FALSE while the key still holds the replica's token, and grows old.      *)
(***************************************************************************)
EXTENDS LeaderLease, TLAPS

Prompt == Refresh + 2 * MaxStall < Ttl

\* At most this many ticks until the round of r that is due or under way ends.
Deadline(r) == (IF pc[r] = "sleep" THEN timer[r] ELSE 0) + MaxStall - busy[r]

\* r acts, or is about to act, as the owner of the key.
Holder(r) == isLeader[r] \/ pc[r] \in {"won", "expire", "release"}

Types ==
  /\ left \in Nat
  /\ owner \in Replicas \cup {Gone, None}
  /\ owner = None <=> left = 0
  /\ pc \in [Replicas -> Label]
  /\ timer \in [Replicas -> Nat]
  /\ busy \in [Replicas -> 0..MaxStall]
  /\ isLeader \in [Replicas -> BOOLEAN]
  /\ scanning \in [Replicas -> BOOLEAN]

\* An owner has the key for longer than its round can still take ...
HolderOwns ==
  \A r \in Replicas : Holder(r) => owner = r /\ left > Deadline(r)

\* ... and after a renewal for the sleep and the round that follow.
RenewedInTime ==
  \A r \in Replicas : pc[r] = "won" =>
    left > Refresh + MaxStall + (MaxStall - busy[r])

OwnerKnows ==
  \A r \in Replicas : owner = r => isLeader[r] \/ pc[r] = "won"

LoserOwnsNothing == \A r \in Replicas : pc[r] = "lost" => owner # r

DownIsDown == \A r \in Replicas : pc[r] = "down" => ~isLeader[r] /\ owner # r

LeadersScan == \A r \in Replicas : scanning[r] => isLeader[r]

LeaseInv == /\ Types /\ HolderOwns /\ RenewedInTime /\ OwnerKnows
            /\ LoserOwnsNothing /\ DownIsDown /\ LeadersScan

LEMMA LeaseInit == Init => LeaseInv
BY TimesAssumption, NamesAssumption
DEF Init, LeaseInv, Types, HolderOwns, RenewedInTime, OwnerKnows,
    LoserOwnsNothing, DownIsDown, LeadersScan, Holder, Label, InRound

LEMMA LeaseTick ==
  ASSUME Prompt, LeaseInv, Tick
  PROVE  LeaseInv'
<1> USE TimesAssumption, NamesAssumption DEF LeaseInv
<1>1. UNCHANGED <<pc, isLeader, scanning, fault>>
  BY DEF Tick
<1>2. \A r \in Replicas :
        /\ busy'[r] = IF Due(r) THEN busy[r] + 1 ELSE busy[r]
        /\ timer'[r] = IF timer[r] = 0 THEN 0 ELSE timer[r] - 1
        /\ busy[r] \in 0..MaxStall /\ timer[r] \in Nat
        /\ Due(r) => busy[r] < MaxStall
  BY DEF Tick, Countdown, Types
<1>3. left' = (IF left = 0 THEN 0 ELSE left - 1)
      /\ owner' = (IF left' = 0 THEN None ELSE owner)
  BY DEF Tick, LeftAfterTick
<1>4. Types'
  <2>1. timer' \in [Replicas -> Nat]
    BY DEF Tick, Countdown, Types
  <2>2. busy' \in [Replicas -> 0..MaxStall]
    BY <1>2 DEF Tick, Types
  <2>3. left' \in Nat /\ owner' \in Replicas \cup {Gone, None} /\ (owner' = None <=> left' = 0)
    BY <1>3 DEF Types
  <2>4. QED BY <1>1, <2>1, <2>2, <2>3 DEF Types
<1>5. ASSUME NEW r \in Replicas, Holder(r)
      PROVE  owner' = r /\ left' > Deadline(r)'
  <2>1. owner = r /\ left > Deadline(r)
    BY <1>5 DEF HolderOwns
  <2>2. pc[r] # "down"
    BY <1>5 DEF Holder, DownIsDown
  <2>3. CASE Due(r)
    BY <1>1, <1>2, <1>3, <2>1, <2>3 DEF Deadline, Due, Types, InRound
  <2>4. CASE ~Due(r)
    <3>1. pc[r] = "sleep" /\ timer[r] > 0
      BY <1>2, <2>2, <2>4 DEF Due, Types, Label
    <3>2. QED BY <1>1, <1>2, <1>3, <2>1, <2>4, <3>1 DEF Deadline, Types
  <2>5. QED BY <2>3, <2>4
<1>6. HolderOwns'
  BY <1>1, <1>5 DEF HolderOwns, Holder
<1>7. RenewedInTime'
  <2> SUFFICES ASSUME NEW r \in Replicas, pc'[r] = "won"
               PROVE  left' > Refresh + MaxStall + (MaxStall - busy'[r])
    BY DEF RenewedInTime
  <2>1. Due(r) /\ pc[r] = "won"
    BY <1>1 DEF Due, InRound
  <2>2. QED BY <1>2, <1>3, <2>1 DEF RenewedInTime, Types
<1>8. OwnerKnows' /\ LoserOwnsNothing' /\ DownIsDown' /\ LeadersScan'
  BY <1>1, <1>3 DEF OwnerKnows, LoserOwnsNothing, DownIsDown, LeadersScan
<1>9. QED BY <1>4, <1>6, <1>7, <1>8

\* A holder is alone.
LEMMA OneHolder ==
  ASSUME LeaseInv, NEW r \in Replicas, NEW q \in Replicas, Holder(r), Holder(q)
  PROVE  r = q
BY DEF LeaseInv, HolderOwns

\* SET NX succeeds only when nobody holds the key, and then for a whole Ttl.
LEMMA LeaseSetNX ==
  ASSUME Prompt, LeaseInv, NEW r \in Replicas, SetNX(r)
  PROVE  LeaseInv'
<1> USE TimesAssumption, NamesAssumption DEF LeaseInv, Goto
<1>1. /\ pc[r] = "set"
      /\ UNCHANGED <<timer, busy, isLeader, scanning, fault>>
  BY DEF SetNX
<1>2. CASE owner = None /\ owner' = r /\ left' = Ttl /\ pc' = [pc EXCEPT ![r] = "won"]
  <2>1. \A q \in Replicas : ~Holder(q)
    BY <1>2 DEF HolderOwns
  <2>2. Types'
    BY <1>1, <1>2 DEF Types, Label, InRound
  <2>3. HolderOwns' /\ RenewedInTime'
    <3>1. \A q \in Replicas : Holder(q)' => q = r
      BY <1>1, <1>2, <2>1 DEF Holder, Types
    <3>2. Ttl > Refresh + MaxStall + (MaxStall - busy[r]) /\ Ttl > MaxStall - busy[r]
      BY DEF Prompt, Types
    <3>3. pc'[r] = "won"
      BY <1>2 DEF Types
    <3>4. owner' = r /\ left' = Ttl /\ busy'[r] = busy[r]
          /\ Deadline(r)' = MaxStall - busy[r]
      BY <1>1, <1>2, <3>3 DEF Deadline, Types
    <3>5. \A q \in Replicas : pc'[q] = "won" => Holder(q)'
      BY DEF Holder
    <3>6. QED
      BY <3>1, <3>2, <3>4, <3>5 DEF HolderOwns, RenewedInTime
  <2>4. OwnerKnows' /\ LoserOwnsNothing' /\ DownIsDown' /\ LeadersScan'
    BY <1>1, <1>2 DEF Types, OwnerKnows, LoserOwnsNothing, DownIsDown, LeadersScan
  <2>5. QED BY <2>2, <2>3, <2>4
<1>3. CASE UNCHANGED key /\ pc' = [pc EXCEPT ![r] = "get"]
  <2>1. Types'
    BY <1>1, <1>3 DEF key, Types, Label, InRound
  <2>2. HolderOwns' /\ RenewedInTime'
    BY <1>1, <1>3 DEF key, Types, HolderOwns, RenewedInTime, Deadline, Holder
  <2>3. OwnerKnows' /\ LoserOwnsNothing' /\ DownIsDown' /\ LeadersScan'
    BY <1>1, <1>3 DEF key, Types, OwnerKnows, LoserOwnsNothing, DownIsDown, LeadersScan
  <2>4. QED BY <2>1, <2>2, <2>3
<1>4. QED BY <1>2, <1>3 DEF SetNX, KeyFree, LeaseTtl

\* Only a replica that leads, or just won, finds its own token.
LEMMA LeaseGet ==
  ASSUME Prompt, LeaseInv, NEW r \in Replicas, Get(r)
  PROVE  LeaseInv'
<1> USE TimesAssumption, NamesAssumption DEF LeaseInv, Goto, key
<1>1. /\ pc[r] = "get" /\ pc' = [pc EXCEPT ![r] = IF owner = r THEN "expire" ELSE "lost"]
      /\ UNCHANGED <<owner, left, timer, busy, isLeader, scanning, fault>>
  BY DEF Get
<1>2. owner = r => isLeader[r]
  BY <1>1 DEF OwnerKnows
<1>3. Types'
  BY <1>1 DEF Types, Label, InRound
<1>4. HolderOwns' /\ RenewedInTime'
  BY <1>1, <1>2 DEF Types, HolderOwns, RenewedInTime, Deadline, Holder
<1>5. OwnerKnows' /\ LoserOwnsNothing' /\ DownIsDown' /\ LeadersScan'
  BY <1>1 DEF Types, OwnerKnows, LoserOwnsNothing, DownIsDown, LeadersScan
<1>6. QED BY <1>3, <1>4, <1>5

\* The key is still the one the GET found: EXPIRE extends its own lease.
LEMMA LeaseExpire ==
  ASSUME Prompt, LeaseInv, NEW r \in Replicas, Expire(r)
  PROVE  LeaseInv'
<1> USE TimesAssumption, NamesAssumption DEF LeaseInv, Goto
<1>1. /\ pc[r] = "expire" /\ pc' = [pc EXCEPT ![r] = "won"]
      /\ UNCHANGED <<owner, timer, busy, isLeader, scanning, fault>>
  BY DEF Expire
<1>2. Holder(r) /\ owner = r /\ left' = Ttl
  BY <1>1 DEF Holder, HolderOwns, Expire, LeaseTtl
<1>3. Types'
  BY <1>1, <1>2 DEF Types, Label, InRound
<1>4. HolderOwns' /\ RenewedInTime'
  <2>1. \A q \in Replicas : Holder(q)' => q = r
    BY <1>1, <1>2, OneHolder DEF Holder, Types
  <2>2. Ttl > Refresh + MaxStall + (MaxStall - busy[r]) /\ Ttl > MaxStall - busy[r]
    BY DEF Prompt, Types
  <2>3. pc'[r] = "won"
    BY <1>1 DEF Types
  <2>4. owner' = r /\ left' = Ttl /\ busy'[r] = busy[r]
        /\ Deadline(r)' = MaxStall - busy[r]
    BY <1>1, <1>2, <2>3 DEF Deadline, Types
  <2>5. \A q \in Replicas : pc'[q] = "won" => Holder(q)'
    BY DEF Holder
  <2>6. QED
    BY <2>1, <2>2, <2>4, <2>5 DEF HolderOwns, RenewedInTime
<1>5. OwnerKnows' /\ LoserOwnsNothing' /\ DownIsDown' /\ LeadersScan'
  BY <1>1 DEF Types, OwnerKnows, LoserOwnsNothing, DownIsDown, LeadersScan
<1>6. QED BY <1>3, <1>4, <1>5

LEMMA LeaseConclude ==
  ASSUME Prompt, LeaseInv, NEW r \in Replicas, Conclude(r)
  PROVE  LeaseInv'
<1> USE TimesAssumption, NamesAssumption DEF LeaseInv, Goto, key, Sleep
<1>1. /\ UNCHANGED <<owner, left, scanning, fault>>
      /\ timer' = [timer EXCEPT ![r] = Refresh] /\ busy' = [busy EXCEPT ![r] = 0]
      /\ pc' = [pc EXCEPT ![r] = "sleep"]
      /\ isLeader' = [isLeader EXCEPT ![r] = pc[r] = "won"]
      /\ pc[r] \in {"won", "lost"}
  BY DEF Conclude
<1>2. Types'
  BY <1>1 DEF Types, Label
<1>3. pc[r] = "lost" => ~isLeader[r]
  BY DEF LoserOwnsNothing, HolderOwns, Holder
<1>4. HolderOwns'
  <2> SUFFICES ASSUME NEW q \in Replicas, Holder(q)'
               PROVE  owner' = q /\ left' > Deadline(q)'
    BY DEF HolderOwns
  <2>1. CASE q = r
    <3>1. pc[r] = "won"
      BY <1>1, <2>1 DEF Holder, Types
    <3>2. owner = r /\ left > Refresh + MaxStall + (MaxStall - busy[r])
      BY <3>1 DEF HolderOwns, RenewedInTime, Holder
    <3>3. Deadline(r)' = Refresh + MaxStall - 0
      BY <1>1 DEF Deadline, Types
    <3>4. QED BY <1>1, <2>1, <3>2, <3>3 DEF Types
  <2>2. CASE q # r
    BY <1>1, <2>2 DEF HolderOwns, Holder, Deadline, Types
  <2>3. QED BY <2>1, <2>2
<1>5. RenewedInTime'
  BY <1>1 DEF RenewedInTime, Types
<1>6. OwnerKnows' /\ LoserOwnsNothing' /\ DownIsDown'
  BY <1>1 DEF Types, OwnerKnows, LoserOwnsNothing, DownIsDown
<1>7. LeadersScan'
  BY <1>1, <1>3 DEF Types, LeadersScan
<1>8. QED BY <1>2, <1>4, <1>5, <1>6, <1>7

LEMMA LeaseWake ==
  ASSUME Prompt, LeaseInv, NEW r \in Replicas, Wake(r)
  PROVE  LeaseInv'
<1> USE TimesAssumption, NamesAssumption DEF LeaseInv, Goto, key
<1>1. /\ pc[r] = "sleep" /\ timer[r] = 0 /\ pc' = [pc EXCEPT ![r] = "set"]
      /\ UNCHANGED <<owner, left, timer, busy, isLeader, scanning, fault>>
  BY DEF Wake
<1>2. Types'
  BY <1>1 DEF Types, Label, InRound
<1>3. HolderOwns' /\ RenewedInTime'
  BY <1>1 DEF Types, HolderOwns, RenewedInTime, Deadline, Holder
<1>4. OwnerKnows' /\ LoserOwnsNothing' /\ DownIsDown' /\ LeadersScan'
  BY <1>1 DEF Types, OwnerKnows, LoserOwnsNothing, DownIsDown, LeadersScan
<1>5. QED BY <1>2, <1>3, <1>4

\* A process that ends leaves no key of its own behind, or one whose token
\* nobody has.
LEMMA LeaseEnd ==
  ASSUME Prompt, LeaseInv, NEW r \in Replicas, End(r),
         left' \in Nat, owner' = None <=> left' = 0,
         owner = r => owner' \in {Gone, None},
         owner # r => UNCHANGED key
  PROVE  LeaseInv'
<1> USE TimesAssumption, NamesAssumption DEF LeaseInv, Goto, key, End
<1>1. Types'
  BY DEF Types, Label
<1>2. ASSUME NEW q \in Replicas, q # r, Holder(q)
      PROVE  UNCHANGED <<owner, left>>
  BY <1>2 DEF HolderOwns
<1>3. HolderOwns'
  BY <1>2 DEF Types, HolderOwns, Deadline, Holder
<1>4. RenewedInTime'
  BY <1>2 DEF Types, RenewedInTime, Holder
<1>5. OwnerKnows'
  <2> SUFFICES ASSUME NEW q \in Replicas, owner' = q
               PROVE  isLeader'[q] \/ pc'[q] = "won"
    BY DEF OwnerKnows
  <2>1. CASE owner = r
    BY <2>1 DEF Types
  <2>2. CASE owner # r
    BY <2>2 DEF Types, OwnerKnows
  <2>3. QED BY <2>1, <2>2
<1>6. LoserOwnsNothing' /\ DownIsDown' /\ LeadersScan'
  BY DEF Types, LoserOwnsNothing, DownIsDown, LeadersScan
<1>7. QED BY <1>1, <1>3, <1>4, <1>5, <1>6

LEMMA LeaseStop ==
  ASSUME Prompt, LeaseInv, NEW r \in Replicas, Stop(r)
  PROVE  LeaseInv'
<1> USE TimesAssumption, NamesAssumption DEF LeaseInv, Goto, key
<1>1. /\ pc[r] = "sleep" /\ pc' = [pc EXCEPT ![r] = "leaving"]
      /\ timer' = [timer EXCEPT ![r] = 0]
      /\ scanning' = [scanning EXCEPT ![r] = FALSE]
      /\ UNCHANGED <<owner, left, busy, isLeader>>
  BY DEF Stop
<1>2. Types'
  BY <1>1 DEF Types, Label, InRound
<1>3. HolderOwns' /\ RenewedInTime'
  BY <1>1 DEF Types, HolderOwns, RenewedInTime, Deadline, Holder
<1>4. OwnerKnows' /\ LoserOwnsNothing' /\ DownIsDown' /\ LeadersScan'
  BY <1>1 DEF Types, OwnerKnows, LoserOwnsNothing, DownIsDown, LeadersScan
<1>5. QED BY <1>2, <1>3, <1>4

LEMMA LeaseLeave ==
  ASSUME Prompt, LeaseInv, NEW r \in Replicas, Leave(r)
  PROVE  LeaseInv'
<1> USE TimesAssumption, NamesAssumption DEF LeaseInv, Goto, key
<1>1. CASE owner = r /\ pc' = [pc EXCEPT ![r] = "release"]
           /\ UNCHANGED <<timer, busy, isLeader, scanning>>
  <2>1. pc[r] = "leaving" /\ UNCHANGED key /\ isLeader[r]
    BY <1>1 DEF Leave, OwnerKnows
  <2>2. Types'
    BY <1>1, <2>1 DEF Types, Label, InRound
  <2>3. HolderOwns' /\ RenewedInTime'
    BY <1>1, <2>1 DEF Types, HolderOwns, RenewedInTime, Deadline, Holder
  <2>4. OwnerKnows' /\ LoserOwnsNothing' /\ DownIsDown' /\ LeadersScan'
    BY <1>1, <2>1 DEF Types, OwnerKnows, LoserOwnsNothing, DownIsDown, LeadersScan
  <2>5. QED BY <2>2, <2>3, <2>4
<1>2. CASE owner # r /\ End(r)
  BY <1>2, LeaseEnd DEF Leave, Types
<1>3. QED BY <1>1, <1>2 DEF Leave

LEMMA LeaseRestart ==
  ASSUME Prompt, LeaseInv, NEW r \in Replicas, Restart(r)
  PROVE  LeaseInv'
<1> USE TimesAssumption, NamesAssumption DEF LeaseInv, Goto, key
<1>1. /\ pc[r] = "down" /\ pc' = [pc EXCEPT ![r] = "set"]
      /\ UNCHANGED <<owner, left, timer, busy, isLeader, scanning>>
  BY DEF Restart
<1>2. Types'
  BY <1>1 DEF Types, Label, InRound
<1>3. HolderOwns' /\ RenewedInTime'
  BY <1>1 DEF Types, HolderOwns, RenewedInTime, Deadline, Holder, DownIsDown
<1>4. OwnerKnows' /\ LoserOwnsNothing' /\ DownIsDown' /\ LeadersScan'
  BY <1>1 DEF Types, OwnerKnows, LoserOwnsNothing, DownIsDown, LeadersScan
<1>5. QED BY <1>2, <1>3, <1>4

LEMMA LeaseScan ==
  ASSUME Prompt, LeaseInv, NEW r \in Replicas, StartScan(r) \/ EndScan(r)
  PROVE  LeaseInv'
<1> USE DEF LeaseInv
<1>1. UNCHANGED <<owner, left, pc, timer, busy, isLeader>>
  BY DEF StartScan, EndScan, key
<1>2. Types' /\ LeadersScan'
  BY <1>1 DEF StartScan, EndScan, MayScan, Types, LeadersScan
<1>3. HolderOwns' /\ RenewedInTime' /\ OwnerKnows' /\ LoserOwnsNothing' /\ DownIsDown'
  BY <1>1 DEF HolderOwns, RenewedInTime, Deadline, Holder, OwnerKnows,
              LoserOwnsNothing, DownIsDown
<1>4. QED BY <1>2, <1>3

LEMMA LeaseNext ==
  ASSUME Prompt
  PROVE  (erred \/ LeaseInv) /\ [Next]_vars => (erred \/ LeaseInv)'
<1>0. erred /\ [Next]_vars => erred'
  BY DEF Next, Round, Tick, Wake, SetNX, Get, Expire, Conclude, Leave, Release, Restart,
         StartScan, EndScan, Error, Crash, Stop, vars, fault
<1> SUFFICES ASSUME LeaseInv, [Next]_vars PROVE erred' \/ LeaseInv'
  BY <1>0
<1> USE DEF LeaseInv
<1>1. ASSUME NEW r \in Replicas, Crash(r)
      PROVE  LeaseInv'
  BY <1>1, LeaseEnd, NamesAssumption DEF Crash, Types, key
<1>2. ASSUME NEW r \in Replicas, Release(r)
      PROVE  LeaseInv'
  <2>1. owner = r
    BY <1>2 DEF Release, HolderOwns, Holder
  <2>2. QED BY <1>2, <2>1, LeaseEnd DEF Release
<1>3. ASSUME NEW r \in Replicas, Round(r)
      PROVE  LeaseInv'
  BY <1>2, <1>3, LeaseWake, LeaseSetNX, LeaseGet, LeaseExpire, LeaseConclude,
     LeaseLeave, LeaseRestart DEF Round
<1>4. ASSUME NEW r \in Replicas, Error(r)
      PROVE  erred'
  BY <1>4 DEF Error
<1>5. CASE UNCHANGED vars
  BY <1>5 DEF vars, key, Types, HolderOwns, RenewedInTime, OwnerKnows,
              LoserOwnsNothing, DownIsDown, LeadersScan, Holder, Deadline
<1>6. QED
  BY <1>1, <1>3, <1>4, <1>5, LeaseTick, LeaseStop, LeaseScan DEF Next

\* As long as rounds fit in the slack of the lease and no command fails, no two
\* replicas believe they lead: the cached flag of RedisLeader is safe to read.
THEOREM OneLeader ==
  ASSUME Prompt
  PROVE  Spec => []AtMostOneLeader
<1>1. erred \/ LeaseInv => AtMostOneLeader
  BY OneHolder DEF AtMostOneLeader, SoleLeader, Holder
<1>2. QED BY LeaseInit, LeaseNext, <1>1, PTL DEF Spec

\* Then GET followed by EXPIRE, and GET followed by DELETE, are as good as one
\* command: the key does not change hands between them.
THEOREM OwnLease ==
  ASSUME Prompt
  PROVE  Spec => []ActsOnOwnLease
<1>1. erred \/ LeaseInv => ActsOnOwnLease
  BY DEF LeaseInv, HolderOwns, Holder, ActsOnOwnLease
<1>2. QED BY LeaseInit, LeaseNext, <1>1, PTL DEF Spec

\* Then scans do not overlap, although scan_tenant never looks at the lease: a
\* replica that scans is still the leader, whatever the length of the scan.
THEOREM OneScan ==
  ASSUME Prompt
  PROVE  Spec => []AtMostOneScan
<1>1. erred \/ LeaseInv => AtMostOneScan
  BY OneHolder DEF LeaseInv, LeadersScan, AtMostOneScan, Holder
<1>2. QED BY LeaseInit, LeaseNext, <1>1, PTL DEF Spec

-----------------------------------------------------------------------------
(* Types, with errors too                                                   *)

LEMMA TypeRound ==
  ASSUME TypeOK, NEW r \in Replicas,
         Round(r) \/ StartScan(r) \/ EndScan(r) \/ Error(r) \/ Crash(r) \/ Stop(r)
  PROVE  TypeOK'
<1> USE TimesAssumption, NamesAssumption DEF TypeOK, key, fault, Goto, Label, InRound
<1>1. CASE Wake(r) \/ Get(r) \/ Restart(r) \/ StartScan(r) \/ EndScan(r)
  BY <1>1 DEF Wake, Get, Restart, StartScan, EndScan
<1>2. CASE SetNX(r) \/ Expire(r)
  BY <1>2 DEF SetNX, KeyFree, LeaseTtl, Expire
<1>3. CASE Conclude(r)
  <2>1. CASE Sleep(r, TRUE)
    BY <1>3, <2>1 DEF Conclude, Sleep
  <2>2. CASE Sleep(r, FALSE)
    BY <1>3, <2>2 DEF Conclude, Sleep
  <2>3. QED BY <1>3, <2>1, <2>2 DEF Conclude
<1>4. CASE Leave(r) \/ Release(r) \/ Stop(r)
  <2>1. CASE Leave(r) /\ ~End(r)
    BY <2>1 DEF Leave
  <2>2. CASE Leave(r) /\ End(r)
    BY <2>2 DEF Leave, End
  <2>3. CASE Release(r)
    BY <2>3 DEF Release, End
  <2>4. CASE Stop(r)
    BY <2>4 DEF Stop, CanFail
  <2>5. QED BY <1>4, <2>1, <2>2, <2>3, <2>4
<1>5. CASE Error(r)
  BY <1>5 DEF Error, CanFail, Sleep
<1>6. CASE Crash(r)
  BY <1>6 DEF Crash, CanFail, End
<1>7. QED BY <1>1, <1>2, <1>3, <1>4, <1>5, <1>6 DEF Round

LEMMA TypeNext == TypeOK /\ [Next]_vars => TypeOK'
<1> SUFFICES ASSUME TypeOK, [Next]_vars PROVE TypeOK'
  OBVIOUS
<1>1. CASE Tick
  BY <1>1, TimesAssumption, NamesAssumption
     DEF Tick, LeftAfterTick, Countdown, TypeOK, fault
<1>2. CASE UNCHANGED vars
  BY <1>2 DEF vars, key, fault, TypeOK
<1>3. QED BY <1>1, <1>2, TypeRound DEF Next

\* The key exists exactly as long as it has time to live, no command gives it
\* more than the lease, and no round is longer than a round may be: with any
\* errors, crashes and restarts.
THEOREM LeaseTypes == Spec => []TypeOK
<1>1. Init => TypeOK
  <2> SUFFICES ASSUME Init PROVE TypeOK
    OBVIOUS
  <2>1. owner \in Replicas \cup {Gone, None} /\ left \in 0..Ttl /\ faults \in 0..MaxFaults
    BY TimesAssumption DEF Init
  <2>2. owner = None <=> left = 0
    BY DEF Init
  <2>3. pc \in [Replicas -> Label] /\ timer \in [Replicas -> 0..Refresh]
    BY TimesAssumption DEF Init, Label, InRound
  <2>4. busy \in [Replicas -> 0..MaxStall]
    BY TimesAssumption DEF Init
  <2>5. /\ isLeader \in [Replicas -> BOOLEAN] /\ scanning \in [Replicas -> BOOLEAN]
        /\ erred \in BOOLEAN
    BY DEF Init
  <2>6. QED BY <2>1, <2>2, <2>3, <2>4, <2>5 DEF TypeOK
<1>2. QED BY <1>1, TypeNext, PTL DEF Spec

=============================================================================
