---------------------------- MODULE LeaderLease ----------------------------
(***************************************************************************)
(* Leader election among scheduler replicas: RedisLeader (services/worker/  *)
(* leader.py) over one Redis key with a time to live, and the scheduler     *)
(* loop (services/worker/scheduler.py) that scans while it is the leader.   *)
(*                                                                         *)
(* A replica keeps what it believes in a flag, which it sets after each     *)
(* round of commands and the scheduler reads at any time.  Every command is *)
(* two steps: Redis executes it, and later the replica sees the reply.      *)
(* Time passes in ticks.  Between the moment its sleep is over and the end  *)
(* of the round, a replica takes at most MaxStall ticks: network, event     *)
(* loop and all.  The code bounds that by nothing, so MaxStall is an        *)
(* assumption, and the runs take it small and large.                        *)
(***************************************************************************)
EXTENDS Integers

CONSTANTS
  Replicas,   \* scheduler processes
  Ttl,        \* leader_lock_ttl_seconds, in ticks
  Refresh,    \* leader_refresh_seconds, in ticks
  MaxStall,   \* bound on the length of a round, in ticks
  Faults,     \* what can go wrong: "error", "crash", "stop"
  MaxFaults,  \* bound on how often
  Gone,       \* the token of a process that is no more
  None        \* the key does not exist

ASSUME TimesAssumption ==
  /\ Ttl \in Nat \ {0} /\ Refresh \in Nat \ {0}
  /\ MaxStall \in Nat /\ MaxFaults \in Nat
ASSUME FaultsAssumption == Faults \subseteq {"error", "crash", "stop"}
ASSUME NamesAssumption == Gone \notin Replicas /\ None \notin Replicas \cup {Gone}

VARIABLES
  owner,     \* whose token the key holds
  left,      \* what is left of its time to live
  pc,        \* where the lease loop of a replica is
  timer,     \* what is left of its sleep
  busy,      \* for how long its round has been due or under way
  isLeader,  \* its _is_leader flag
  scanning,  \* whether its scheduler loop is in a scan
  faults,    \* how many faults there have been
  erred      \* whether a command has ever failed

key   == <<owner, left>>
fault == <<faults, erred>>
vars  == <<key, pc, timer, busy, isLeader, scanning, fault>>

\* "set", "get", "expire": the command is on its way to Redis.  "won", "lost":
\* the reply that decides the round is on its way back.  "leaving", "release":
\* stop() has its GET, its DELETE under way.
InRound == {"set", "get", "expire", "won", "lost", "leaving", "release"}
Label   == InRound \cup {"sleep", "down"}

LeaseTtlAsRefresh == Refresh
LeaseTtl          == Ttl

Goto(r, label) == pc' = [pc EXCEPT ![r] = label]

\* The round is over: wait_for(self._stop.wait(), timeout=self._refresh).
Sleep(r, leader) ==
  /\ Goto(r, "sleep")
  /\ timer'    = [timer EXCEPT ![r] = Refresh]
  /\ busy'     = [busy EXCEPT ![r] = 0]
  /\ isLeader' = [isLeader EXCEPT ![r] = leader]

-----------------------------------------------------------------------------
(* RedisLeader._run                                                         *)

Wake(r) ==
  /\ pc[r] = "sleep" /\ timer[r] = 0
  /\ Goto(r, "set")
  /\ UNCHANGED <<key, timer, busy, isLeader, scanning, fault>>

\* SET key token NX EX ttl.
KeyFreeAlways == TRUE
KeyFree       == owner = None

SetNX(r) ==
  /\ pc[r] = "set"
  /\ IF KeyFree
     THEN owner' = r /\ left' = LeaseTtl /\ Goto(r, "won")
     ELSE Goto(r, "get") /\ UNCHANGED key
  /\ UNCHANGED <<timer, busy, isLeader, scanning, fault>>

Get(r) ==
  /\ pc[r] = "get"
  /\ Goto(r, IF owner = r THEN "expire" ELSE "lost")
  /\ UNCHANGED <<key, timer, busy, isLeader, scanning, fault>>

\* EXPIRE extends the key whoever holds it by now, and a key that is gone
\* stays gone; its result is not looked at.
Expire(r) ==
  /\ pc[r] = "expire"
  /\ left' = IF owner = None THEN 0 ELSE LeaseTtl
  /\ Goto(r, "won")
  /\ UNCHANGED <<owner, timer, busy, isLeader, scanning, fault>>

Conclude(r) ==
  /\ \/ pc[r] = "won"  /\ Sleep(r, TRUE)
     \/ pc[r] = "lost" /\ Sleep(r, FALSE)
  /\ UNCHANGED <<key, scanning, fault>>

CanFail(kind) == kind \in Faults /\ faults < MaxFaults

\* A command raises, before Redis executed it or after.
Error(r) ==
  /\ CanFail("error")
  /\ pc[r] \in {"set", "get", "expire", "won", "lost"}
  /\ Sleep(r, FALSE)
  /\ faults' = faults + 1 /\ erred' = TRUE
  /\ UNCHANGED <<key, scanning>>

-----------------------------------------------------------------------------
(* The process: leader_lifecycle, RedisLeader.stop, crashes and restarts    *)

\* The process ends; its token dies with it (the next one draws its own).
End(r) ==
  /\ Goto(r, "down")
  /\ timer'    = [timer EXCEPT ![r] = 0]
  /\ busy'     = [busy EXCEPT ![r] = 0]
  /\ isLeader' = [isLeader EXCEPT ![r] = FALSE]
  /\ scanning' = [scanning EXCEPT ![r] = FALSE]

Crash(r) ==
  /\ CanFail("crash")
  /\ pc[r] # "down"
  /\ End(r)
  /\ owner' = IF owner = r THEN Gone ELSE owner
  /\ faults' = faults + 1
  /\ UNCHANGED <<left, erred>>

\* The scheduler loop is cancelled and leader_lifecycle stops the elector: the
\* lease loop ends with the round it is in, and stop() reads the key.
Stop(r) ==
  /\ CanFail("stop")
  /\ pc[r] = "sleep"
  /\ Goto(r, "leaving")
  /\ scanning' = [scanning EXCEPT ![r] = FALSE]
  /\ timer'    = [timer EXCEPT ![r] = 0]
  /\ faults'   = faults + 1
  /\ UNCHANGED <<key, busy, isLeader, erred>>

Leave(r) ==
  /\ pc[r] = "leaving"
  /\ \/ owner = r /\ Goto(r, "release")
        /\ UNCHANGED <<timer, busy, isLeader, scanning>>
     \/ owner # r /\ End(r)
  /\ UNCHANGED <<key, fault>>

\* DELETE, whoever's token the key holds by now.
Release(r) ==
  /\ pc[r] = "release"
  /\ owner' = None /\ left' = 0
  /\ End(r)
  /\ UNCHANGED fault

Restart(r) ==
  /\ pc[r] = "down"
  /\ Goto(r, "set")
  /\ UNCHANGED <<key, timer, busy, isLeader, scanning, fault>>

-----------------------------------------------------------------------------
(* run_scheduler                                                            *)

Running(r) == pc[r] \notin {"down", "leaving", "release"}

MayScanAnyway(r) == TRUE
MayScan(r)       == isLeader[r]

\* The flag is read when a tick starts, and not again while it scans.
StartScan(r) ==
  /\ Running(r) /\ MayScan(r) /\ ~scanning[r]
  /\ scanning' = [scanning EXCEPT ![r] = TRUE]
  /\ UNCHANGED <<key, pc, timer, busy, isLeader, fault>>

EndScan(r) ==
  /\ scanning[r]
  /\ scanning' = [scanning EXCEPT ![r] = FALSE]
  /\ UNCHANGED <<key, pc, timer, busy, isLeader, fault>>

-----------------------------------------------------------------------------
(* Time                                                                     *)

Due(r) == pc[r] \in InRound \/ (pc[r] = "sleep" /\ timer[r] = 0)

KeyLastsForever == left
LeftAfterTick   == IF left = 0 THEN 0 ELSE left - 1

CountdownNoFloor(n) == n - 1
Countdown(n)        == IF n = 0 THEN 0 ELSE n - 1

\* Redis drops the key when its time is over; sleeps go on; no round takes
\* longer than MaxStall.
Tick ==
  /\ \A r \in Replicas : Due(r) => busy[r] < MaxStall
  /\ left'  = LeftAfterTick
  /\ owner' = IF left' = 0 THEN None ELSE owner
  /\ timer' = [r \in Replicas |-> Countdown(timer[r])]
  /\ busy'  = [r \in Replicas |-> IF Due(r) THEN busy[r] + 1 ELSE busy[r]]
  /\ UNCHANGED <<pc, isLeader, scanning, fault>>

-----------------------------------------------------------------------------
Init ==
  /\ owner    = None
  /\ left     = 0
  /\ pc       = [r \in Replicas |-> "set"]
  /\ timer    = [r \in Replicas |-> 0]
  /\ busy     = [r \in Replicas |-> 0]
  /\ isLeader = [r \in Replicas |-> FALSE]
  /\ scanning = [r \in Replicas |-> FALSE]
  /\ faults   = 0
  /\ erred    = FALSE

Round(r) == Wake(r) \/ SetNX(r) \/ Get(r) \/ Expire(r) \/ Conclude(r)
            \/ Leave(r) \/ Release(r) \/ Restart(r)

Next ==
  \/ Tick
  \/ \E r \in Replicas :
       \/ Round(r) \/ StartScan(r) \/ EndScan(r)
       \/ Error(r) \/ Crash(r) \/ Stop(r)

Spec == Init /\ [][Next]_vars

\* Time goes on, and so does a loop that is not asleep; Kubernetes restarts a
\* process that is down.
Fairness == WF_vars(Tick) /\ \A r \in Replicas : WF_vars(Round(r))

FairSpec == Spec /\ Fairness

-----------------------------------------------------------------------------
(* What the election promises                                               *)

\* Every variable has its type; the key exists as long as it has time left.
TypeOK ==
  /\ owner \in Replicas \cup {Gone, None}
  /\ left \in 0..Ttl
  /\ owner = None <=> left = 0
  /\ pc \in [Replicas -> Label]
  /\ timer \in [Replicas -> 0..Refresh]
  /\ busy \in [Replicas -> 0..MaxStall]
  /\ isLeader \in [Replicas -> BOOLEAN]
  /\ scanning \in [Replicas -> BOOLEAN]
  /\ faults \in 0..MaxFaults
  /\ erred \in BOOLEAN

\* Only one replica believes it is the leader: what the elector is said to do.
SoleLeader ==
  \A r, q \in Replicas : isLeader[r] /\ isLeader[q] => r = q

\* As long as no command has failed, one replica at a time leads, however the
\* replicas crash, stop and come back.
AtMostOneLeader == erred \/ SoleLeader

\* Then one replica at a time scans: ticks are not fired twice.
AtMostOneScan ==
  erred \/ \A r, q \in Replicas : scanning[r] /\ scanning[q] => r = q

\* Then, between the GET that finds its own token and the EXPIRE or DELETE that
\* acts on it, the key does not pass to another replica.
ActsOnOwnLease ==
  erred \/ \A r \in Replicas : pc[r] \in {"expire", "release"} => owner = r

\* Whatever happened, there is a leader again.
Takeover == []<>(\E r \in Replicas : isLeader[r])
=============================================================================
