------------------------------- MODULE LogTail -------------------------------
(***************************************************************************)
(* The tail of a remote syslog: StreamingSSHSource (sources/                *)
(* streaming_ssh.py), which runs `tail -F -n 0 | grep` over SSH, reconnects *)
(* when the link drops and yields a marker when it is quiet.                *)
(*                                                                         *)
(* tail() is a generator: it moves only while its consumer waits for the    *)
(* next item, which is when hand = Nothing.  Lines are known by their place *)
(* in the log.  The pipe of the remote process holds the places after       *)
(* `passed`, up to the end of the log or, once the remote side has closed   *)
(* it, up to `shut`.                                                        *)
(***************************************************************************)
EXTENDS Integers, Sequences

CONSTANTS
  Lines,          \* what a line of the log may be
  MaxLines,       \* bound on the log
  BackoffInitial, \* backoff_initial, in seconds
  BackoffMax,     \* backoff_max
  Faults,         \* what can go wrong: "link", "eof" and others of the modules on top
  MaxFaults,      \* bound on how often
  Nothing,        \* no item in the consumer's hand, no end of the pipe
  Heartbeat       \* the marker

ASSUME TailAssumption ==
  /\ MaxLines \in Nat /\ MaxFaults \in Nat
  /\ BackoffInitial \in Nat /\ BackoffMax \in Nat
  /\ BackoffInitial <= BackoffMax
  /\ Nothing \notin Nat /\ Heartbeat \notin Nat /\ Nothing # Heartbeat

VARIABLES
  log,     \* the lines of the remote file that match
  link,    \* where tail() is
  passed,  \* the place up to which this connection has read or skipped
  shut,    \* where the pipe ends, once the remote side has closed it
  backoff, \* the delay before the next attempt
  stop,    \* the _stop event
  hand,    \* the item the consumer is at: a place, the marker or nothing
  got,     \* the places yielded so far, in order
  faults   \* how many faults there have been

connection == <<passed, shut>>
tailVars   == <<log, link, connection, backoff, stop, hand, got, faults>>

\* "loop": at the head of the loop; "connected": the process is not started;
\* "reading": in readline(); "yielded": behind a yield; "backoff": waiting
\* before the next attempt.
Link == {"loop", "connected", "reading", "yielded", "backoff", "ended"}

CanFail(fault) == fault \in Faults /\ faults < MaxFaults

Smaller(a, b) == IF a < b THEN a ELSE b

PipeEnd == IF shut = Nothing THEN Len(log) ELSE shut
Unread  == (passed + 1)..PipeEnd

TailInit ==
  /\ log     = <<>>
  /\ link    = "loop"
  /\ passed  = 0
  /\ shut    = Nothing
  /\ backoff = BackoffInitial
  /\ stop    = FALSE
  /\ hand    = Nothing
  /\ got     = <<>>
  /\ faults  = 0

-----------------------------------------------------------------------------
(* The other side                                                           *)

WriteLine ==
  /\ Len(log) < MaxLines
  /\ \E line \in Lines : log' = Append(log, line)
  /\ UNCHANGED <<link, connection, backoff, stop, hand, got, faults>>

\* tail or grep exits: what is in the pipe can still be read.
RemoteCloses ==
  /\ link \in {"reading", "yielded"} /\ shut = Nothing
  /\ CanFail("eof")
  /\ shut'   = Len(log)
  /\ faults' = faults + 1
  /\ UNCHANGED <<log, link, passed, backoff, stop, hand, got>>

\* close()
Close ==
  /\ ~stop /\ CanFail("close")
  /\ stop'   = TRUE
  /\ faults' = faults + 1
  /\ UNCHANGED <<log, link, connection, backoff, hand, got>>

-----------------------------------------------------------------------------
(* tail()                                                                   *)

\* while not self._stop.is_set(): connect, and the backoff is reset.
Connect ==
  /\ hand = Nothing /\ link = "loop"
  /\ IF stop
     THEN link' = "ended" /\ UNCHANGED backoff
     ELSE link' = "connected" /\ backoff' = BackoffInitial
  /\ UNCHANGED <<log, connection, stop, hand, got, faults>>

\* The process starts at the end of the file (-n 0); what was written before is
\* not in its pipe.
StartOfFile == 0
EndOfLog    == Len(log)

StartTail ==
  /\ hand = Nothing /\ link = "connected"
  /\ link'   = IF stop THEN "loop" ELSE "reading"
  /\ passed' = EndOfLog
  /\ shut'   = Nothing
  /\ UNCHANGED <<log, backoff, stop, hand, got, faults>>

ReadLine ==
  /\ hand = Nothing /\ link = "reading" /\ Unread # {}
  /\ passed' = passed + 1
  /\ hand'   = passed + 1
  /\ got'    = Append(got, passed + 1)
  /\ link'   = "yielded"
  /\ UNCHANGED <<log, shut, backoff, stop, faults>>

\* Nothing to read for heartbeat_seconds.
Quiet ==
  /\ hand = Nothing /\ link = "reading" /\ Unread = {} /\ shut = Nothing
  /\ hand' = Heartbeat
  /\ link' = "yielded"
  /\ UNCHANGED <<log, connection, backoff, stop, got, faults>>

\* The event is looked at behind every yield.
AfterYieldGoesOn == "reading"
AfterYield       == IF stop THEN "ended" ELSE "reading"

\* The consumer asks for more.
ResumeAtEnd ==
  /\ hand = Nothing /\ link = "yielded"
  /\ link'   = AfterYield
  /\ passed' = Len(log)
  /\ UNCHANGED <<log, shut, backoff, stop, hand, got, faults>>

Resume ==
  /\ hand = Nothing /\ link = "yielded"
  /\ link' = AfterYield
  /\ UNCHANGED <<log, connection, backoff, stop, hand, got, faults>>

\* readline() returns an empty string: the connection is left in good order and
\* the loop goes on, without a delay.
EndOfFileAsQuiet ==
  /\ hand = Nothing /\ link = "reading" /\ Unread = {} /\ shut # Nothing
  /\ hand' = Heartbeat
  /\ link' = "yielded"
  /\ UNCHANGED <<log, connection, backoff, stop, got, faults>>

EndOfFile ==
  /\ hand = Nothing /\ link = "reading" /\ Unread = {} /\ shut # Nothing
  /\ link' = "loop"
  /\ UNCHANGED <<log, connection, backoff, stop, hand, got, faults>>

\* An exception of connect(), create_process() or readline(); what is left in
\* the pipe is gone.
LinkDrops ==
  /\ hand = Nothing /\ link \in {"loop", "connected", "reading"}
  /\ link = "loop" => ~stop
  /\ CanFail("link")
  /\ link'   = "backoff"
  /\ faults' = faults + 1
  /\ UNCHANGED <<log, connection, backoff, stop, hand, got>>

\* Twice the delay and up to a quarter of it on top.
NextBackoffUncapped(b) == {2 * b + jitter : jitter \in 0..(b \div 4)}
NextBackoff(b)         == {Smaller(BackoffMax, 2 * b + jitter) : jitter \in 0..(b \div 4)}

\* The event ends the wait; its timeout is the delay.
BackoffEnds ==
  /\ hand = Nothing /\ link = "backoff"
  /\ IF stop
     THEN link' = "ended" /\ UNCHANGED backoff
     ELSE link' = "loop" /\ backoff' \in NextBackoff(backoff)
  /\ UNCHANGED <<log, connection, stop, hand, got, faults>>

TailStep == Connect \/ StartTail \/ ReadLine \/ Quiet \/ Resume \/ EndOfFile \/ BackoffEnds

World == WriteLine \/ RemoteCloses \/ Close \/ LinkDrops

-----------------------------------------------------------------------------
(* What the tail promises                                                   *)

TailTypeOK ==
  /\ log \in Seq(Lines) /\ Len(log) <= MaxLines
  /\ link \in Link
  /\ passed \in 0..Len(log)
  /\ shut \in 0..Len(log) \cup {Nothing}
  /\ backoff \in BackoffInitial..BackoffMax
  /\ stop \in BOOLEAN
  /\ hand \in 1..Len(log) \cup {Nothing, Heartbeat}
  /\ got \in Seq(1..Len(log))
  /\ faults \in 0..MaxFaults

\* Whatever drops and reconnects, no line is yielded twice and none before one
\* that was written earlier.
InOrderOnce == \A m, n \in DOMAIN got : m < n => got[m] < got[n]

Yielded == {got[n] : n \in DOMAIN got}

\* A line that is in the pipe of a connection leaves it only by being yielded,
\* or with the connection.
NoneDropped ==
  [][\A n \in Unread :
       link \in {"reading", "yielded"} /\ link' \in {"reading", "yielded"} =>
         n > passed' \/ n \in Yielded']_tailVars
=============================================================================
