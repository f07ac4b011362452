----------------------------- MODULE UdpStream -----------------------------
(***************************************************************************)
(* One UDP data stream of a throughput test: udp_send and udp_receive of   *)
(* throughput/src/protocol/data.rs, with a network between them that       *)
(* loses, repeats and reorders datagrams.  The peer of either is iperf3,   *)
(* which numbers and counts as these do.                                   *)
(***************************************************************************)
EXTENDS Integers, FiniteSets

CONSTANTS
  Interval,     \* between two datagrams, from the rate and the block size
  MaxBacklog,   \* PACER_MAX_BACKLOG
  Window,       \* REORDER_WINDOW
  TestEnd,      \* bound: when the test ends
  MaxSequence   \* bound: datagrams that are sent

ASSUME UdpAssumption ==
  /\ Interval \in Nat \ {0} /\ MaxBacklog \in Nat /\ Window \in Nat \ {0}
  /\ TestEnd \in Nat /\ MaxSequence \in Nat

VARIABLES
  now,        \* the sender's clock
  deadline,   \* when the next datagram is due
  sequence,   \* datagrams sent
  burst,      \* how many of them at this instant
  net,        \* numbers of datagrams on their way
  warm,       \* the receiver's omission is over
  all,        \* its DatagramStats of the whole run
  measured,   \* and of the part after the omission, once there is one
  got,        \* the datagrams that arrived
  gotWarm,    \* the datagrams that arrived after the omission
  failed      \* the receiver gave up

senderVars == <<now, deadline, sequence, burst>>
receiverVars == <<warm, all, measured, got, gotWarm, failed>>
udp_vars == <<senderVars, net, receiverVars>>

----------------------------------------------------------------------------
Longer(a, b) == IF a >= b THEN a ELSE b
Tolerated == Longer(Interval, MaxBacklog)

(* A backlog larger than an interval, or than 10 ms, is dropped. *)
next_deadline(due, at) ==
  LET next == due + Interval
  IN  IF at - next > Tolerated THEN at ELSE next

Slots == 0 .. Window - 1
NoStats == [baseline |-> -1]
New(baseline) ==
  [baseline |-> baseline, highest |-> baseline, unique |-> 0, seen |-> [s \in Slots |-> 0]]

(* What was seen before the omission ended is not waited for again. *)
after_omission(stats) == New(stats.highest)

TooLate(stats, number) == number > stats.baseline /\ stats.highest - number >= Window

(* Mutant: the window forgets which datagram a slot is for. *)
observe_SlotOnly(stats, number) ==
  IF number <= stats.baseline \/ stats.seen[number % Window] # 0 THEN stats
  ELSE [stats EXCEPT !.seen[number % Window] = number, !.highest = Longer(@, number),
                     !.unique = @ + 1]

(* A number at or below the baseline or already in its slot adds nothing. *)
observe(stats, number) ==
  IF number <= stats.baseline \/ stats.seen[number % Window] = number THEN stats
  ELSE [stats EXCEPT !.seen[number % Window] = number, !.highest = Longer(@, number),
                     !.unique = @ + 1]

expected(stats) == stats.highest - stats.baseline
lost(stats) == Longer(expected(stats) - stats.unique, 0)

----------------------------------------------------------------------------
UdpInit ==
  /\ now = 0 /\ deadline = 0 /\ sequence = 0 /\ burst = 0
  /\ net = {}
  /\ warm = FALSE /\ all = New(0) /\ measured = NoStats
  /\ got = {} /\ gotWarm = {} /\ failed = FALSE

(* Time goes on, whether the task is polled or not. *)
PassTime ==
  /\ now < TestEnd
  /\ now' = now + 1 /\ burst' = 0
  /\ UNCHANGED <<deadline, sequence, net, receiverVars>>

udp_send ==
  /\ now >= deadline /\ now < TestEnd /\ sequence < MaxSequence
  /\ sequence' = sequence + 1 /\ burst' = burst + 1
  /\ net' = net \cup {sequence + 1}
  /\ deadline' = next_deadline(deadline, now)
  /\ UNCHANGED <<now, receiverVars>>

Lose == \E n \in net : net' = net \ {n} /\ UNCHANGED <<senderVars, receiverVars>>

OmissionEnds == ~warm /\ warm' = TRUE
                /\ UNCHANGED <<senderVars, net, all, measured, got, gotWarm, failed>>

(* A datagram arrives, its copy perhaps later.  The baseline of the measured part *)
(* is taken before the datagram that opens it is counted in the whole.            *)
udp_receive ==
  /\ ~failed
  /\ \E n \in net :
       LET part == IF measured = NoStats THEN after_omission(all) ELSE measured IN
       /\ net' \in {net, net \ {n}}
       /\ IF TooLate(all, n) \/ (warm /\ TooLate(part, n))
          THEN failed' = TRUE /\ UNCHANGED <<all, measured, got, gotWarm>>
          ELSE /\ measured' = IF warm THEN observe(part, n) ELSE measured
               /\ all' = observe(all, n)
               /\ got' = got \cup {n}
               /\ gotWarm' = IF warm THEN gotWarm \cup {n} ELSE gotWarm
               /\ UNCHANGED failed
  /\ UNCHANGED <<senderVars, warm>>

UdpNext == PassTime \/ udp_send \/ Lose \/ OmissionEnds \/ udp_receive
UdpSpec == UdpInit /\ [][UdpNext]_udp_vars

----------------------------------------------------------------------------
(* The loss that is reported is exact, with repeats, reordering and a ring of *)
(* slots in place of a set: over the whole run, and after the omission for    *)
(* the datagrams sent after all that had arrived in it (data.rs:168-205,      *)
(* 238-242).                                                                  *)
LossIsExact ==
  /\ all.unique = Cardinality(got) /\ lost(all) = Cardinality((1..all.highest) \ got)
  /\ measured # NoStats =>
       /\ measured.unique = Cardinality({n \in gotWarm : n > measured.baseline})
       /\ lost(measured) = Cardinality((measured.baseline + 1 .. measured.highest) \ gotWarm)
       /\ measured.highest = all.highest

(* The rate asked for is kept: never more datagrams than time for them, and   *)
(* after a stall no more at once than the tolerated backlog holds             *)
(* (data.rs:11-20, 111-139).                                                  *)
RateIsKept ==
  /\ sequence <= now \div Interval + 1
  /\ burst <= Tolerated \div Interval + 2

(* What a stream reports, and how it was sent. *)
StreamIsTrue == LossIsExact /\ RateIsKept
============================================================================
