-------------------------- MODULE NetworkProofs -----------------------------
(***************************************************************************)
(* Proofs about the parts that measure on the network: a UDP stream, a     *)
(* throughput test, and the probes of a trace or a round.                  *)
(***************************************************************************)
EXTENDS UdpStream, ThroughputControl, NativeProbe, FiniteSetTheorems, SequenceTheorems, TLAPS

----------------------------------------------------------------------------
(***************************************************************************)
(* Proofs about a UDP stream, for any rate, tolerated backlog, window,     *)
(* length of the test and network.                                         *)
(*                                                                         *)
(* The statistics stand for the set of the datagrams that came: its        *)
(* highest, its size, and in the ring those that are near enough to the    *)
(* highest to be taken.  Two numbers in one window have different slots.   *)
(***************************************************************************)

LEMMA Division ==
  ASSUME NEW n \in Nat, NEW w \in Nat \ {0}
  PROVE  n \div w \in Nat /\ n % w \in 0..w - 1 /\ n % w = n - w * (n \div w)
<1>1. n \div w \in Nat /\ n % w \in 0..w - 1
  OBVIOUS
<1>2. n % w = n - w * (n \div w)
  OBVIOUS
<1> QED
  BY <1>1, <1>2

LEMMA Apart ==
  ASSUME NEW w \in Nat \ {0}, NEW n \in Nat, NEW m \in Nat, n < m, m - n < w
  PROVE  n % w # m % w
<1> DEFINE q == m \div w - n \div w
<1>1. n \div w \in Nat /\ n % w = n - w * (n \div w)
  BY Division
<1>2. m \div w \in Nat /\ m % w = m - w * (m \div w)
  BY Division
<1>3. q \in Int /\ w * q = w * (m \div w) - w * (n \div w)
  BY <1>1, <1>2
<1> SUFFICES ASSUME n % w = m % w PROVE FALSE
  OBVIOUS
<1>4. w * q = m - n /\ w * (m \div w) \in Int /\ w * (n \div w) \in Int
  BY <1>1, <1>2, <1>3
<1> HIDE DEF q
<1>5. w * q > 0 /\ w * q < w
  BY <1>4
<1>6. q >= 1 => w * q >= w
  BY <1>3
<1>7. q <= 0 => w * q <= 0
  BY <1>3
<1> QED
  BY <1>3, <1>5, <1>6, <1>7

LEMMA AtMost ==
  ASSUME NEW w \in Nat \ {0}, NEW n \in Nat, NEW k \in Int, w * k <= n
  PROVE  k <= n \div w
<1>1. n \div w \in Nat /\ n % w \in 0..w - 1 /\ n % w = n - w * (n \div w)
  BY Division
<1> DEFINE q == k - n \div w
<1>2. q \in Int /\ w * q = w * k - w * (n \div w)
  BY <1>1
<1>3. w * q < w
  BY <1>1, <1>2
<1> HIDE DEF q
<1>4. q >= 1 => w * q >= w
  BY <1>2
<1>5. q <= 0
  BY <1>2, <1>3, <1>4
<1> QED
  BY <1>1, <1>5 DEF q

----------------------------------------------------------------------------
(* The sender.  No datagram is due before its time; those of one instant were *)
(* due not longer ago than the backlog that is tolerated.                     *)
Paced ==
  /\ now \in Nat /\ deadline \in Nat /\ sequence \in Nat /\ burst \in Nat
  /\ Interval * (sequence - 1) <= now
  /\ deadline >= Interval * sequence
  /\ burst >= 1 => deadline + Tolerated >= now + Interval * (burst - 1)
  /\ burst >= 2 => Interval * (burst - 2) <= Tolerated

LEMMA ToleratedType == Tolerated \in Nat
  BY UdpAssumption DEF Tolerated, Longer

LEMMA Times ==
  ASSUME NEW k \in Int
  PROVE  /\ Interval * k \in Int /\ Interval * (k + 1) = Interval * k + Interval
         /\ Interval * (k - 1) = Interval * k - Interval
  BY UdpAssumption

LEMMA PacedStep ==
  ASSUME Paced, [UdpNext]_udp_vars PROVE Paced'
<1>1. Interval \in Nat \ {0} /\ Tolerated \in Nat /\ Tolerated >= 0
  BY UdpAssumption, ToleratedType
<1>2. CASE UNCHANGED senderVars
  BY <1>2 DEF Paced, senderVars
<1>3. CASE PassTime
  BY <1>3, <1>1 DEF PassTime, Paced
<1>4. CASE udp_send
  <2> DEFINE late == now - (deadline + Interval) > Tolerated
  <2>1. /\ now >= deadline /\ sequence' = sequence + 1 /\ burst' = burst + 1 /\ now' = now
        /\ deadline' = IF late THEN now ELSE deadline + Interval
    BY <1>4 DEF udp_send, next_deadline
  <2>2. /\ now \in Nat /\ deadline \in Nat /\ sequence \in Nat /\ burst \in Nat
        /\ deadline >= Interval * sequence
        /\ burst >= 1 => deadline + Tolerated >= now + Interval * (burst - 1)
    BY DEF Paced
  <2>3. /\ Interval * sequence \in Int /\ Interval * (sequence + 1) = Interval * sequence + Interval
        /\ Interval * burst \in Int /\ Interval * (burst - 1) = Interval * burst - Interval
    BY <2>2, Times
  <2>4. burst >= 1 => Interval * burst >= Interval
    BY <1>1, <2>2, <2>3
  <2>5. burst = 0 => Interval * burst = 0
    BY <1>1
  <2>6. deadline' \in Nat /\ deadline' >= Interval * (sequence + 1)
    BY <1>1, <2>1, <2>2, <2>3
  <2>7. Interval * ((sequence + 1) - 1) <= now
    BY <2>1, <2>2, <2>3
  <2>8. deadline' + Tolerated >= now + Interval * ((burst + 1) - 1)
    <3>1. (burst + 1) - 1 = burst
      BY <2>2
    <3>2. CASE burst = 0
      BY <3>1, <3>2, <1>1, <2>1, <2>2, <2>5
    <3>3. CASE burst >= 1
      <4>1. ~late
        BY <3>3, <1>1, <2>2, <2>3, <2>4
      <4> QED
        BY <4>1, <3>1, <3>3, <1>1, <2>1, <2>2, <2>3
    <3> QED
      BY <3>2, <3>3, <2>2
  <2>9. burst + 1 >= 2 => Interval * ((burst + 1) - 2) <= Tolerated
    <3>1. (burst + 1) - 2 = burst - 1
      BY <2>2
    <3> QED
      BY <3>1, <1>1, <2>1, <2>2, <2>3
  <2> QED
    BY <2>1, <2>2, <2>6, <2>7, <2>8, <2>9, <1>1 DEF Paced
<1> QED
  BY <1>2, <1>3, <1>4 DEF UdpNext, Lose, OmissionEnds, udp_receive, udp_vars

LEMMA PacedIsKept == ASSUME Paced PROVE RateIsKept
<1>1. /\ Interval \in Nat \ {0} /\ Tolerated \in Nat
      /\ now \in Nat /\ sequence \in Nat /\ burst \in Nat
  BY UdpAssumption, ToleratedType DEF Paced
<1>2. sequence - 1 \in Int /\ Interval * (sequence - 1) <= now
  BY <1>1 DEF Paced
<1>3. sequence - 1 <= now \div Interval /\ now \div Interval \in Nat
  BY <1>1, <1>2, AtMost, Division
<1>4. Tolerated \div Interval \in Nat
  BY <1>1, Division
<1>5. CASE burst >= 2
  <2>1. burst - 2 \in Int /\ Interval * (burst - 2) <= Tolerated
    BY <1>1, <1>5 DEF Paced
  <2>2. burst - 2 <= Tolerated \div Interval
    BY <1>1, <2>1, AtMost
  <2> QED
    BY <1>1, <1>3, <1>4, <2>2 DEF RateIsKept
<1> QED
  BY <1>1, <1>3, <1>4, <1>5 DEF RateIsKept

----------------------------------------------------------------------------
(* The receiver. *)
Stats == [baseline : Nat, highest : Nat, unique : Nat, seen : [Slots -> Nat]]

Tracks(stats, came) ==
  /\ stats \in Stats /\ stats.baseline <= stats.highest
  /\ came \subseteq stats.baseline + 1 .. stats.highest
  /\ stats.unique = Cardinality(came)
  /\ \A n \in Nat : n \in came /\ stats.highest - n < Window => stats.seen[n % Window] = n
  /\ \A s \in Slots : stats.seen[s] \in came \cup {0}

(* The datagrams of a part. *)
Part(stats, came) == {n \in came : n > stats.baseline}

LEMMA NewTracks ==
  ASSUME NEW b \in Nat PROVE New(b) \in Stats /\ Tracks(New(b), {}) /\ New(b).highest = b
<1>1. Slots # {} /\ [s \in Slots |-> 0] \in [Slots -> Nat]
  BY UdpAssumption DEF Slots
<1>2. New(b) \in Stats
  BY <1>1 DEF New, Stats
<1> QED
  BY <1>2, FS_EmptySet DEF New, Tracks

LEMMA CameIsFinite ==
  ASSUME NEW a \in Nat, NEW b \in Nat, NEW came, came \subseteq a + 1 .. b
  PROVE  IsFiniteSet(came) /\ IsFiniteSet(a + 1 .. b)
<1> DEFINE whole == a + 1 .. b
<1>1. IsFiniteSet(whole)
  BY FS_Interval
<1>2. came \in SUBSET whole
  OBVIOUS
<1> HIDE DEF whole
<1>3. IsFiniteSet(came)
  BY <1>1, <1>2, FS_Subset
<1> QED
  BY <1>1, <1>3 DEF whole

LEMMA ObserveTracks ==
  ASSUME NEW stats, NEW came, Tracks(stats, came), NEW n \in Nat, ~TooLate(stats, n)
  PROVE  /\ Tracks(observe(stats, n), IF n > stats.baseline THEN came \cup {n} ELSE came)
         /\ observe(stats, n).baseline = stats.baseline
         /\ observe(stats, n).highest = Longer(stats.highest, n)
<1>1. /\ stats \in Stats /\ stats.baseline \in Nat /\ stats.highest \in Nat /\ stats.unique \in Nat
      /\ stats.seen \in [Slots -> Nat] /\ stats.baseline <= stats.highest
      /\ came \subseteq stats.baseline + 1 .. stats.highest
      /\ Window \in Nat \ {0}
  BY UdpAssumption DEF Tracks, Stats
<1>2. n % Window \in Slots
  BY <1>1, Division DEF Slots
<1>6. /\ stats.unique = Cardinality(came)
      /\ \A m \in Nat : m \in came /\ stats.highest - m < Window => stats.seen[m % Window] = m
      /\ \A s \in Slots : stats.seen[s] \in came \cup {0}
  BY DEF Tracks
<1>3. CASE n <= stats.baseline
  BY <1>3, <1>1 DEF observe, Longer
<1>4. CASE n > stats.baseline /\ stats.seen[n % Window] = n
  <2>1. n \in came
    BY <1>4, <1>1, <1>2 DEF Tracks
  <2>2. came \cup {n} = came /\ n <= stats.highest
    BY <2>1, <1>1
  <2> QED
    BY <2>2, <1>1, <1>4 DEF observe, Longer
<1>5. CASE n > stats.baseline /\ stats.seen[n % Window] # n
  <2> DEFINE next == observe(stats, n)
             top == Longer(stats.highest, n)
  <2>1. next = [stats EXCEPT !.seen[n % Window] = n, !.highest = top, !.unique = @ + 1]
    BY <1>1, <1>5 DEF observe
  <2>2. /\ top \in Nat /\ top >= stats.highest /\ top >= n /\ (top = n \/ top = stats.highest)
    BY <1>1 DEF Longer
  <2>3. stats.highest - n < Window
    BY <1>1, <1>5 DEF TooLate
  <2>4. /\ next \in Stats /\ next.baseline = stats.baseline /\ next.highest = top
        /\ next.unique = stats.unique + 1
        /\ next.seen = [stats.seen EXCEPT ![n % Window] = n]
    <3> DEFINE slot == n % Window
               ring == [stats.seen EXCEPT ![slot] = n]
    <3>1. ring \in [Slots -> Nat]
      BY <1>1, <1>2
    <3>2. next = [stats EXCEPT !.seen[slot] = n, !.highest = top, !.unique = stats.unique + 1]
      BY <2>1
    <3> HIDE DEF next, slot, top
    <3>3. stats \in [baseline : Nat, highest : Nat, unique : Nat, seen : [Slots -> Nat]]
      BY <1>1 DEF Stats
    <3>4. /\ next.baseline = stats.baseline /\ next.highest = top
          /\ next.unique = stats.unique + 1 /\ next.seen = ring
      BY <3>2, <3>3
    <3>5. next = [baseline |-> stats.baseline, highest |-> top, unique |-> stats.unique + 1,
                  seen |-> ring]
      BY <3>2, <3>3
    <3>6. next \in Stats
      BY <3>1, <3>5, <2>2, <1>1 DEF Stats
    <3> QED
      BY <3>4, <3>6 DEF slot, top
  <2> HIDE DEF next
  <2>5. n \notin came
    BY <2>3, <1>5, <1>6
  <2>6. IsFiniteSet(came)
    BY <1>1, CameIsFinite
  <2>7. next.unique = Cardinality(came \cup {n})
    <3>1. Cardinality(came \cup {n}) = Cardinality(came) + 1
      BY <2>5, <2>6, FS_AddElement
    <3> QED
      BY <3>1, <2>4, <1>6
  <2>8. came \cup {n} \subseteq next.baseline + 1 .. next.highest /\ next.baseline <= next.highest
    BY <1>1, <1>5, <2>2, <2>4
  <2>9. ASSUME NEW m \in Nat, m \in came, next.highest - m < Window PROVE next.seen[m % Window] = m
    <3> HIDE DEF top
    <3>1. top - m < Window
      BY <2>9, <2>4
    <3>2. stats.highest - m < Window
      BY <3>1, <1>1, <2>2
    <3>3. m \in Nat /\ m # n /\ stats.highest - m < Window
      BY <2>9, <2>5, <3>2
    <3>4. m % Window \in Slots /\ stats.seen[m % Window] = m
      <4>1. m % Window \in Slots
        BY <3>3, <1>1, Division DEF Slots
      <4> QED
        BY <4>1, <3>3, <2>9, <1>6
    <3>5. m < n => n - m < Window
      BY <3>1, <2>2, <1>1
    <3>6. m > n => m - n < Window
      BY <2>9, <2>3, <1>1
    <3>7. m % Window # n % Window
      <4>1. CASE m < n
        BY <4>1, <3>3, <3>5, <1>1, Apart
      <4>2. CASE n < m
        BY <4>2, <3>3, <3>6, <1>1, Apart
      <4> QED
        BY <4>1, <4>2, <3>3
    <3> QED
      BY <3>4, <3>7, <2>4, <1>1
  <2>10. next.seen[n % Window] = n
    BY <1>1, <1>2, <2>4
  <2>11. \A s \in Slots : next.seen[s] \in (came \cup {n}) \cup {0}
    BY <1>1, <1>2, <2>4 DEF Tracks
  <2>12. Tracks(next, came \cup {n})
    BY <2>4, <2>7, <2>8, <2>9, <2>10, <2>11 DEF Tracks
  <2> QED
    BY <2>12, <2>4, <1>5, <1>1 DEF next
<1> QED
  BY <1>1, <1>3, <1>4, <1>5

----------------------------------------------------------------------------
(* What is reported of the set that came. *)
LEMMA TracksIsExact ==
  ASSUME NEW stats, NEW came, Tracks(stats, came)
  PROVE  lost(stats) = Cardinality((stats.baseline + 1 .. stats.highest) \ came)
<1> DEFINE whole == stats.baseline + 1 .. stats.highest
<1>1. /\ stats.baseline \in Nat /\ stats.highest \in Nat /\ stats.baseline <= stats.highest
      /\ came \subseteq whole /\ stats.unique = Cardinality(came)
  BY DEF Tracks, Stats
<1>2. IsFiniteSet(whole) /\ IsFiniteSet(came)
  BY <1>1, CameIsFinite
<1>3. Cardinality(whole) = stats.highest - stats.baseline
  <2>1. stats.baseline + 1 \in Int /\ stats.highest \in Int
    BY <1>1
  <2>2. Cardinality(whole) = IF stats.baseline + 1 > stats.highest THEN 0
                             ELSE stats.highest - (stats.baseline + 1) + 1
    BY <2>1, FS_Interval
  <2> HIDE DEF whole
  <2> QED
    BY <2>2, <1>1
<1> HIDE DEF whole
<1>4. Cardinality(whole \ came) = Cardinality(whole) - Cardinality(came)
  <2>1. whole \cap came = came
    BY <1>1
  <2> QED
    BY <1>2, <2>1, FS_Difference
<1>5. Cardinality(came) \in Nat /\ Cardinality(came) <= Cardinality(whole)
  <2>1. came \in SUBSET whole
    BY <1>1
  <2> QED
    BY <1>2, <2>1, FS_Subset, FS_CardinalityType
<1>6. lost(stats) = Cardinality(whole) - Cardinality(came)
  BY <1>1, <1>3, <1>5 DEF lost, expected, Longer
<1> QED
  BY <1>4, <1>6 DEF whole

(* The whole run, and the part after the omission, which opens with what the  *)
(* whole had as its highest.                                                  *)
Received ==
  /\ net \subseteq Nat \ {0} /\ warm \in BOOLEAN
  /\ Tracks(all, got) /\ all.baseline = 0
  /\ measured = NoStats => gotWarm = {}
  /\ measured # NoStats =>
       /\ warm /\ Tracks(measured, Part(measured, gotWarm)) /\ measured.highest = all.highest

LEMMA ReceivedInit == ASSUME UdpInit PROVE Received
  BY NewTracks DEF UdpInit, Received, New

LEMMA StatsAreStats == ASSUME NEW stats \in Stats PROVE stats # NoStats
<1>1. stats.baseline \in Nat
  BY DEF Stats
<1>2. NoStats.baseline = -1
  BY DEF NoStats
<1> QED
  BY <1>1, <1>2

LEMMA ReceivedStep ==
  ASSUME Received, sequence \in Nat, [UdpNext]_udp_vars PROVE Received'
<1>1. CASE UNCHANGED receiverVars /\ net' \subseteq Nat \ {0}
  BY <1>1 DEF Received, receiverVars
<1>2. CASE OmissionEnds
  BY <1>2 DEF OmissionEnds, Received
<1>3. CASE udp_receive
  <2>1. PICK n \in net :
          LET part == IF measured = NoStats THEN after_omission(all) ELSE measured IN
          /\ net' \in {net, net \ {n}}
          /\ IF TooLate(all, n) \/ (warm /\ TooLate(part, n))
             THEN failed' = TRUE /\ UNCHANGED <<all, measured, got, gotWarm>>
             ELSE /\ measured' = IF warm THEN observe(part, n) ELSE measured
                  /\ all' = observe(all, n)
                  /\ got' = got \cup {n}
                  /\ gotWarm' = IF warm THEN gotWarm \cup {n} ELSE gotWarm
                  /\ UNCHANGED failed
    BY <1>3 DEF udp_receive
  <2> DEFINE part == IF measured = NoStats THEN after_omission(all) ELSE measured
  <2>2. /\ net' \subseteq Nat \ {0} /\ n \in Nat /\ n > 0 /\ warm' = warm
        /\ warm \in BOOLEAN /\ all.highest \in Nat /\ all \in Stats
    BY <1>3, <2>1 DEF Received, udp_receive, Tracks, Stats
  <2>3. CASE TooLate(all, n) \/ (warm /\ TooLate(part, n))
    BY <2>1, <2>2, <2>3 DEF Received
  <2>4. CASE ~(TooLate(all, n) \/ (warm /\ TooLate(part, n)))
    <3>1. /\ measured' = IF warm THEN observe(part, n) ELSE measured
          /\ all' = observe(all, n) /\ got' = got \cup {n}
          /\ gotWarm' = IF warm THEN gotWarm \cup {n} ELSE gotWarm
      BY <2>1, <2>4
    <3>2. /\ Tracks(all', got') /\ all'.baseline = 0
          /\ all'.highest = Longer(all.highest, n)
      BY <2>2, <2>4, <3>1, ObserveTracks DEF Received
    <3>3. CASE ~warm
      <4>1. measured = NoStats /\ measured' = NoStats /\ gotWarm' = {}
        BY <3>1, <3>3 DEF Received
      <4> QED
        BY <2>2, <3>2, <4>1 DEF Received
    <3>4. CASE warm
      <4>1. Tracks(part, Part(part, gotWarm)) /\ part.highest = all.highest /\ part \in Stats
        <5>1. CASE measured = NoStats
          <6>1. part = New(all.highest) /\ gotWarm = {}
            BY <5>1 DEF after_omission, Received
          <6>2. Part(part, gotWarm) = {}
            BY <6>1 DEF Part
          <6> QED
            BY <2>2, <6>1, <6>2, NewTracks
        <5>2. CASE measured # NoStats
          BY <5>2 DEF Received, Tracks
        <5> QED
          BY <5>1, <5>2
      <4>2. ~TooLate(part, n) /\ measured' = observe(part, n) /\ gotWarm' = gotWarm \cup {n}
        BY <2>4, <3>1, <3>4
      <4> HIDE DEF part
      <4>3. /\ Tracks(measured', IF n > part.baseline THEN Part(part, gotWarm) \cup {n}
                                                       ELSE Part(part, gotWarm))
            /\ measured'.baseline = part.baseline
            /\ measured'.highest = Longer(part.highest, n)
        BY <2>2, <4>1, <4>2, ObserveTracks
      <4>4. Part(measured', gotWarm') = IF n > part.baseline THEN Part(part, gotWarm) \cup {n}
                                                              ELSE Part(part, gotWarm)
        BY <4>2, <4>3 DEF Part
      <4>5. measured' \in Stats
        BY <4>3 DEF Tracks
      <4>6. measured' # NoStats
        BY <4>5, StatsAreStats
      <4> QED
        BY <2>2, <3>2, <3>4, <4>1, <4>3, <4>4, <4>6 DEF Received
    <3> QED
      BY <2>2, <3>3, <3>4
  <2> QED
    BY <2>3, <2>4
<1>4. CASE udp_send
  <2>1. net' = net \cup {sequence + 1} /\ UNCHANGED receiverVars
    BY <1>4 DEF udp_send
  <2> QED
    BY <1>1, <2>1 DEF Received
<1>5. CASE PassTime \/ Lose
  <2>1. net' \subseteq net /\ UNCHANGED receiverVars
    BY <1>5 DEF PassTime, Lose
  <2> QED
    BY <1>1, <2>1 DEF Received
<1>6. CASE UNCHANGED udp_vars
  BY <1>1, <1>6 DEF udp_vars, Received
<1> QED
  BY <1>2, <1>3, <1>4, <1>5, <1>6 DEF UdpNext

LEMMA ReceivedIsExact == ASSUME Received PROVE LossIsExact
<1>1. /\ all.baseline = 0 /\ all.unique = Cardinality(got)
      /\ lost(all) = Cardinality((0 + 1 .. all.highest) \ got)
  BY TracksIsExact DEF Received, Tracks
<1>2. ASSUME measured # NoStats
      PROVE  /\ measured.unique = Cardinality({n \in gotWarm : n > measured.baseline})
             /\ lost(measured) = Cardinality((measured.baseline + 1 .. measured.highest) \ gotWarm)
             /\ measured.highest = all.highest
  <2>1. Tracks(measured, Part(measured, gotWarm)) /\ measured.highest = all.highest
    BY <1>2 DEF Received
  <2>2. /\ measured.unique = Cardinality(Part(measured, gotWarm))
        /\ measured.baseline \in Nat /\ measured.highest \in Nat
    BY <2>1 DEF Tracks, Stats
  <2>3. (measured.baseline + 1 .. measured.highest) \ Part(measured, gotWarm)
          = (measured.baseline + 1 .. measured.highest) \ gotWarm
    BY <2>2 DEF Part
  <2>4. lost(measured) = Cardinality((measured.baseline + 1 .. measured.highest) \ gotWarm)
    BY <2>1, <2>3, TracksIsExact
  <2> QED
    BY <2>1, <2>2, <2>4 DEF Part
<1> QED
  BY <1>1, <1>2 DEF LossIsExact

(* What a stream reports and how it was sent: the loss is exact and the rate  *)
(* is kept, for any window, rate and network (data.rs:11-20, 111-242).        *)
THEOREM StreamIsTrueHolds == UdpSpec => []StreamIsTrue
<1>1. UdpInit => Paced /\ Received
  <2>1. UdpInit => Received
    BY ReceivedInit
  <2>2. ASSUME UdpInit PROVE Paced
    <3>1. Interval * 0 = 0 /\ Interval * (0 - 1) <= 0
      BY UdpAssumption
    <3> QED
      BY <2>2, <3>1 DEF UdpInit, Paced
  <2> QED
    BY <2>1, <2>2
<1>2. (Paced /\ Received) /\ [UdpNext]_udp_vars => (Paced /\ Received)'
  <2> SUFFICES ASSUME Paced, Received, [UdpNext]_udp_vars PROVE Paced' /\ Received'
    OBVIOUS
  <2>1. sequence \in Nat
    BY DEF Paced
  <2> QED
    BY <2>1, PacedStep, ReceivedStep
<1>3. Paced /\ Received => StreamIsTrue
  BY PacedIsKept, ReceivedIsExact DEF StreamIsTrue
<1> QED
  BY <1>1, <1>2, <1>3, PTL DEF UdpSpec

----------------------------------------------------------------------------
(***************************************************************************)
(* Proofs about a throughput test, for any tests, retries, addresses and   *)
(* number of failures of the server and the network.                       *)
(*                                                                         *)
(* What a connection hears as results is what the server gave for its      *)
(* attempt, or cannot be accepted; and an attempt that goes on after its   *)
(* data has all of its streams, and after it has read the results those of *)
(* its own, not what an attempt before it left.                            *)
(***************************************************************************)
Stream == {"none", "open", "running", "held", "aborting", "closed"}
Spoken == {"ACCESS_DENIED", "EOF", "SERVER_TERMINATE", "SERVER_ERROR", "PARAM_EXCHANGE",
           "CREATE_STREAMS", "TEST_START", "TEST_RUNNING", "EXCHANGE_RESULTS", "DISPLAY_RESULTS"}

(* What the server may have given for an attempt. *)
Given == [kind : {"results"}, ids : {Ids, <<>>, [Ids EXCEPT ![Total] = 2]}, sane : BOOLEAN]
Fits(a) == [kind : Spoken] \cup {m \in Given : m.ids = Ids /\ m.sane => a \in served}

ControlTypes ==
  /\ spec \in Specs /\ cancelled \in BOOLEAN /\ attempt \in Attempts
  /\ pc \in {"validate", "resolve", "connect", "talk", "build", "backoff", "ended"}
  /\ line \in 1..14
  /\ stream \in [Attempts -> [Index -> Stream]]
  /\ DOMAIN toClient = Attempts

HearsItsOwn == \A a \in Attempts : toClient[a] \in Seq(Fits(a))

AfterData    == (pc = "talk" /\ line > 8) \/ pc = "build"
AfterResults == (pc = "talk" /\ line > 12) \/ pc = "build"

AttemptIsWhole ==
  /\ AfterData => \A i \in Index : Mine[i] = "held"
  /\ AfterResults => answer \in Fits(attempt) /\ answer.kind = "results"

RetriesAreLeft == pc = "backoff" => attempt + 1 \in Attempts

ControlInv ==
  /\ ControlTypes /\ HearsItsOwn /\ AttemptIsWhole /\ RetriesAreLeft
  /\ outcome = "ok" => pc = "ended"
  /\ OutcomeIsTrue

----------------------------------------------------------------------------
(* Lines, streams and results. *)
LEMMA Lines ==
  ASSUME line \in 1..14
  PROVE  /\ Script[line][1] = "data" <=> line = 8
         /\ Script[line][1] = "streams" <=> line = 5
         /\ Script[line][1] = "read" <=> line = 12
         /\ Script[line][1] = "write" => line \notin {5, 8, 12}
         /\ Script[line][1] = "expect" => line \notin {5, 8, 12}
         /\ Len(Script) = 14
<1>1. /\ Len(Script) = 14
      /\ Script[1][1] = "write" /\ Script[2][1] = "expect" /\ Script[3][1] = "write"
      /\ Script[4][1] = "expect" /\ Script[5][1] = "streams" /\ Script[6][1] = "expect"
      /\ Script[7][1] = "expect" /\ Script[8][1] = "data" /\ Script[9][1] = "write"
      /\ Script[10][1] = "expect" /\ Script[11][1] = "write" /\ Script[12][1] = "read"
      /\ Script[13][1] = "expect" /\ Script[14][1] = "write"
  BY DEF Script
<1>2. line \in {1, 2, 3, 4, 5, 6, 7, 8, 9, 10, 11, 12, 13, 14}
  OBVIOUS
<1> HIDE DEF Script
<1> QED
  BY <1>1, <1>2

LEMMA Streams ==
  ASSUME spec \in Specs
  PROVE  /\ Total \in Nat \ {0} /\ Index = 1..Total /\ Total \in Index
         /\ Ids \in Seq(Nat) /\ Len(Ids) = Total
         /\ \A i \in Index : Ids[i] = stream_id(i) /\ Ids[i] # 2
<1>1. Total \in Nat \ {0}
  BY ThroughputAssumption DEF Total
<1>2. \A i \in Index : stream_id(i) \in Nat /\ stream_id(i) # 2
  BY <1>1 DEF Index, stream_id
<1>3. Ids \in Seq(Nat) /\ Len(Ids) = Total
  BY <1>1, <1>2 DEF Ids, Index
<1> QED
  BY <1>1, <1>2, <1>3 DEF Ids, Index

(* Of what may have been given only the server's own word is acceptable. *)
LEMMA AcceptableIsServed ==
  ASSUME spec \in Specs, NEW a, answer \in Fits(a), answer.kind = "results", acceptable(answer)
  PROVE  a \in served /\ answer.ids = Ids
<1>1. /\ answer \in Given /\ answer.sane
      /\ answer.ids = Ids /\ answer.sane => a \in served
  <2>1. answer \notin [kind : Spoken]
    BY DEF Spoken
  <2> QED
    BY <2>1 DEF Fits, acceptable
<1>2. answer.ids \in {Ids, <<>>, [Ids EXCEPT ![Total] = 2]}
  BY <1>1 DEF Given
<1>3. answer.ids # <<>>
  BY Streams DEF acceptable
<1>4. ASSUME answer.ids = [Ids EXCEPT ![Total] = 2] PROVE FALSE
  <2>1. Len(answer.ids) = Total /\ answer.ids[Total] = 2 /\ Total \in 1..Len(answer.ids)
    BY <1>4, Streams DEF acceptable
  <2>2. 2 \in {answer.ids[n] : n \in 1..Len(answer.ids)}
    BY <2>1
  <2>3. 2 \in {Ids[i] : i \in Index}
    BY <2>2 DEF acceptable
  <2> QED
    BY <2>3, Streams
<1> QED
  BY <1>1, <1>2, <1>3, <1>4

LEMMA SpokenStates ==
  ASSUME NEW kinds \in Seq(Spoken), NEW a PROVE States(kinds) \in Seq(Fits(a))
<1>1. \A n \in 1..Len(kinds) : Message(kinds[n]) \in Fits(a)
  BY DEF Message, Fits
<1> QED
  BY <1>1 DEF States

LEMMA SpokenFits ==
  ASSUME NEW a
  PROVE  Message("DISPLAY_RESULTS") \in Fits(a) /\ Message("DISPLAY_RESULTS") \in Fits(a)'
  BY DEF Message, Fits, Spoken

LEMMA PairOfSet == ASSUME NEW S, NEW x \in S, NEW y \in S PROVE <<x, y>> \in Seq(S)
  OBVIOUS

LEMMA SpokenTuples ==
  /\ <<>> \in Seq(Spoken) /\ \A x \in Spoken : <<x>> \in Seq(Spoken)
  /\ \A x, y \in Spoken : <<x, y>> \in Seq(Spoken)
  OBVIOUS

LEMMA LateFits ==
  ASSUME served \subseteq served', UNCHANGED spec, NEW a \in Attempts
  PROVE  Fits(a) \subseteq Fits(a)' /\ Seq(Fits(a)) \subseteq Seq(Fits(a)')
<1>1. Fits(a) \subseteq Fits(a)'
  BY DEF Fits, Given, Ids, Index, Total, stream_id
<1> QED
  BY <1>1

----------------------------------------------------------------------------
(* The ends. *)

(* An attempt that ends leaves nothing of its own running and takes no       *)
(* results with it.                                                          *)
LEMMA EndsInv ==
  ASSUME ControlInv, NEW error, error # "ok", pc # "ended", decide(error), Drop,
         UNCHANGED <<spec, attempt, line, answer, cancelled, served>>,
         DOMAIN toClient' = Attempts, \A a \in Attempts : toClient'[a] \in Seq(Fits(a))
  PROVE  ControlInv'
<1>1. /\ attempt \in Attempts /\ stream \in [Attempts -> [Index -> Stream]]
      /\ outcome # "ok" /\ cancelled \in BOOLEAN
  BY DEF ControlInv, ControlTypes
<1>2. pc' \in {"backoff", "ended"} /\ outcome' # "ok"
  BY <1>1 DEF decide, End
<1>3. pc' = "ended" /\ cancelled' => outcome' = "Cancelled"
  BY <1>1 DEF decide, End
<1>4. stream' \in [Attempts -> [Index -> Stream]]
  <2> DEFINE dropped == [i \in Index |-> CASE Mine[i] = "running" -> "aborting"
                                           [] Mine[i] \in {"open", "held"} -> "closed"
                                           [] OTHER -> Mine[i]]
  <2>1. stream' = [stream EXCEPT ![attempt] = dropped]
    BY DEF Drop
  <2>2. Mine \in [Index -> Stream]
    BY <1>1 DEF Mine
  <2>3. dropped \in [Index -> Stream]
    BY <2>2 DEF Stream
  <2> HIDE DEF dropped
  <2> QED
    BY <1>1, <2>1, <2>3
<1>5. ControlTypes'
  BY <1>2, <1>4 DEF ControlInv, ControlTypes, Index, Total, Attempts
<1>6. HearsItsOwn'
  BY DEF HearsItsOwn, Fits, Given, Ids, Index, Total
<1>8. RetriesAreLeft'
  BY <1>1, ThroughputAssumption DEF decide, End, RetriesAreLeft, Attempts
<1>7. AttemptIsWhole' /\ OutcomeIsTrue'
  BY <1>2, <1>3 DEF AttemptIsWhole, AfterData, AfterResults, OutcomeIsTrue, SuccessIsAgreed,
       CancelledIsReported
<1> QED
  BY <1>2, <1>5, <1>6, <1>7, <1>8 DEF ControlInv

LEMMA ListenFits ==
  ASSUME ControlInv, Listen, Heard # <<>>, UNCHANGED <<spec, served>>
  PROVE  /\ Head(Heard) \in Fits(attempt)
         /\ DOMAIN toClient' = Attempts /\ \A a \in Attempts : toClient'[a] \in Seq(Fits(a))
<1>1. /\ attempt \in Attempts /\ DOMAIN toClient = Attempts
      /\ \A a \in Attempts : toClient[a] \in Seq(Fits(a))
  BY DEF ControlInv, ControlTypes, HearsItsOwn
<1>2. Heard \in Seq(Fits(attempt)) /\ Heard # <<>>
  BY <1>1 DEF Heard
<1>3. Head(Heard) \in Fits(attempt) /\ Tail(Heard) \in Seq(Fits(attempt))
  BY <1>2, HeadTailProperties
<1>4. /\ DOMAIN toClient' = Attempts /\ toClient'[attempt] = Tail(Heard)
      /\ \A a \in Attempts \ {attempt} : toClient'[a] = toClient[a]
  BY <1>1 DEF Listen, Heard
<1> QED
  BY <1>1, <1>3, <1>4

(* Steps of the attempt that end nothing. *)
LEMMA QuietInv ==
  ASSUME ControlInv, UNCHANGED <<spec, attempt, cancelled, served, outcome>>, pc # "ended",
         DOMAIN toClient' = Attempts, \A a \in Attempts : toClient'[a] \in Seq(Fits(a)),
         pc' \in {"validate", "resolve", "connect", "talk", "build"},
         line' \in 1..14, stream' \in [Attempts -> [Index -> Stream]],
         AfterData' => \A i \in Index : stream'[attempt][i] = "held",
         AfterResults' => answer' \in Fits(attempt) /\ answer'.kind = "results"
  PROVE  ControlInv'
<1>1. outcome # "ok" /\ attempt \in Attempts
  BY DEF ControlInv, ControlTypes
<1>2. ControlTypes'
  BY DEF ControlInv, ControlTypes, Index, Total, Attempts
<1>3. HearsItsOwn'
  BY DEF ControlInv, HearsItsOwn, Fits, Given, Ids, Index, Total
<1>4. AttemptIsWhole'
  <2>1. AfterData' => \A i \in Index' : Mine'[i] = "held"
    BY DEF Mine, Index, Total
  <2>2. AfterResults' => answer' \in Fits(attempt)' /\ answer'.kind = "results"
    BY DEF ControlInv, AttemptIsWhole, Fits, Given, Ids, Index, Total
  <2> QED
    BY <2>1, <2>2 DEF AttemptIsWhole
<1> QED
  BY <1>1, <1>2, <1>3, <1>4
  DEF ControlInv, RetriesAreLeft, OutcomeIsTrue, SuccessIsAgreed, CancelledIsReported

LEMMA SameHeard ==
  ASSUME ControlInv, UNCHANGED toClient
  PROVE  DOMAIN toClient' = Attempts /\ \A a \in Attempts : toClient'[a] \in Seq(Fits(a))
  BY DEF ControlInv, ControlTypes, HearsItsOwn

(* The next line of the script, which is neither after the data nor after the *)
(* results for the first time.                                                *)
LEMMA GoesOnInv ==
  ASSUME ControlInv, pc = "talk", line \notin {8, 12, 14}, GoOn,
         UNCHANGED <<cancelled, served, stream, answer>>,
         DOMAIN toClient' = Attempts, \A a \in Attempts : toClient'[a] \in Seq(Fits(a))
  PROVE  ControlInv'
<1>1. /\ line \in 1..14 /\ stream \in [Attempts -> [Index -> Stream]]
      /\ UNCHANGED <<spec, attempt, pc, outcome>> /\ line' = line + 1 /\ line' \in 1..14
  BY DEF ControlInv, ControlTypes, GoOn
<1>2. (AfterData' => AfterData) /\ (AfterResults' => AfterResults)
  BY <1>1 DEF AfterData, AfterResults
<1>3. /\ AfterData => \A i \in Index : stream[attempt][i] = "held"
      /\ AfterResults => answer \in Fits(attempt) /\ answer.kind = "results"
  BY DEF ControlInv, AttemptIsWhole, Mine
<1> QED
  BY <1>1, <1>2, <1>3, QuietInv

(* Steps of the server, which the client hears of. *)
LEMMA ServerInv ==
  ASSUME ControlInv, UNCHANGED <<clientVars, cancelled>>, served \subseteq served',
         DOMAIN toClient' = Attempts, \A a \in Attempts : toClient'[a] \in Seq(Fits(a)')
  PROVE  ControlInv'
<1>1. UNCHANGED <<spec, attempt, pc, line, stream, answer, outcome>>
  BY DEF clientVars
<1>2. ControlTypes'
  BY <1>1 DEF ControlInv, ControlTypes, Index, Total, Attempts
<1>3. HearsItsOwn'
  BY DEF HearsItsOwn
<1>4. attempt \in Attempts /\ Fits(attempt) \subseteq Fits(attempt)'
  BY <1>1, LateFits DEF ControlInv, ControlTypes
<1>5. AttemptIsWhole'
  <2>1. AfterData' => \A i \in Index' : Mine'[i] = "held"
    BY <1>1 DEF ControlInv, AttemptIsWhole, AfterData, Mine, Index, Total
  <2>2. AfterResults' => answer' \in Fits(attempt)' /\ answer'.kind = "results"
    BY <1>1, <1>4 DEF ControlInv, AttemptIsWhole, AfterResults
  <2> QED
    BY <2>1, <2>2 DEF AttemptIsWhole
<1>6. OutcomeIsTrue'
  BY <1>1 DEF ControlInv, OutcomeIsTrue, SuccessIsAgreed, CancelledIsReported, Mine, Index, Total,
       Ids, stream_id
<1> QED
  BY <1>1, <1>2, <1>3, <1>5, <1>6 DEF ControlInv, RetriesAreLeft, Attempts

----------------------------------------------------------------------------
(* The attempt. *)
LEMMA FailInv ==
  ASSUME ControlInv, pc # "ended", UNCHANGED <<cancelled, toClient, served>>,
         NEW error, error # "ok", Fail(error) \/ FailData(error)
  PROVE  ControlInv'
<1>1. decide(error) /\ Drop /\ UNCHANGED <<spec, attempt, line, answer, cancelled, served>>
  BY DEF Fail, FailData
<1>2. DOMAIN toClient' = Attempts /\ \A a \in Attempts : toClient'[a] \in Seq(Fits(a))
  BY DEF ControlInv, ControlTypes, HearsItsOwn
<1> QED
  BY <1>1, <1>2, EndsInv

LEMMA ConnectingInv ==
  ASSUME ControlInv, validate_spec \/ resolve \/ connect_tcp PROVE ControlInv'
<1>0. /\ line \in 1..14 /\ stream \in [Attempts -> [Index -> Stream]]
      /\ UNCHANGED <<cancelled, toClient, served>> /\ pc \in {"validate", "resolve", "connect"}
  BY DEF ControlInv, ControlTypes, validate_spec, resolve, connect_tcp, serverVars
<1>1. ASSUME NEW error, error # "ok", Fail(error) PROVE ControlInv'
  BY <1>0, <1>1, FailInv
<1>2. CASE /\ UNCHANGED <<spec, attempt, answer, outcome, stream>>
           /\ pc' \in {"resolve", "connect"} \/ (pc' = "talk" /\ line' = 1)
           /\ line' \in 1..14
  <2>1. /\ pc' \in {"validate", "resolve", "connect", "talk", "build"} /\ pc # "ended"
        /\ ~AfterData' /\ ~AfterResults'
    BY <1>0, <1>2 DEF AfterData, AfterResults
  <2> QED
    BY <1>0, <1>2, <2>1, SameHeard, QuietInv
<1>3. CASE validate_spec
  BY <1>3, <1>0, <1>1, <1>2 DEF validate_spec, clientRest
<1>4. CASE resolve
  BY <1>4, <1>0, <1>1, <1>2 DEF resolve, clientRest
<1>5. CASE connect_tcp
  BY <1>5, <1>0, <1>1, <1>2 DEF connect_tcp, clientRest
<1> QED
  BY <1>3, <1>4, <1>5

(* What is written opens neither the results nor the time after the data.   *)
LEMMA WriteInv == ASSUME ControlInv, write_all PROVE ControlInv'
<1>1. /\ pc = "talk" /\ line \in 1..14 /\ Script[line][1] = "write"
      /\ UNCHANGED <<cancelled, toClient, served>> /\ stream \in [Attempts -> [Index -> Stream]]
  BY DEF ControlInv, ControlTypes, write_all, Doing, serverVars
<1>2. line \notin {5, 8, 12} /\ Len(Script) = 14
  BY <1>1, Lines
<1>3. CASE Fail("Io")
  BY <1>1, <1>3, FailInv
<1>4. CASE /\ IF line < Len(Script) THEN GoOn
              ELSE pc' = "build" /\ UNCHANGED <<spec, attempt, line, left, outcome>>
           /\ UNCHANGED <<stream, answer, backlog>>
  <2>1. /\ UNCHANGED <<spec, attempt, outcome, stream, answer>> /\ pc' \in {"talk", "build"}
        /\ line' \in 1..14
        /\ pc' = "talk" => line < 14 /\ line' = line + 1
        /\ pc' = "build" => line = 14
    BY <1>1, <1>2, <1>4 DEF GoOn
  <2>2. (AfterData' => AfterData) /\ (AfterResults' => AfterResults)
    <3>1. CASE pc' = "talk"
      <4>1. line' = line + 1 /\ line # 8 /\ line # 12 /\ line \in Int
        BY <1>1, <1>2, <2>1, <3>1
      <4> QED
        BY <4>1, <3>1, <1>1 DEF AfterData, AfterResults
    <3>2. CASE pc' = "build"
      BY <1>1, <2>1, <3>2 DEF AfterData, AfterResults
    <3> QED
      BY <2>1, <3>1, <3>2
  <2>3. /\ AfterData => \A i \in Index : stream[attempt][i] = "held"
        /\ AfterResults => answer \in Fits(attempt) /\ answer.kind = "results"
    BY DEF ControlInv, AttemptIsWhole, Mine
  <2> QED
    BY <1>1, <2>1, <2>2, <2>3, SameHeard, QuietInv
<1> QED
  BY <1>3, <1>4 DEF write_all

LEMMA ExpectInv == ASSUME ControlInv, expect_state PROVE ControlInv'
<1>1. /\ pc = "talk" /\ line \in 1..14 /\ Script[line][1] = "expect" /\ Listen /\ Heard # <<>>
      /\ UNCHANGED <<cancelled, served>> /\ stream \in [Attempts -> [Index -> Stream]]
  BY DEF ControlInv, ControlTypes, expect_state, Doing, serverVars
<1>2. line \notin {5, 8, 12, 14}
  <2>1. Script[14][1] = "write"
    BY DEF Script
  <2> QED
    BY <1>1, <2>1, Lines
<1>3. CASE Fail(ErrorOf(Head(Heard).kind))
  <2>1. ErrorOf(Head(Heard).kind) # "ok"
    BY DEF ErrorOf
  <2>2. decide(ErrorOf(Head(Heard).kind)) /\ Drop /\ UNCHANGED <<spec, attempt, line, answer>>
    BY <1>3 DEF Fail
  <2>3. DOMAIN toClient' = Attempts /\ \A a \in Attempts : toClient'[a] \in Seq(Fits(a))
    BY <1>1, <2>2, ListenFits
  <2> QED
    BY <1>1, <2>1, <2>2, <2>3, EndsInv
<1>4. CASE GoOn /\ UNCHANGED <<stream, answer, toServer, backlog>>
  <2>1. UNCHANGED <<spec, attempt>>
    BY <1>4 DEF GoOn
  <2>2. DOMAIN toClient' = Attempts /\ \A a \in Attempts : toClient'[a] \in Seq(Fits(a))
    BY <1>1, <2>1, ListenFits
  <2> QED
    BY <1>1, <1>2, <1>4, <2>2, GoesOnInv
<1> QED
  BY <1>3, <1>4 DEF expect_state

(* The results that are read are kept as those of this attempt.              *)
LEMMA ReadInv == ASSUME ControlInv, read_json PROVE ControlInv'
<1>1. /\ pc = "talk" /\ line = 12 /\ Listen /\ Heard # <<>>
      /\ UNCHANGED <<cancelled, served>> /\ stream \in [Attempts -> [Index -> Stream]]
  BY Lines DEF ControlInv, ControlTypes, read_json, Doing, serverVars
<1>2. ASSUME UNCHANGED <<spec, attempt>>
      PROVE  /\ Head(Heard) \in Fits(attempt)
             /\ DOMAIN toClient' = Attempts /\ \A a \in Attempts : toClient'[a] \in Seq(Fits(a))
  BY <1>1, <1>2, ListenFits
<1>3. CASE Head(Heard).kind = "results"
  <2>1. /\ answer' = Head(Heard) /\ UNCHANGED <<spec, attempt, pc, outcome, stream>>
        /\ line' = 13
    BY <1>1, <1>3 DEF read_json, GoOn
  <2>2. answer' \in Fits(attempt) /\ answer'.kind = "results"
    BY <1>2, <1>3, <2>1
  <2>3. AfterData /\ \A i \in Index : stream[attempt][i] = "held"
    BY <1>1 DEF ControlInv, AttemptIsWhole, AfterData, Mine
  <2> QED
    BY <1>1, <1>2, <2>1, <2>2, <2>3, QuietInv
<1>4. CASE Head(Heard).kind # "results"
  <2>1. PICK error : error # "ok" /\ Fail(error)
    BY <1>4 DEF read_json, ErrorOf
  <2>2. decide(error) /\ Drop /\ UNCHANGED <<spec, attempt, line, answer>>
    BY <2>1 DEF Fail
  <2> QED
    BY <1>1, <1>2, <2>1, <2>2, EndsInv
<1> QED
  BY <1>3, <1>4

(* An accepted result is the server's, and all streams are closed with it.   *)
LEMMA BuildInv == ASSUME ControlInv, build_result PROVE ControlInv'
<1>1. /\ pc = "build" /\ UNCHANGED <<cancelled, toClient, served>>
      /\ spec \in Specs /\ attempt \in Attempts /\ stream \in [Attempts -> [Index -> Stream]]
      /\ answer \in Fits(attempt) /\ answer.kind = "results"
      /\ \A i \in Index : Mine[i] = "held"
  BY DEF ControlInv, ControlTypes, AttemptIsWhole, AfterData, AfterResults, build_result, serverVars
<1>2. CASE ~acceptable(answer)
  BY <1>1, <1>2, FailInv DEF build_result
<1>3. CASE acceptable(answer)
  <2>1. pc' = "ended" /\ outcome' = "ok" /\ Drop /\ UNCHANGED <<spec, attempt, line, answer>>
    BY <1>3 DEF build_result, End
  <2>2. attempt \in served /\ answer.ids = Ids
    BY <1>1, <1>3, AcceptableIsServed
  <2>3. stream' = [stream EXCEPT ![attempt] = [i \in Index |-> "closed"]]
    BY <1>1, <2>1 DEF Drop
  <2>4. /\ stream' \in [Attempts -> [Index -> Stream]]
        /\ \A i \in Index : stream'[attempt][i] = "closed"
    BY <1>1, <2>3 DEF Stream
  <2>5. Index' = Index /\ Ids' = Ids
    BY <2>1 DEF Index, Total, Ids
  <2>6. ControlTypes'
    BY <1>1, <2>1, <2>4, <2>5 DEF ControlInv, ControlTypes, Attempts
  <2>7. HearsItsOwn'
    <3>1. Total' = Total
      BY <2>1 DEF Total
    <3>2. Given' = Given
      BY <2>5, <3>1 DEF Given
    <3>3. \A a : Fits(a)' = Fits(a)
      BY <1>1, <2>5, <3>2 DEF Fits
    <3>4. toClient' = toClient /\ HearsItsOwn
      BY <1>1 DEF ControlInv
    <3> QED
      BY <3>3, <3>4 DEF HearsItsOwn
  <2>8. AttemptIsWhole'
    BY <2>1 DEF AttemptIsWhole, AfterData, AfterResults
  <2>9. OutcomeIsTrue'
    BY <1>1, <2>1, <2>2, <2>4, <2>5 DEF OutcomeIsTrue, SuccessIsAgreed, CancelledIsReported, Mine
  <2> QED
    BY <2>1, <2>6, <2>7, <2>8, <2>9 DEF ControlInv, RetriesAreLeft
<1> QED
  BY <1>2, <1>3

----------------------------------------------------------------------------
(* The streams. *)
LEMMA BecomeType ==
  ASSUME ControlInv, NEW i \in Index, NEW what \in Stream, Become(i, what)
  PROVE  stream' \in [Attempts -> [Index -> Stream]]
<1>1. attempt \in Attempts /\ stream \in [Attempts -> [Index -> Stream]]
  BY DEF ControlInv, ControlTypes
<1>2. stream' = [stream EXCEPT ![attempt] = [stream[attempt] EXCEPT ![i] = what]]
  BY DEF Become
<1>3. [stream[attempt] EXCEPT ![i] = what] \in [Index -> Stream]
  BY <1>1
<1> QED
  BY <1>1, <1>2, <1>3

LEMMA StreamsInv ==
  ASSUME ControlInv, create_stream \/ StreamFails PROVE ControlInv'
<1>1. pc = "talk" /\ line = 5 /\ UNCHANGED <<cancelled, toClient, served>>
  BY Lines DEF ControlInv, ControlTypes, create_stream, StreamFails, Doing, serverVars
<1>2. ASSUME NEW error, error # "ok", Fail(error) PROVE ControlInv'
  BY <1>1, <1>2, FailInv
<1>3. ASSUME NEW i \in Index, Become(i, "open"), IF i = Total THEN line' = line + 1 ELSE UNCHANGED line,
             UNCHANGED <<spec, attempt, pc, answer, outcome>>
      PROVE  ControlInv'
  <2>1. stream' \in [Attempts -> [Index -> Stream]]
    BY <1>3, BecomeType DEF Stream
  <2>2. line' \in 1..14 /\ pc' = "talk" /\ ~AfterData' /\ ~AfterResults'
    BY <1>1, <1>3 DEF AfterData, AfterResults
  <2> QED
    BY <1>1, <1>3, <2>1, <2>2, SameHeard, QuietInv
<1>4. CASE StreamFails
  BY <1>2, <1>4 DEF StreamFails
<1>5. CASE create_stream
  BY <1>2, <1>3, <1>5 DEF create_stream
<1> QED
  BY <1>4, <1>5

LEMMA DataInv ==
  ASSUME ControlInv, spawn \/ join_all \/ \E i \in Index : task_ends(i) \/ task_fails(i)
  PROVE  ControlInv'
<1>1. /\ pc = "talk" /\ line = 8 /\ UNCHANGED <<cancelled, toClient, served>>
      /\ attempt \in Attempts /\ stream \in [Attempts -> [Index -> Stream]]
  BY Lines DEF ControlInv, ControlTypes, spawn, join_all, task_ends, task_fails, Doing, serverVars
<1>2. ASSUME stream' \in [Attempts -> [Index -> Stream]],
             UNCHANGED <<spec, attempt, pc, line, answer, outcome>>
      PROVE  ControlInv'
  <2>1. ~AfterData' /\ ~AfterResults'
    BY <1>1, <1>2 DEF AfterData, AfterResults
  <2> QED
    BY <1>1, <1>2, <2>1, SameHeard, QuietInv
<1>3. CASE spawn
  <2>1. stream' \in [Attempts -> [Index -> Stream]]
    BY <1>1, <1>3 DEF spawn, Stream
  <2> QED
    BY <1>2, <1>3, <2>1 DEF spawn
<1>4. CASE join_all
  <2>1. /\ line' = 9 /\ UNCHANGED <<spec, attempt, pc, outcome, stream, answer>>
        /\ \A i \in Index : stream[attempt][i] = "held"
    BY <1>1, <1>4 DEF join_all, GoOn, Mine
  <2>2. ~AfterResults'
    BY <1>1, <2>1 DEF AfterResults
  <2> QED
    BY <1>1, <2>1, <2>2, SameHeard, QuietInv
<1>5. ASSUME NEW i \in Index, task_ends(i) PROVE ControlInv'
  <2>1. stream' \in [Attempts -> [Index -> Stream]]
    BY <1>5, BecomeType DEF task_ends, Stream
  <2> QED
    BY <1>2, <1>5, <2>1 DEF task_ends
<1>6. ASSUME NEW i \in Index, task_fails(i) PROVE ControlInv'
  <2>1. PICK error : error # "ok" /\ FailData(error)
    BY <1>6 DEF task_fails
  <2> QED
    BY <1>1, <2>1, FailInv
<1> QED
  BY <1>3, <1>4, <1>5, <1>6

(* Only a task that was aborted is dropped.                                  *)
LEMMA DroppedInv ==
  ASSUME ControlInv, NEW a \in Attempts, NEW i \in Index, task_dropped(a, i) PROVE ControlInv'
<1>1. /\ stream \in [Attempts -> [Index -> Stream]] /\ attempt \in Attempts
      /\ stream[a][i] = "aborting" /\ stream' = [stream EXCEPT ![a][i] = "closed"]
      /\ UNCHANGED <<spec, attempt, pc, line, answer, outcome, cancelled, toClient, served>>
  BY DEF ControlInv, ControlTypes, task_dropped, serverVars
<1>2. stream' = [stream EXCEPT ![a] = [stream[a] EXCEPT ![i] = "closed"]]
  BY <1>1
<1>3. [stream[a] EXCEPT ![i] = "closed"] \in [Index -> Stream]
  BY <1>1 DEF Stream
<1>4. stream' \in [Attempts -> [Index -> Stream]]
  BY <1>1, <1>2, <1>3
<1>5. \A j \in Index : Mine[j] \in {"held", "closed"} => Mine'[j] = Mine[j]
  BY <1>1, <1>2, <1>3 DEF Mine
<1>6. Index' = Index /\ Ids' = Ids /\ Total' = Total
  BY <1>1 DEF Index, Total, Ids
<1>7. ControlTypes'
  BY <1>1, <1>4, <1>6 DEF ControlInv, ControlTypes, Attempts
<1>8. HearsItsOwn'
  BY <1>1, <1>6 DEF ControlInv, HearsItsOwn, Fits, Given
<1>9. AttemptIsWhole'
  <2>1. AfterData' => \A j \in Index' : Mine'[j] = "held"
    BY <1>1, <1>5, <1>6 DEF ControlInv, AttemptIsWhole, AfterData
  <2>2. AfterResults' => answer' \in Fits(attempt)' /\ answer'.kind = "results"
    BY <1>1, <1>6 DEF ControlInv, AttemptIsWhole, AfterResults, Fits, Given
  <2> QED
    BY <2>1, <2>2 DEF AttemptIsWhole
<1>10. SuccessIsAgreed'
  <2>1. outcome = "ok" => attempt \in served /\ answer.ids = Ids /\ \A j \in Index : Mine[j] = "closed"
    BY DEF ControlInv, OutcomeIsTrue, SuccessIsAgreed
  <2>2. outcome' = "ok" =>
          attempt' \in served' /\ answer'.ids = Ids' /\ \A j \in Index' : Mine'[j] = "closed"
    BY <1>1, <1>5, <1>6, <2>1
  <2> QED
    BY <2>2 DEF SuccessIsAgreed
<1> QED
  BY <1>1, <1>7, <1>8, <1>9, <1>10
  DEF ControlInv, RetriesAreLeft, Attempts, OutcomeIsTrue, CancelledIsReported

----------------------------------------------------------------------------
(* The token, and the waits. *)
LEMMA WaitsInv ==
  ASSUME ControlInv, Cancelled \/ Timeout \/ retry_backoff PROVE ControlInv'
<1>1. CASE Cancelled \/ Timeout
  <2>1. UNCHANGED <<cancelled, toClient, served>> /\ pc # "ended"
    BY <1>1 DEF Cancelled, Timeout, Doing, serverVars
  <2>2. PICK error \in {"Cancelled", "Timeout"} : Fail(error)
    BY <1>1 DEF Cancelled, Timeout
  <2>3. error # "ok"
    OBVIOUS
  <2> QED
    BY <2>1, <2>2, <2>3, FailInv
<1>2. CASE retry_backoff
  <2>1. /\ pc = "backoff" /\ UNCHANGED <<spec, line, stream, answer, cancelled, toClient, served>>
        /\ attempt \in Attempts /\ stream \in [Attempts -> [Index -> Stream]] /\ outcome # "ok"
        /\ line \in 1..14
    BY <1>2 DEF ControlInv, ControlTypes, retry_backoff, serverVars
  <2>2. Index' = Index /\ Ids' = Ids /\ Total' = Total
    BY <2>1 DEF Index, Total, Ids
  <2>3. HearsItsOwn'
    BY <2>1, <2>2 DEF ControlInv, HearsItsOwn, Fits, Given
  <2>4. CASE pc' = "ended" /\ outcome' = "Cancelled" /\ attempt' = attempt
    <3>1. ControlTypes' /\ AttemptIsWhole'
      BY <2>1, <2>2, <2>4 DEF ControlInv, ControlTypes, AttemptIsWhole, AfterData, AfterResults,
           Attempts
    <3> QED
      BY <2>3, <2>4, <3>1 DEF ControlInv, RetriesAreLeft, OutcomeIsTrue, SuccessIsAgreed, CancelledIsReported
  <2>5. CASE pc' = "validate" /\ attempt' = attempt + 1 /\ outcome' = outcome
    <3>1. attempt + 1 \in Attempts
      BY <2>1 DEF ControlInv, RetriesAreLeft
    <3>2. ControlTypes' /\ AttemptIsWhole'
      BY <2>1, <2>2, <2>5, <3>1 DEF ControlInv, ControlTypes, AttemptIsWhole, AfterData,
           AfterResults, Attempts
    <3> QED
      BY <2>1, <2>3, <2>5, <3>2
      DEF ControlInv, RetriesAreLeft, OutcomeIsTrue, SuccessIsAgreed, CancelledIsReported
  <2> QED
    BY <1>2, <2>4, <2>5 DEF retry_backoff, End
<1> QED
  BY <1>1, <1>2

LEMMA TokenInv == ASSUME ControlInv, Cancel PROVE ControlInv'
<1>1. /\ pc # "ended" /\ outcome # "ok" /\ cancelled' = TRUE
      /\ UNCHANGED <<spec, attempt, pc, line, stream, answer, outcome, toClient, served>>
  BY DEF ControlInv, Cancel, clientVars, serverVars
<1>2. Index' = Index /\ Ids' = Ids /\ Total' = Total
  BY <1>1 DEF Index, Total, Ids
<1>3. ControlTypes'
  BY <1>1, <1>2 DEF ControlInv, ControlTypes, Attempts
<1>4. HearsItsOwn'
  BY <1>1, <1>2 DEF ControlInv, HearsItsOwn, Fits, Given
<1>5. AttemptIsWhole'
  <2>1. AfterData' => \A j \in Index' : Mine'[j] = "held"
    BY <1>1, <1>2 DEF ControlInv, AttemptIsWhole, AfterData, Mine
  <2>2. AfterResults' => answer' \in Fits(attempt)' /\ answer'.kind = "results"
    BY <1>1, <1>2 DEF ControlInv, AttemptIsWhole, AfterResults, Fits, Given
  <2> QED
    BY <2>1, <2>2 DEF AttemptIsWhole
<1> QED
  BY <1>1, <1>3, <1>4, <1>5
  DEF ControlInv, RetriesAreLeft, Attempts, OutcomeIsTrue, SuccessIsAgreed, CancelledIsReported

----------------------------------------------------------------------------
(* The server. *)
LEMMA AnswerFits ==
  ASSUME ControlInv, NEW a \in Attempts, NEW messages, Answer(a, messages),
         served \subseteq served', UNCHANGED spec, messages \in Seq(Fits(a)')
  PROVE  DOMAIN toClient' = Attempts /\ \A b \in Attempts : toClient'[b] \in Seq(Fits(b)')
<1>1. /\ DOMAIN toClient = Attempts
      /\ \A b \in Attempts : toClient[b] \in Seq(Fits(b)')
  BY LateFits DEF ControlInv, ControlTypes, HearsItsOwn
<1>2. toClient[a] \o messages \in Seq(Fits(a)')
  BY <1>1, ConcatProperties
<1>3. /\ DOMAIN toClient' = Attempts /\ toClient'[a] = toClient[a] \o messages
      /\ \A b \in Attempts \ {a} : toClient'[b] = toClient[b]
  BY <1>1 DEF Answer
<1> QED
  BY <1>1, <1>2, <1>3

LEMMA ServesInv == ASSUME ControlInv, Server PROVE ControlInv'
<1>1. UNCHANGED <<clientVars, cancelled>> /\ UNCHANGED spec
  BY DEF Server, clientVars
<1>2. PICK a \in Attempts : Accept(a) \/ Reply(a) \/ Start(a) \/ HangUp(a) \/ Ignore(a)
  BY DEF Server
<1>3. served \subseteq served'
  BY <1>2 DEF Accept, Reply, Start, HangUp, Ignore
<1>4. ASSUME NEW messages, Answer(a, messages), messages \in Seq(Fits(a)') PROVE ControlInv'
  BY <1>1, <1>3, <1>4, AnswerFits, ServerInv
<1>5. ASSUME NEW kinds \in Seq(Spoken), Answer(a, States(kinds)) PROVE ControlInv'
  <2>1. States(kinds) \in Seq(Fits(a)')
    BY SpokenStates, LateFits, <1>1, <1>3
  <2> QED
    BY <1>4, <1>5, <2>1
<1>6. CASE UNCHANGED toClient
  <2>1. DOMAIN toClient' = Attempts /\ \A b \in Attempts : toClient'[b] \in Seq(Fits(b)')
    BY <1>1, <1>3, <1>6, LateFits DEF ControlInv, ControlTypes, HearsItsOwn
  <2> QED
    BY <1>1, <1>3, <2>1, ServerInv
<1>7. CASE Accept(a)
  <2>1. <<"ACCESS_DENIED", "EOF">> \in Seq(Spoken)
    BY SpokenTuples DEF Spoken
  <2> QED
    BY <1>5, <1>6, <1>7, <2>1 DEF Accept
<1>8. CASE Start(a)
  <2>1. <<"TEST_START", "TEST_RUNNING">> \in Seq(Spoken)
    BY SpokenTuples DEF Spoken
  <2> QED
    BY <1>5, <1>8, <2>1 DEF Start
<1>9. CASE Reply(a) /\ session.at = "results"
  <2> DEFINE word == Results(Ids, TRUE)
             done == Message("DISPLAY_RESULTS")
  <2>1. served' = served \cup {a} /\ Answer(a, <<word, done>>)
    BY <1>9 DEF Reply
  <2>2. word \in Fits(a)' /\ done \in Fits(a)'
    <3>1. Ids' = Ids
      BY <1>1 DEF Ids, Index, Total
    <3>2. word \in Given' /\ word.ids = Ids'
      BY <3>1 DEF Results, Given
    <3>3. word \in Fits(a)'
      BY <2>1, <3>2 DEF Fits
    <3>4. done \in Fits(a)'
      BY DEF Message, Fits, Spoken
    <3> QED
      BY <3>3, <3>4
  <2> HIDE DEF word, done
  <2>3. <<word, done>> \in Seq(Fits(a)')
    BY <2>2, PairOfSet
  <2> QED
    BY <1>4, <2>1, <2>3
<1>10. CASE Reply(a) /\ session.at # "results"
  <2>1. Answer(a, States(Stages[session.at].says)) /\ session.at \in DOMAIN Stages
    BY <1>10 DEF Reply, CanReply
  <2>2. Stages[session.at].says \in Seq(Spoken)
    <3>1. /\ <<"PARAM_EXCHANGE">> \in Seq(Spoken) /\ <<"CREATE_STREAMS">> \in Seq(Spoken)
          /\ <<"EXCHANGE_RESULTS">> \in Seq(Spoken) /\ <<>> \in Seq(Spoken)
      BY SpokenTuples DEF Spoken
    <3>2. session.at \in {"cookie", "parameters", "running", "results", "display"}
      BY <2>1 DEF Stages
    <3>3. /\ Stages["cookie"].says = <<"PARAM_EXCHANGE">>
          /\ Stages["parameters"].says = <<"CREATE_STREAMS">>
          /\ Stages["running"].says = <<"EXCHANGE_RESULTS">>
          /\ Stages["results"].says = <<>> /\ Stages["display"].says = <<>>
      BY DEF Stages
    <3> QED
      BY <3>1, <3>2, <3>3
  <2> QED
    BY <1>5, <2>1, <2>2
<1>11. CASE HangUp(a) \/ Ignore(a)
  BY <1>6, <1>11 DEF HangUp, Ignore
<1> QED
  BY <1>2, <1>7, <1>8, <1>9, <1>10, <1>11

(* What it gives out of place can be told from its word. *)
LEMMA FailsInv ==
  ASSUME ControlInv, NEW a \in Attempts, ServerFails(a) PROVE ControlInv'
<1>1. UNCHANGED <<clientVars, cancelled, served>> /\ UNCHANGED spec /\ served \subseteq served'
  BY DEF ServerFails, clientVars
<1>2. ASSUME NEW messages, Answer(a, messages), messages \in Seq(Fits(a)') PROVE ControlInv'
  BY <1>1, <1>2, AnswerFits, ServerInv
<1>3. ASSUME NEW kinds \in Seq(Spoken), Answer(a, States(kinds)) PROVE ControlInv'
  <2>1. States(kinds) \in Seq(Fits(a)')
    BY SpokenStates, LateFits, <1>1
  <2> QED
    BY <1>2, <1>3, <2>1
<1>4. ASSUME NEW kinds \in {<<"SERVER_TERMINATE", "EOF">>, <<"SERVER_ERROR", "EOF">>, <<"EOF">>,
                             <<"DISPLAY_RESULTS", "EOF">>}
      PROVE  kinds \in Seq(Spoken)
  BY <1>4, SpokenTuples DEF Spoken
<1>5. ASSUME NEW word \in {Results(<<>>, TRUE), Results([Ids EXCEPT ![Total] = 2], TRUE),
                           Results(Ids, FALSE)},
             Answer(a, <<word, Message("DISPLAY_RESULTS")>>)
      PROVE  ControlInv'
  <2> DEFINE done == Message("DISPLAY_RESULTS")
  <2>1. word \in Given /\ ~(word.ids = Ids /\ word.sane)
    <3>1. <<>> # Ids /\ [Ids EXCEPT ![Total] = 2] # Ids
      <4>1. spec \in Specs
        BY DEF ControlInv, ControlTypes
      <4>2. /\ Total \in Nat \ {0} /\ Ids \in Seq(Nat) /\ Len(Ids) = Total /\ Total \in Index
            /\ Ids[Total] # 2
        BY <4>1, Streams
      <4> QED
        BY <4>2
    <3>2. CASE word = Results(<<>>, TRUE)
      BY <3>1, <3>2 DEF Results, Given
    <3>3. CASE word = Results([Ids EXCEPT ![Total] = 2], TRUE)
      BY <3>1, <3>3 DEF Results, Given
    <3>4. CASE word = Results(Ids, FALSE)
      BY <3>4 DEF Results, Given
    <3> QED
      BY <1>5, <3>2, <3>3, <3>4
  <2>2. word \in Fits(a) /\ done \in Fits(a)
    BY <2>1, SpokenFits DEF Fits
  <2>3. word \in Fits(a)' /\ done \in Fits(a)'
    BY <1>1, <2>2, LateFits
  <2>4. <<word, done>> \in Seq(Fits(a)')
    BY <2>3
  <2> QED
    BY <1>2, <1>5, <2>4
<1>6. CASE UNCHANGED toClient
  <2>1. DOMAIN toClient' = Attempts /\ \A b \in Attempts : toClient'[b] \in Seq(Fits(b)')
    BY <1>1, <1>6, LateFits DEF ControlInv, ControlTypes, HearsItsOwn
  <2> QED
    BY <1>1, <2>1, ServerInv
<1> QED
  BY <1>3, <1>4, <1>5, <1>6 DEF ServerFails

----------------------------------------------------------------------------
LEMMA ControlStepInv == ASSUME ControlInv, [ThroughputNext]_vars PROVE ControlInv'
<1>1. ASSUME UNCHANGED <<clientVars, cancelled, toClient, served>> PROVE ControlInv'
  <2>1. UNCHANGED spec /\ served \subseteq served'
    BY <1>1 DEF clientVars
  <2>2. DOMAIN toClient' = Attempts /\ \A b \in Attempts : toClient'[b] \in Seq(Fits(b)')
    BY <1>1, <2>1, LateFits DEF ControlInv, ControlTypes, HearsItsOwn
  <2> QED
    BY <1>1, <2>1, <2>2, ServerInv
<1>2. CASE Client
  BY <1>2, ConnectingInv, WriteInv, ExpectInv, ReadInv, StreamsInv, DataInv, BuildInv, WaitsInv
  DEF Client
<1>3. CASE Runtime
  BY <1>1, <1>3, DroppedInv DEF Runtime, drain, serverVars
<1>4. CASE Cancel \/ Server \/ \E a \in Attempts : ServerFails(a)
  BY <1>4, TokenInv, ServesInv, FailsInv
<1>5. CASE OtherEnds \/ \E i \in Index : FillBacklog(i)
  BY <1>1, <1>5 DEF OtherEnds, FillBacklog
<1>6. CASE UNCHANGED vars
  BY <1>1, <1>6 DEF vars, serverVars
<1> QED
  BY <1>2, <1>3, <1>4, <1>5, <1>6 DEF ThroughputNext

LEMMA ControlInitInv == ASSUME ThroughputInit PROVE ControlInv
<1>1. attempt \in Attempts
  <2>1. MaxRetries \in Nat
    BY ThroughputAssumption
  <2> QED
    BY <2>1 DEF ThroughputInit, Attempts
<1>2. ControlTypes
  <2>1. stream \in [Attempts -> [Index -> Stream]]
    BY DEF ThroughputInit, Stream
  <2>2. DOMAIN toClient = Attempts
    BY DEF ThroughputInit
  <2>3. spec \in Specs /\ pc = "validate" /\ line = 1
    BY DEF ThroughputInit
  <2>4. cancelled \in BOOLEAN
    BY DEF ThroughputInit
  <2> QED
    BY <1>1, <2>1, <2>2, <2>3, <2>4 DEF ControlTypes
<1>3. HearsItsOwn
  <2>1. \A a \in Attempts : toClient[a] = <<>>
    BY DEF ThroughputInit
  <2> SUFFICES ASSUME NEW a \in Attempts PROVE toClient[a] \in Seq(Fits(a))
    BY DEF HearsItsOwn
  <2>2. <<>> \in Seq(Fits(a))
    OBVIOUS
  <2> QED
    BY <2>1, <2>2
<1> QED
  BY <1>2, <1>3 DEF ThroughputInit, ControlInv, AttemptIsWhole, AfterData, AfterResults, RetriesAreLeft,
              OutcomeIsTrue, SuccessIsAgreed, CancelledIsReported

(* A test succeeds only with the server's word for that attempt and for all  *)
(* of its streams, and a cancelled one is reported as such (protocol.rs:113, *)
(* 218-250, 397-400).                                                        *)
THEOREM OutcomeIsTrueHolds == ThroughputSpec => []OutcomeIsTrue
<1>1. ThroughputInit => ControlInv
  BY ControlInitInv
<1>2. ControlInv /\ [ThroughputNext]_vars => ControlInv'
  BY ControlStepInv
<1>3. ControlInv => OutcomeIsTrue
  BY DEF ControlInv
<1> QED
  BY <1>1, <1>2, <1>3, PTL DEF ThroughputSpec

----------------------------------------------------------------------------
(***************************************************************************)
(* Proofs about the probes of a trace or a round, for any length, target   *)
(* and number of failing calls.                                            *)
(*                                                                         *)
(* An answer on its way or at a socket is that of a probe that was sent,   *)
(* or another program's; a pending error is about a probe that was sent; a *)
(* trace sends the next probe when all before it are done, and each of     *)
(* these is a hop of it as long as it goes on.                             *)
(***************************************************************************)
Kinds == {"exceeded", "port_unreachable", "echo"} \cup Segments

(* An answer that there may be by now. *)
Sent(packet) ==
  \/ packet \in Foreign
  \/ \E q \in Probe : stand[q] \in {"waiting", "done"} /\ packet \in Answers(q)

(* And that this socket may have heard. *)
MayHear(s, packet) ==
  IF packet.kind \in Segments THEN Mode = "tcp_raw"
  ELSE Queue /\ packet.kind # "echo" => packet.of # NoProbe /\ s = Sock(packet.of)

Statuses == {"none", "TimeExceeded", "Unreachable", "Reply", "Timeout", "Cancelled"}
Samples == [status : Statuses, of : Nat, from : {"none", "router", "target", "other"},
            kind : Kinds \cup {"none", "pending", "connection"}]

NativeTypes ==
  /\ scenario \in Scenarios
  /\ stand \in [Probe -> {"idle", "ready", "waiting", "done"}]
  /\ hop \in [Probe -> Samples]
  /\ result \in {"none", "hops", "Cancelled", "Error"}
  /\ heard = [s \in {0} \cup Probe |-> heard[s]]
  /\ pending \in Nat

AnswersAreSent ==
  /\ \A packet \in flight : Sent(packet)
  /\ \A s \in {0} \cup Probe : \A packet \in heard[s] : Sent(packet) /\ MayHear(s, packet)

PendingIsSent ==
  pending # NoProbe => /\ Trace /\ Mode = "udp_queue"
                       /\ pending \in Probe /\ stand[pending] \in {"waiting", "done"}

(* A trace sends one probe after the other, and none when it is over. *)
OneAfterOther ==
  Trace => \A p \in Probe :
    /\ stand[p] # "idle" => \A q \in 1..(p - 1) : stand[q] = "done"
    /\ stand[p] \in {"ready", "waiting"} => result = "none"
    /\ hop[p] # NoHop => stand[p] = "done"
    /\ hop[p].status = "Reply" => result # "none"
    /\ stand[p] = "done" /\ result = "none" => hop[p] # NoHop

NativeInv == NativeTypes /\ AnswersAreSent /\ PendingIsSent /\ OneAfterOther /\ SamplesAreTrue

----------------------------------------------------------------------------
(* Answers. *)
LEMMA Scenario ==
  ASSUME scenario \in Scenarios
  PROVE  /\ Mode \in Modes /\ scenario.max_hops \in 1..MaxTtl /\ MaxTtl \in Nat \ {0}
         /\ Probe \subseteq 1..MaxTtl /\ Probe = 1..scenario.max_hops
         /\ scenario.style \in {"trace", "round"}
  BY NativeAssumption DEF Mode, Probe

LEMMA Keys ==
  ASSUME NEW q
  PROVE  /\ ProbeKey(q).source = IF Own_source THEN q ELSE 0
         /\ ProbeKey(q).target = IF Icmp \/ Udp THEN q ELSE 0
         /\ ProbeKey(q).sequence = IF Mode = "tcp_raw" THEN q ELSE NoProbe
         /\ sent(q).source = IF Own_source THEN q ELSE 0
         /\ sent(q).target = IF Icmp \/ Udp THEN q ELSE 0
         /\ sent(q).sequence = IF Icmp \/ Udp THEN NoProbe ELSE q
  BY DEF ProbeKey, sent

LEMMA AnswerOf ==
  ASSUME NEW q, NEW packet \in Answers(q)
  PROVE  /\ packet.of = q /\ packet.key = sent(q) /\ packet.kind \in Kinds
         /\ packet.kind \in {"echo", "syn_ack", "rst"} => packet.from = "target"
         /\ packet.from \in {"router", "target"}
<1>1. PICK k \in {<<"exceeded", "router">>, <<"port_unreachable", "router">>, <<"echo", "target">>,
                  <<"port_unreachable", "target">>} \cup {<<s, "target">> : s \in Segments} :
        packet = [of |-> q, kind |-> k[1], from |-> k[2], key |-> sent(q)]
  BY DEF Answers
<1> QED
  BY <1>1 DEF Kinds, Segments

LEMMA ForeignAnswer ==
  ASSUME NEW packet \in Foreign
  PROVE  /\ packet.of = NoProbe /\ packet.from = "other"
         /\ \/ packet.kind = "exceeded" /\ packet.key.source = MaxTtl + 1
            \/ packet.kind \in Segments /\ packet.key.sequence = MaxTtl + 1
<1>1. \A q : "source" \in DOMAIN sent(q) /\ "sequence" \in DOMAIN sent(q)
  <2>1. \A q : "source" \in DOMAIN ProbeKey(q) /\ "sequence" \in DOMAIN ProbeKey(q)
    BY DEF ProbeKey
  <2> QED
    BY <2>1 DEF sent
<1>2. CASE packet = [of |-> NoProbe, kind |-> "exceeded", from |-> "other",
                     key |-> [sent(2) EXCEPT !.source = MaxTtl + 1]]
  <2>1. packet.of = NoProbe /\ packet.from = "other" /\ packet.kind = "exceeded"
    BY <1>2
  <2>2. packet.key = [sent(2) EXCEPT !.source = MaxTtl + 1]
    BY <1>2
  <2> QED
    BY <1>1, <2>1, <2>2
<1>3. ASSUME NEW s \in Segments,
             packet = [of |-> NoProbe, kind |-> s, from |-> "other",
                       key |-> [sent(1) EXCEPT !.sequence = MaxTtl + 1]]
      PROVE  packet.of = NoProbe /\ packet.from = "other" /\ packet.kind \in Segments
             /\ packet.key.sequence = MaxTtl + 1
  <2>1. packet.of = NoProbe /\ packet.from = "other" /\ packet.kind \in Segments
    BY <1>3
  <2>2. packet.key = [sent(1) EXCEPT !.sequence = MaxTtl + 1]
    BY <1>3
  <2> QED
    BY <1>1, <2>1, <2>2
<1> QED
  BY <1>2, <1>3 DEF Foreign

(* What is taken for the answer to a probe is that, or nothing tells it apart. *)
LEMMA OwnAnswer ==
  ASSUME NativeTypes, NEW p \in Probe, NEW q \in Probe, NEW packet \in Answers(q), mine(p, packet),
         MayHear(Sock(p), packet)
  PROVE  q = p \/ (Trace /\ (Mode = "tcp_windows" \/ (Mode = "tcp_raw" /\ packet.kind = "rst")))
<1>1. /\ packet.of = q /\ packet.key = sent(q) /\ packet.kind \in Kinds
      /\ p \in Nat /\ p # 0 /\ q \in Nat /\ q # 0 /\ Mode \in Modes
  BY AnswerOf, Scenario DEF NativeTypes
<1>2. CASE Icmp
  <2>1. probe_once(p, packet)
    BY <1>2 DEF mine, Icmp, Udp, Connects
  <2> QED
    BY <1>1, <1>2, <2>1, Keys DEF probe_once, correlates
<1>3. CASE Udp
  <2>1. udp_trace(p, packet)
    BY <1>3 DEF mine, Icmp, Udp, Connects
  <2> QED
    BY <1>1, <1>3, <2>1, Keys DEF udp_trace, correlates
<1>4. CASE Mode = "tcp_raw"
  <2>1. raw_wait(p, packet) /\ ~Icmp /\ ~Udp
    BY <1>4 DEF mine, Icmp, Udp, Connects
  <2> QED
    BY <1>1, <1>4, <2>1, Keys DEF raw_wait, correlates, accept_trace, accept_probe, NoProbe
<1>5. CASE Mode = "tcp_queue"
  <2>1. Queue /\ Sock(p) = p /\ Sock(q) = q
    BY <1>5 DEF Queue, Sock
  <2>2. packet.kind \notin Segments /\ packet.kind # "echo"
    <3>1. packet.kind \notin Segments
      BY <1>5 DEF MayHear
    <3>2. packet.kind # "echo"
      <4>1. ~Icmp /\ ~Udp
        BY <1>5 DEF Icmp, Udp
      <4> QED
        BY <4>1 DEF Answers, Segments
    <3> QED
      BY <3>1, <3>2
  <2> QED
    BY <1>1, <2>1, <2>2 DEF MayHear
<1>6. CASE Mode \in {"tcp_listener", "tcp_windows"}
  <2>1. correlates(ProbeKey(p), packet.key)
    BY <1>6 DEF mine, connect_probe, Icmp, Udp, Connects, Queue
  <2>2. Own_source => p = q
    BY <1>1, <2>1, Keys DEF correlates
  <2> QED
    BY <1>6, <2>2 DEF Own_source, Own_identifier, Own_port
<1> QED
  BY <1>1, <1>2, <1>3, <1>4, <1>5, <1>6 DEF Modes, Icmp, Udp

(* Of the rest a raw trace takes a reset, and nothing takes anything else. *)
LEMMA ForeignIsReset ==
  ASSUME NativeTypes, NEW p \in Probe, NEW packet \in Foreign, mine(p, packet),
         MayHear(Sock(p), packet)
  PROVE  Trace /\ Mode = "tcp_raw" /\ packet.kind = "rst"
<1>1. /\ packet.of = NoProbe
      /\ \/ packet.kind = "exceeded" /\ packet.key.source = MaxTtl + 1
         \/ packet.kind \in Segments /\ packet.key.sequence = MaxTtl + 1
      /\ p \in 1..MaxTtl /\ MaxTtl \in Nat /\ Mode \in Modes
  BY ForeignAnswer, Scenario DEF NativeTypes
<1>2. CASE packet.kind = "exceeded"
  <2>1. ~Queue
    BY <1>1, <1>2 DEF MayHear, Segments
  <2>2. ~correlates(ProbeKey(p), packet.key)
    BY <1>1, <1>2, Keys DEF correlates, Segments
  <2> QED
    BY <1>1, <1>2, <2>1, <2>2 DEF mine, probe_once, udp_trace, raw_wait, connect_probe, Segments
<1>3. CASE packet.kind \in Segments
  <2>1. Mode = "tcp_raw"
    BY <1>3 DEF MayHear
  <2>2. raw_wait(p, packet)
    BY <2>1 DEF mine, Icmp, Udp, Connects
  <2>3. packet.key.sequence # p
    BY <1>1, <1>3 DEF Segments
  <2> QED
    BY <1>3, <2>1, <2>2, <2>3 DEF raw_wait, accept_trace, accept_probe
<1> QED
  BY <1>1, <1>2, <1>3

(* What a probe makes of an answer that it may have. *)
LEMMA Measured ==
  ASSUME NativeInv, NEW p \in Probe, stand[p] = "waiting", NEW packet \in heard[Sock(p)],
         mine(p, packet), Sock(p) \in {0} \cup Probe
  PROVE  /\ Made(packet) \in Samples
         /\ Made(packet).status \in {"TimeExceeded", "Reply", "Unreachable"}
         /\ Made(packet).status = "Reply" =>
              Made(packet).from = "target" \/ AnyReset(Made(packet))
         /\ IsOwn(p, Made(packet))
<1>1. Sent(packet) /\ MayHear(Sock(p), packet)
  BY DEF NativeInv, AnswersAreSent
<1>2. p \in 1..MaxTtl /\ MaxTtl \in Nat
  BY Scenario DEF NativeInv, NativeTypes
<1>3. /\ Made(packet).status = status(packet) /\ Made(packet).of = packet.of
      /\ Made(packet).from = packet.from /\ Made(packet).kind = packet.kind
  BY DEF Made
<1>4. packet.kind = "rst" => status(packet) = "Reply"
  BY DEF status
<1>5. CASE packet \in Foreign
  <2>1. Trace /\ Mode = "tcp_raw" /\ packet.kind = "rst" /\ packet.of = NoProbe
        /\ packet.from = "other"
    BY <1>1, <1>5, ForeignIsReset, ForeignAnswer DEF NativeInv
  <2>2. AnyReset(Made(packet)) /\ IsOwn(p, Made(packet))
    BY <1>3, <2>1 DEF AnyReset, IsOwn
  <2>3. Made(packet) \in Samples
    BY <1>4, <2>1 DEF Made, Samples, Statuses, Kinds, Segments, NoProbe
  <2> QED
    BY <1>3, <1>4, <2>1, <2>2, <2>3
<1>6. ASSUME NEW q \in Probe, stand[q] \in {"waiting", "done"}, packet \in Answers(q)
      PROVE  /\ Made(packet) \in Samples
             /\ Made(packet).status \in {"TimeExceeded", "Reply", "Unreachable"}
             /\ Made(packet).status = "Reply" => Made(packet).from = "target"
             /\ IsOwn(p, Made(packet))
  <2>1. /\ packet.of = q /\ packet.kind \in Kinds
        /\ packet.kind \in {"echo", "syn_ack", "rst"} => packet.from = "target"
        /\ packet.from \in {"router", "target"}
    BY <1>6, AnswerOf
  <2>2. q = p \/ (Trace /\ (Mode = "tcp_windows" \/ (Mode = "tcp_raw" /\ packet.kind = "rst")))
    BY <1>1, <1>6, OwnAnswer DEF NativeInv
  <2>3. q \in 1..MaxTtl
    BY Scenario DEF NativeInv, NativeTypes
  <2>4. q <= p
    <3>1. CASE Trace
      <4>1. ASSUME p < q PROVE stand[p] = "done"
        <5>1. stand[q] # "idle" /\ p \in 1..(q - 1)
          BY <1>2, <1>6, <2>3, <4>1
        <5> QED
          BY <5>1, <3>1 DEF NativeInv, OneAfterOther
      <4> QED
        BY <1>2, <2>3, <4>1
    <3> QED
      BY <1>2, <2>2, <2>3, <3>1
  <2>5. /\ status(packet) \in {"TimeExceeded", "Reply", "Unreachable"}
        /\ status(packet) = "Reply" => packet.from = "target"
    BY <2>1 DEF status, arrival, Kinds, Segments
  <2>6. ASSUME Mode = "tcp_windows", Trace, q # p PROVE OnePort(Made(packet))
    <3>1. packet.kind \notin Segments /\ packet.kind # "echo"
      <4>1. packet.kind \notin Segments
        BY <1>1, <2>6 DEF MayHear
      <4>2. ~Icmp /\ ~Udp
        BY <2>6 DEF Icmp, Udp
      <4>3. packet.kind # "echo"
        BY <1>6, <4>2 DEF Answers, Segments
      <4> QED
        BY <4>1, <4>3
    <3>2. ~Udp
      BY <2>6 DEF Udp
    <3>3. status(packet) # "Reply"
      BY <2>1, <3>1, <3>2 DEF status, arrival, Kinds, Segments
    <3> QED
      BY <1>3, <2>6, <3>3 DEF OnePort
  <2>7. ASSUME Trace, Mode = "tcp_raw", packet.kind = "rst" PROVE AnyReset(Made(packet))
    BY <1>3, <2>7 DEF AnyReset
  <2>8. packet.of \in 1..p /\ packet.of \in Nat
    BY <1>2, <2>1, <2>3, <2>4
  <2>9. IsOwn(p, Made(packet))
    BY <1>3, <2>1, <2>2, <2>6, <2>7, <2>8 DEF IsOwn
  <2>10. Made(packet) \in Samples
    BY <2>1, <2>5, <2>8 DEF Made, Samples, Statuses
  <2> QED
    BY <1>3, <2>5, <2>9, <2>10
<1> QED
  BY <1>1, <1>5, <1>6 DEF Sent

----------------------------------------------------------------------------
(* Steps. *)
LEMMA Socks == ASSUME NEW p \in Probe PROVE Sock(p) \in {0, p} /\ Sock(p) \in {0} \cup Probe
  BY DEF Sock

(* Probes move on, and answers are lost or read. *)
LEMMA SentGrows ==
  ASSUME UNCHANGED scenario, NEW packet, Sent(packet),
         \A q \in Probe : stand[q] \in {"waiting", "done"} => stand'[q] \in {"waiting", "done"}
  PROVE  Sent(packet)'
<1>1. Probe' = Probe /\ Foreign' = Foreign /\ \A q \in Probe : Answers(q)' = Answers(q)
  BY DEF Probe, Foreign, Answers, sent, ProbeKey, Own_source, Own_identifier, Own_port, Mode, Trace, Icmp, Udp
<1> QED
  BY <1>1 DEF Sent

LEMMA AnswersInv ==
  ASSUME NativeInv, UNCHANGED scenario,
         \A q \in Probe : stand[q] \in {"waiting", "done"} => stand'[q] \in {"waiting", "done"},
         \A packet \in flight' : packet \in flight \/ Sent(packet)',
         \A s \in {0} \cup Probe : \A packet \in heard'[s] :
           packet \in heard[s] \/ (packet \in flight /\ MayHear(s, packet))
  PROVE  AnswersAreSent'
<1>1. Probe' = Probe /\ \A s, packet : MayHear(s, packet)' = MayHear(s, packet)
  BY DEF Probe, MayHear, Mode, Queue, Sock, Trace
<1>2. \A packet \in flight' : Sent(packet)'
  BY SentGrows DEF NativeInv, AnswersAreSent
<1>3. ASSUME NEW s \in {0} \cup Probe, NEW packet \in heard'[s]
      PROVE  Sent(packet)' /\ MayHear(s, packet)'
  <2>1. Sent(packet) /\ MayHear(s, packet)
    BY <1>3 DEF NativeInv, AnswersAreSent
  <2> QED
    BY <1>1, <2>1, SentGrows
<1> QED
  BY <1>1, <1>2, <1>3 DEF AnswersAreSent

LEMMA Same ==
  ASSUME UNCHANGED scenario
  PROVE  Probe' = Probe /\ (Trace' <=> Trace) /\ Mode' = Mode
  BY DEF Probe, Trace, Mode

LEMMA OwnSame ==
  ASSUME UNCHANGED scenario, NEW p, NEW q
  PROVE  /\ IsOwn(q, hop[p])' <=> IsOwn(q, hop'[p])
         /\ AnyReset(hop[p])' <=> AnyReset(hop'[p])
  BY Same DEF IsOwn, AnyReset, OnePort, FailsSend

(* The pending error stays that of a probe that was sent. *)
LEMMA PendingInv ==
  ASSUME NativeInv, UNCHANGED scenario, pending' \in {pending, NoProbe},
         \A q \in Probe : stand[q] \in {"waiting", "done"} => stand'[q] \in {"waiting", "done"}
  PROVE  PendingIsSent' /\ pending' \in Nat
<1>1. NoProbe' = NoProbe /\ NoProbe \in Nat
  BY DEF NoProbe
<1> QED
  BY <1>1, Same DEF NativeInv, NativeTypes, PendingIsSent

(* The probe has its sample, that of an answer to it or to one before. *)
LEMMA SettleKeeps ==
  ASSUME NativeInv, UNCHANGED scenario, NEW p \in Probe, NEW sample, NEW read,
         sample \in Samples,
         sample.status # "none", stand[p] \in {"ready", "waiting"}, Settle(p, sample, read),
         sample.status = "Reply" => sample.from = "target" \/ AnyReset(sample),
         sample.kind # "none" => IsOwn(p, sample)
  PROVE  /\ stand' \in [Probe -> {"idle", "ready", "waiting", "done"}]
         /\ hop' \in [Probe -> Samples]
         /\ result' \in {"none", "hops", "Cancelled", "Error"}
         /\ heard' = [s \in {0} \cup Probe |-> heard'[s]]
         /\ \A s \in {0} \cup Probe : heard'[s] \subseteq heard[s]
         /\ OneAfterOther' /\ SamplesAreTrue'
<1> DEFINE ends == \/ p = scenario.max_hops \/ sample.status = "Reply"
                   \/ sample.status = "Cancelled" /\ ~Icmp
<1>1. /\ stand' = [stand EXCEPT ![p] = "done"] /\ hop' = [hop EXCEPT ![p] = sample]
      /\ result' = IF Trace /\ ends THEN "hops" ELSE result
      /\ heard' = [heard EXCEPT ![Sock(p)] = IF Sock(p) = p THEN {} ELSE @ \ read]
  BY DEF Settle, Close
<1>2. sample.status = "Reply" => ends
  OBVIOUS
<1> HIDE DEF ends
<1>3. NativeTypes /\ OneAfterOther /\ SamplesAreTrue
  BY DEF NativeInv
<1>4. Probe \subseteq Nat
  BY <1>3, Scenario DEF NativeTypes
<1>5. /\ stand' \in [Probe -> {"idle", "ready", "waiting", "done"}]
      /\ hop' \in [Probe -> Samples]
      /\ stand'[p] = "done" /\ hop'[p] = sample /\ sample # NoHop
      /\ \A q \in Probe : q # p => stand'[q] = stand[q] /\ hop'[q] = hop[q]
  BY <1>1, <1>3 DEF NativeTypes, NoHop, Sample
<1>6. result' \in {"none", "hops", "Cancelled", "Error"} /\ (~Trace => result' = result)
  BY <1>1, <1>3 DEF NativeTypes
<1>7. /\ heard' = [s \in {0} \cup Probe |-> heard'[s]]
      /\ \A s \in {0} \cup Probe : heard'[s] \subseteq heard[s]
  BY <1>1, <1>3, Socks DEF NativeTypes
<1>8. Probe' = Probe /\ (Trace' <=> Trace) /\ Mode' = Mode
  BY Same
<1>9. Trace => /\ result = "none" /\ \A q \in Probe : q < p => stand[q] = "done"
               /\ \A q \in Probe : p < q => stand[q] = "idle" /\ hop[q] = NoHop
  <2> SUFFICES ASSUME Trace
               PROVE  /\ result = "none" /\ \A q \in Probe : q < p => stand[q] = "done"
                      /\ \A q \in Probe : p < q => stand[q] = "idle" /\ hop[q] = NoHop
    OBVIOUS
  <2>1. result = "none" /\ \A q \in 1..(p - 1) : stand[q] = "done"
    BY <1>3 DEF OneAfterOther
  <2>2. \A q \in Probe : q < p => q \in 1..(p - 1)
    BY <1>4 DEF Probe
  <2>3. \A q \in Probe : p < q => p \in 1..(q - 1)
    BY <1>4 DEF Probe
  <2>4. ASSUME NEW q \in Probe, p < q PROVE stand[q] = "idle" /\ hop[q] = NoHop
    <3>1. stand[p] # "done" /\ p \in 1..(q - 1)
      BY <2>3, <2>4
    <3> QED
      BY <1>3, <3>1 DEF OneAfterOther
  <2> QED
    BY <2>1, <2>2, <2>4
<1>10. Trace => \A q \in Probe : q < p => hop[q] # NoHop /\ hop[q].status # "Reply"
  BY <1>3, <1>9 DEF OneAfterOther
<1>11. ASSUME Trace, NEW q \in Probe, NEW r \in 1..(q - 1), stand'[q] # "idle"
       PROVE  stand'[r] = "done"
  <2>1. r \in Probe /\ r < q
    BY <1>4, <1>3, Scenario DEF Probe, NativeTypes
  <2> QED
    BY <1>3, <1>4, <1>5, <1>9, <1>11, <2>1 DEF OneAfterOther
<1>12. OneAfterOther'
  <2> SUFFICES ASSUME Trace, NEW q \in Probe
               PROVE  /\ stand'[q] # "idle" => \A r \in 1..(q - 1) : stand'[r] = "done"
                      /\ stand'[q] \in {"ready", "waiting"} => result' = "none"
                      /\ hop'[q] # NoHop => stand'[q] = "done"
                      /\ hop'[q].status = "Reply" => result' # "none"
                      /\ stand'[q] = "done" /\ result' = "none" => hop'[q] # NoHop
    BY <1>8 DEF OneAfterOther, NoHop, Sample
  <2>1. stand'[q] # "idle" => \A r \in 1..(q - 1) : stand'[r] = "done"
    BY <1>11
  <2>2. stand'[q] \notin {"ready", "waiting"}
    <3>1. q = p \/ q < p \/ p < q
      BY <1>4
    <3>2. q < p => stand[q] = "done"
      BY <1>9
    <3>3. p < q => stand[q] = "idle"
      BY <1>9
    <3> QED
      BY <1>5, <3>1, <3>2, <3>3
  <2>3. hop'[q] # NoHop => stand'[q] = "done"
    BY <1>3, <1>5 DEF OneAfterOther
  <2>4. hop'[q].status = "Reply" => result' # "none"
    BY <1>1, <1>2, <1>3, <1>5, <1>9 DEF OneAfterOther
  <2>5. stand'[q] = "done" => hop'[q] # NoHop
    BY <1>3, <1>5, <1>9 DEF OneAfterOther
  <2> QED
    BY <2>1, <2>2, <2>3, <2>4, <2>5
<1>13. AnswersAreOwn'
  <2> SUFFICES ASSUME NEW q \in Probe, hop'[q].kind # "none"
               PROVE  IsOwn(q, hop'[q])
    BY <1>8, OwnSame DEF AnswersAreOwn
  <2> QED
    BY <1>3, <1>5 DEF SamplesAreTrue, AnswersAreOwn
<1>14. ReachedByTarget'
  <2>1. ASSUME NEW q \in Probe, hop'[q].status = "Reply"
        PROVE  hop'[q].from = "target" \/ AnyReset(hop'[q])
    BY <1>3, <1>5, <2>1 DEF SamplesAreTrue, ReachedByTarget
  <2>2. ASSUME Trace, NEW q \in Probe, hop'[q].status = "Reply", NEW r \in Probe, hop'[r] # NoHop
        PROVE  r <= q
    <3>1. q = p
      BY <1>3, <1>5, <1>9, <2>2 DEF OneAfterOther
    <3>2. ~(p < r)
      BY <1>4, <1>5, <1>9, <2>2
    <3> QED
      BY <1>4, <3>1, <3>2
  <2>3. ASSUME Trace, NEW q \in Probe, hop'[q] # NoHop, NEW r \in 1..q
        PROVE  r \in Probe /\ hop'[r] # NoHop
    <3>1. r \in Probe /\ r <= q
      BY <1>4, <1>3, Scenario DEF Probe, NativeTypes
    <3>2. ~(p < q)
      BY <1>4, <1>5, <1>9, <2>3
    <3> QED
      BY <1>4, <1>5, <1>10, <2>3, <3>1, <3>2
  <2> QED
    BY <1>8, <2>1, <2>2, <2>3, OwnSame DEF ReachedByTarget, Hops, NoHop, Sample
<1> QED
  BY <1>5, <1>6, <1>7, <1>12, <1>13, <1>14 DEF SamplesAreTrue

(* A failing call: of a trace, all is lost, or kept as it is. *)
LEMMA BreakKeeps ==
  ASSUME NativeInv, UNCHANGED scenario, NEW p \in Probe, NEW error \in {"Cancelled", "Error"},
         stand[p] \in {"ready", "waiting"}, Break(p, error)
  PROVE  /\ stand' \in [Probe -> {"idle", "ready", "waiting", "done"}]
         /\ hop' \in [Probe -> Samples]
         /\ result' \in {"none", "hops", "Cancelled", "Error"}
         /\ heard' = [s \in {0} \cup Probe |-> heard'[s]]
         /\ \A s \in {0} \cup Probe : heard'[s] \subseteq heard[s]
         /\ OneAfterOther' /\ SamplesAreTrue'
<1> DEFINE keeps == Icmp /\ error = "Cancelled" /\ Hops # {}
<1>1. /\ stand' = [stand EXCEPT ![p] = "done"]
      /\ result' = IF ~Trace THEN result ELSE IF keeps THEN "hops" ELSE error
      /\ hop' = IF Trace /\ ~keeps THEN [q \in Probe |-> NoHop] ELSE hop
      /\ heard' = [heard EXCEPT ![Sock(p)] = IF Sock(p) = p THEN {} ELSE @ \ {}]
  BY DEF Break, Close
<1> HIDE DEF keeps
<1>2. NativeTypes /\ OneAfterOther /\ SamplesAreTrue
  BY DEF NativeInv
<1>3. Probe \subseteq Nat
  BY <1>2, Scenario DEF NativeTypes
<1>4. /\ stand' \in [Probe -> {"idle", "ready", "waiting", "done"}]
      /\ stand'[p] = "done" /\ \A q \in Probe : q # p => stand'[q] = stand[q]
  BY <1>1, <1>2 DEF NativeTypes
<1>5. \A q \in Probe : hop'[q] = hop[q] \/ hop'[q] = NoHop
  BY <1>1
<1>6. hop' \in [Probe -> Samples]
  BY <1>1, <1>2 DEF NativeTypes, NoHop, Sample, NoProbe, Samples, Statuses
<1>7. /\ result' \in {"none", "hops", "Cancelled", "Error"}
      /\ Trace => result' # "none" /\ (hop' = hop \/ \A q \in Probe : hop'[q] = NoHop)
  BY <1>1, <1>2 DEF NativeTypes
<1>8. /\ heard' = [s \in {0} \cup Probe |-> heard'[s]]
      /\ \A s \in {0} \cup Probe : heard'[s] \subseteq heard[s]
  BY <1>1, <1>2, Socks DEF NativeTypes
<1>9. Probe' = Probe /\ (Trace' <=> Trace) /\ Mode' = Mode
  BY Same
<1>10. ASSUME Trace, NEW q \in Probe, NEW r \in 1..(q - 1), stand'[q] # "idle"
       PROVE  r \in Probe /\ stand'[r] = "done"
  <2>1. r \in Probe /\ r < q
    BY <1>3, <1>2, Scenario DEF Probe, NativeTypes
  <2> QED
    BY <1>2, <1>4, <1>10, <2>1 DEF OneAfterOther
<1>11. Trace => \A q \in Probe : stand'[q] \notin {"ready", "waiting"}
  <2> SUFFICES ASSUME Trace, NEW q \in Probe, q # p, stand[q] \in {"ready", "waiting"}
               PROVE  FALSE
    BY <1>4
  <2>1. (p < q => p \in 1..(q - 1)) /\ (q < p => q \in 1..(p - 1)) /\ (p < q \/ q < p)
    BY <1>3 DEF Probe
  <2> QED
    BY <1>2, <2>1 DEF OneAfterOther
<1>12. OneAfterOther'
  BY <1>2, <1>4, <1>5, <1>7, <1>9, <1>10, <1>11 DEF OneAfterOther, NoHop, Sample
<1>13. AnswersAreOwn'
  <2> SUFFICES ASSUME NEW q \in Probe, hop'[q].kind # "none"
               PROVE  IsOwn(q, hop'[q])
    BY <1>9, OwnSame DEF AnswersAreOwn
  <2>1. hop'[q] = hop[q]
    BY <1>5 DEF NoHop, Sample
  <2> QED
    BY <1>2, <2>1 DEF SamplesAreTrue, AnswersAreOwn
<1>14. ReachedByTarget'
  <2>1. \A q \in Probe : hop'[q].status = "Reply" =>
          hop'[q] = hop[q] /\ (hop'[q].from = "target" \/ AnyReset(hop'[q]))
    BY <1>2, <1>5 DEF SamplesAreTrue, ReachedByTarget, NoHop, Sample
  <2>2. ASSUME Trace, NEW q \in Probe, hop'[q].status = "Reply", NEW r \in Probe, hop'[r] # NoHop
        PROVE  r <= q
    BY <1>2, <1>5, <2>1, <2>2 DEF SamplesAreTrue, ReachedByTarget, Hops
  <2>3. ASSUME Trace, NEW q \in Probe, hop'[q] # NoHop, NEW r \in 1..q
        PROVE  r \in Probe /\ hop'[r] # NoHop
    <3>1. r \in Probe /\ (r = q \/ r \in 1..(q - 1))
      BY <1>3, <1>2, Scenario DEF Probe, NativeTypes
    <3>2. hop' = hop /\ stand[q] = "done"
      BY <1>2, <1>5, <1>7, <2>3 DEF OneAfterOther
    <3>3. hop[p] = NoHop /\ result = "none"
      BY <1>2, <2>3 DEF OneAfterOther
    <3>4. r = q \/ stand[r] = "done"
      BY <1>2, <3>1, <3>2, <2>3 DEF OneAfterOther
    <3> QED
      BY <1>2, <2>3, <3>1, <3>2, <3>3, <3>4 DEF OneAfterOther
  <2> QED
    BY <1>9, <2>1, <2>2, <2>3, OwnSame DEF ReachedByTarget, Hops, NoHop, Sample
<1> QED
  BY <1>4, <1>6, <1>7, <1>8, <1>12, <1>13, <1>14 DEF SamplesAreTrue

(* The other steps make no sample; a trace sends only in its turn. *)
LEMMA StandKeeps ==
  ASSUME NativeInv, UNCHANGED <<scenario, hop, result>>,
         NEW p \in Probe, NEW to \in {"ready", "waiting"}, stand' = [stand EXCEPT ![p] = to],
         stand[p] \in {"idle", "ready"}, stand[p] = "idle" => Turn(p)
  PROVE  /\ stand' \in [Probe -> {"idle", "ready", "waiting", "done"}]
         /\ OneAfterOther' /\ SamplesAreTrue'
<1>1. NativeTypes /\ OneAfterOther /\ SamplesAreTrue
  BY DEF NativeInv
<1>2. Probe' = Probe /\ (Trace' <=> Trace) /\ Mode' = Mode
  BY Same
<1>3. /\ stand' \in [Probe -> {"idle", "ready", "waiting", "done"}]
      /\ stand'[p] = to /\ \A q \in Probe : q # p => stand'[q] = stand[q]
  BY <1>1 DEF NativeTypes
<1>4. Trace => /\ result = "none" /\ \A q \in 1..(p - 1) : stand[q] = "done"
               /\ hop[p] = NoHop
  BY <1>1 DEF OneAfterOther, Turn
<1>5. ASSUME Trace, NEW q \in Probe, NEW r \in 1..(q - 1), stand'[q] # "idle"
      PROVE  stand'[r] = "done"
  <2>1. r \in Probe /\ r # q
    BY <1>1, Scenario DEF Probe, NativeTypes
  <2>2. stand[r] = "done"
    BY <1>1, <1>3, <1>4, <1>5 DEF OneAfterOther
  <2> QED
    BY <1>3, <2>1, <2>2
<1>6. OneAfterOther'
  BY <1>1, <1>2, <1>3, <1>4, <1>5 DEF OneAfterOther, NoHop, Sample
<1>7. SamplesAreTrue'
  BY <1>1, <1>2
     DEF SamplesAreTrue, AnswersAreOwn, ReachedByTarget, Hops, NoHop, Sample,
         IsOwn, OnePort, AnyReset, FailsSend
<1> QED
  BY <1>3, <1>6, <1>7

LEMMA OthersKeep ==
  ASSUME NativeInv, UNCHANGED <<scenario, stand, hop, result>>
  PROVE  OneAfterOther' /\ SamplesAreTrue'
<1>1. Probe' = Probe /\ (Trace' <=> Trace) /\ Mode' = Mode
  BY Same
<1>2. OneAfterOther'
  BY <1>1 DEF NativeInv, OneAfterOther, NoHop, Sample
<1>3. SamplesAreTrue'
  BY <1>1
     DEF NativeInv, SamplesAreTrue, AnswersAreOwn, ReachedByTarget, Hops, NoHop, Sample,
         IsOwn, OnePort, AnyReset, FailsSend
<1> QED
  BY <1>2, <1>3

(* What a probe without an answer has for a sample. *)
LEMMA SampleKeeps ==
  ASSUME NEW s \in {"Unreachable", "Timeout", "Cancelled"}
  PROVE  Sample(s) \in Samples /\ Sample(s).status = s /\ Sample(s).kind = "none"
  BY DEF Sample, Samples, Statuses, NoProbe

(* A step that ends a probe leaves the rest to the answers that it read. *)
LEMMA SampleInv ==
  ASSUME NativeInv, UNCHANGED <<scenario, flight>>, pending' \in {pending, NoProbe},
         stand' \in [Probe -> {"idle", "ready", "waiting", "done"}],
         hop' \in [Probe -> Samples],
         result' \in {"none", "hops", "Cancelled", "Error"},
         heard' = [s \in {0} \cup Probe |-> heard'[s]],
         \A s \in {0} \cup Probe : heard'[s] \subseteq heard[s],
         \A q \in Probe : stand[q] \in {"waiting", "done"} => stand'[q] \in {"waiting", "done"},
         OneAfterOther', SamplesAreTrue'
  PROVE  NativeInv'
<1>1. Probe' = Probe
  BY Same
<1>2. AnswersAreSent'
  BY AnswersInv
<1>3. PendingIsSent' /\ pending' \in Nat
  BY PendingInv
<1>4. NativeTypes'
  BY <1>1, <1>3 DEF NativeInv, NativeTypes
<1> QED
  BY <1>2, <1>3, <1>4 DEF NativeInv

LEMMA BreakInv ==
  ASSUME NativeInv, Net, NEW p \in Probe, NEW error \in {"Cancelled", "Error"},
         stand[p] \in {"ready", "waiting"}, Break(p, error), pending' \in {pending, NoProbe}
  PROVE  NativeInv'
<1>1. UNCHANGED <<scenario, flight>>
  BY DEF Net
<1>2. \A q \in Probe : stand[q] \in {"waiting", "done"} => stand'[q] \in {"waiting", "done"}
  BY DEF Break, NativeInv, NativeTypes
<1> QED
  BY <1>1, <1>2, BreakKeeps, SampleInv

LEMMA SettleInv ==
  ASSUME NativeInv, Net, NEW p \in Probe, NEW sample, NEW read,
         sample \in Samples,
         sample.status # "none", stand[p] \in {"ready", "waiting"}, Settle(p, sample, read),
         sample.status = "Reply" => sample.from = "target" \/ AnyReset(sample),
         sample.kind # "none" => IsOwn(p, sample),
         pending' \in {pending, NoProbe}
  PROVE  NativeInv'
<1>1. UNCHANGED <<scenario, flight>>
  BY DEF Net
<1>2. \A q \in Probe : stand[q] \in {"waiting", "done"} => stand'[q] \in {"waiting", "done"}
  BY DEF Settle, NativeInv, NativeTypes
<1> QED
  BY <1>1, <1>2, SettleKeeps, SampleInv

(* One that only reads or clears a socket. *)
LEMMA ReadsInv ==
  ASSUME NativeInv, UNCHANGED <<scenario, stand, hop, result, flight>>, pending' \in {pending, NoProbe},
         heard' = [s \in {0} \cup Probe |-> heard'[s]],
         \A s \in {0} \cup Probe : heard'[s] \subseteq heard[s]
  PROVE  NativeInv'
<1>1. OneAfterOther' /\ SamplesAreTrue'
  BY OthersKeep
<1> QED
  BY <1>1, SampleInv DEF NativeInv, NativeTypes

----------------------------------------------------------------------------
(* The operations. *)
LEMMA cancelled_betweenInv ==
  ASSUME NativeInv, NEW p \in Probe, cancelled_between(p)
  PROVE  NativeInv'
<1>1. UNCHANGED <<scenario, stand, hop, heard, pending, flight>> /\ Trace /\ Turn(p)
  BY DEF cancelled_between, Net
<1>2. result' \in {"hops", "Cancelled"}
  BY DEF cancelled_between
<1>3. NativeTypes /\ OneAfterOther /\ SamplesAreTrue
  BY DEF NativeInv
<1>4. Probe' = Probe /\ (Trace' <=> Trace) /\ Mode' = Mode
  BY <1>1, Same
<1>5. result = "none" /\ (\A q \in 1..(p - 1) : stand[q] = "done") /\ stand[p] = "idle"
  BY <1>1 DEF Turn, cancelled_between
<1>6. Probe \subseteq Nat
  BY <1>3, Scenario DEF NativeTypes
<1>7. \A q \in Probe : stand[q] \notin {"ready", "waiting"}
  <2> SUFFICES ASSUME NEW q \in Probe, stand[q] \in {"ready", "waiting"}
               PROVE  FALSE
    OBVIOUS
  <2>1. (p < q => p \in 1..(q - 1)) /\ (q < p => q \in 1..(p - 1)) /\ (p < q \/ q < p)
    BY <1>5, <1>6 DEF Probe
  <2> QED
    BY <1>1, <1>3, <1>5, <2>1 DEF OneAfterOther
<1>8. OneAfterOther'
  BY <1>1, <1>2, <1>3, <1>4, <1>7 DEF OneAfterOther, NoHop, Sample
<1>9. ASSUME NEW q \in Probe, hop[q] # NoHop, NEW r \in 1..q
      PROVE  r \in Probe /\ hop[r] # NoHop
  <2>1. r \in Probe /\ (r = q \/ r \in 1..(q - 1))
    BY <1>6, <1>3, Scenario DEF Probe, NativeTypes
  <2> QED
    BY <1>1, <1>3, <1>5, <1>9, <2>1 DEF OneAfterOther
<1>10. SamplesAreTrue'
  BY <1>1, <1>3, <1>4, <1>9
     DEF SamplesAreTrue, AnswersAreOwn, ReachedByTarget, Hops, NoHop, Sample,
         IsOwn, OnePort, AnyReset, FailsSend
<1> QED
  BY <1>1, <1>2, <1>3, <1>8, <1>10, SampleInv DEF NativeTypes

LEMMA prepareInv ==
  ASSUME NativeInv, NEW p \in Probe, prepare(p)
  PROVE  NativeInv'
<1>1. /\ UNCHANGED <<scenario, hop, result, flight>> /\ Turn(p) /\ stand[p] = "idle"
      /\ stand' = [stand EXCEPT ![p] = "ready"]
      /\ heard' = [heard EXCEPT ![Sock(p)] = {}] \/ heard' = heard
      /\ pending' = NoProbe \/ pending' = pending
  BY DEF prepare, Net
<1>2. NativeTypes
  BY DEF NativeInv
<1>3. /\ stand' \in [Probe -> {"idle", "ready", "waiting", "done"}]
      /\ OneAfterOther' /\ SamplesAreTrue'
  BY <1>1, StandKeeps
<1>4. /\ heard' = [s \in {0} \cup Probe |-> heard'[s]]
      /\ \A s \in {0} \cup Probe : heard'[s] \subseteq heard[s]
  BY <1>1, <1>2, Socks DEF NativeTypes
<1>5. \A q \in Probe : stand[q] \in {"waiting", "done"} => stand'[q] \in {"waiting", "done"}
  BY <1>1, <1>2 DEF NativeTypes
<1>6. pending' \in {pending, NoProbe}
  BY <1>1
<1> QED
  BY <1>1, <1>2, <1>3, <1>4, <1>5, <1>6, SampleInv DEF NativeTypes

LEMMA sendInv ==
  ASSUME NativeInv, NEW p \in Probe, send(p)
  PROVE  NativeInv'
<1>1. /\ UNCHANGED <<scenario, hop, result, heard, pending>> /\ stand[p] = "ready"
      /\ stand' = [stand EXCEPT ![p] = "waiting"]
  BY DEF send
<1>2. NativeTypes
  BY DEF NativeInv
<1>3. PICK packet \in Answers(p) : flight' = flight \cup {packet}
  BY DEF send
<1>4. /\ stand' \in [Probe -> {"idle", "ready", "waiting", "done"}]
      /\ OneAfterOther' /\ SamplesAreTrue'
  BY <1>1, StandKeeps
<1>5. /\ stand'[p] = "waiting"
      /\ \A q \in Probe : stand[q] \in {"waiting", "done"} => stand'[q] \in {"waiting", "done"}
  BY <1>1, <1>2 DEF NativeTypes
<1>6. Probe' = Probe /\ Answers(p)' = Answers(p)
  BY <1>1 DEF Probe, Answers, sent, ProbeKey, Own_source, Own_identifier, Own_port, Mode, Trace, Icmp, Udp
<1>7. Sent(packet)'
  BY <1>5, <1>6 DEF Sent
<1>8. AnswersAreSent'
  BY <1>1, <1>2, <1>3, <1>5, <1>7, AnswersInv DEF NativeTypes
<1>9. PendingIsSent' /\ pending' \in Nat
  BY <1>1, <1>5, PendingInv
<1>10. NativeTypes'
  BY <1>1, <1>2, <1>4, <1>6, <1>9 DEF NativeTypes
<1> QED
  BY <1>4, <1>8, <1>9, <1>10 DEF NativeInv

LEMMA receiveInv ==
  ASSUME NativeInv, NEW p \in Probe, receive(p)
  PROVE  NativeInv'
<1>1. /\ UNCHANGED <<scenario, flight, pending>> /\ Net /\ stand[p] = "waiting"
      /\ pending' \in {pending, NoProbe}
  BY DEF receive, Net, NativeInv, NativeTypes
<1>2. PICK packet \in heard[Sock(p)] :
        IF mine(p, packet)
        THEN Settle(p, Made(packet), {packet})
        ELSE /\ heard' = [heard EXCEPT ![Sock(p)] = @ \ {packet}]
             /\ UNCHANGED <<stand, hop, open, kernel, result>>
  BY DEF receive
<1>3. CASE mine(p, packet)
  <2>1. /\ Made(packet) \in Samples
        /\ Made(packet).status \in {"TimeExceeded", "Reply", "Unreachable"}
        /\ Made(packet).status = "Reply" =>
             Made(packet).from = "target" \/ AnyReset(Made(packet))
        /\ IsOwn(p, Made(packet))
    BY <1>1, <1>3, Measured, Socks
  <2>2. Settle(p, Made(packet), {packet}) /\ Made(packet).status # "none"
    BY <1>2, <1>3, <2>1
  <2> QED
    BY <1>1, <2>1, <2>2, SettleInv
<1>4. CASE ~mine(p, packet)
  <2>1. /\ heard' = [heard EXCEPT ![Sock(p)] = @ \ {packet}]
        /\ UNCHANGED <<stand, hop, result>>
    BY <1>2, <1>4
  <2>2. /\ heard' = [s \in {0} \cup Probe |-> heard'[s]]
        /\ \A s \in {0} \cup Probe : heard'[s] \subseteq heard[s]
    BY <2>1, Socks DEF NativeInv, NativeTypes
  <2> QED
    BY <1>1, <2>1, <2>2, ReadsInv
<1> QED
  BY <1>3, <1>4

LEMMA connectedInv ==
  ASSUME NativeInv, NEW p \in Probe, connected(p)
  PROVE  NativeInv'
<1> DEFINE made == [status |-> "Reply", of |-> p, from |-> "target", kind |-> "connection"]
<1>1. p \in Nat
  BY Scenario DEF NativeInv, NativeTypes
<1>2. made \in Samples /\ made.status = "Reply" /\ made.of = p /\ made.from = "target"
  BY <1>1 DEF Samples, Statuses
<1>3. Settle(p, made, {}) /\ Net /\ stand[p] = "waiting" /\ pending' \in {pending, NoProbe}
  BY DEF connected
<1> HIDE DEF made
<1>4. IsOwn(p, made)
  BY <1>2 DEF IsOwn
<1> QED
  BY <1>2, <1>3, <1>4, SettleInv

(* The ends of a probe that heard nothing. *)
LEMMA unansweredInv ==
  ASSUME NativeInv, NEW p \in Probe,
         \/ send_meets_pending(p) \/ send_unreachable(p)
         \/ timeout(p) \/ cancelled_waiting(p) \/ refused(p) \/ socket_error(p)
  PROVE  NativeInv'
<1>1. pending' \in {pending, NoProbe} /\ Net
  BY DEF send_meets_pending, send_unreachable, timeout, cancelled_waiting, refused, socket_error
<1>2. CASE send_meets_pending(p)
  <2> DEFINE made == [status |-> "Unreachable", of |-> pending, from |-> "router",
                      kind |-> "pending"]
  <2>1. stand[p] = "ready" /\ pending # NoProbe /\ (Settle(p, made, {}) \/ Break(p, "Error"))
    BY <1>2 DEF send_meets_pending
  <2>2. pending \in 1..p /\ pending \in Nat /\ Trace /\ Mode = "udp_queue"
    <3>1. /\ Trace /\ Mode = "udp_queue" /\ pending \in Probe
          /\ stand[pending] \in {"waiting", "done"}
      BY <2>1 DEF NativeInv, PendingIsSent
    <3>2. Probe \subseteq 1..MaxTtl /\ MaxTtl \in Nat
      BY Scenario DEF NativeInv, NativeTypes
    <3>3. ASSUME p < pending PROVE FALSE
      <4>1. p \in 1..(pending - 1)
        BY <3>1, <3>2, <3>3
      <4>2. stand[p] = "done"
        BY <3>1, <4>1 DEF NativeInv, OneAfterOther
      <4> QED
        BY <2>1, <4>2
    <3> QED
      BY <3>1, <3>2, <3>3
  <2>3. made \in Samples /\ made.status = "Unreachable" /\ made.kind = "pending" /\ made.of = pending
    BY <2>2 DEF Samples, Statuses
  <2> HIDE DEF made
  <2>4. IsOwn(p, made)
    BY <2>2, <2>3 DEF IsOwn, FailsSend
  <2>5. CASE Settle(p, made, {})
    BY <1>1, <2>1, <2>3, <2>4, <2>5, SettleInv
  <2>6. CASE Break(p, "Error")
    BY <1>1, <2>1, <2>6, BreakInv
  <2> QED
    BY <2>1, <2>5, <2>6
<1>3. ASSUME NEW s \in {"Unreachable", "Timeout", "Cancelled"}, Settle(p, Sample(s), {}),
             stand[p] \in {"ready", "waiting"}
      PROVE  NativeInv'
  <2>1. Sample(s) \in Samples /\ Sample(s).status = s /\ Sample(s).kind = "none"
    BY SampleKeeps
  <2> QED
    BY <1>1, <1>3, <2>1, SettleInv
<1>4. CASE send_unreachable(p)
  BY <1>3, <1>4 DEF send_unreachable
<1>5. CASE timeout(p)
  BY <1>3, <1>5 DEF timeout
<1>6. CASE cancelled_waiting(p)
  BY <1>3, <1>6 DEF cancelled_waiting
<1>7. CASE refused(p)
  BY <1>1, <1>7, BreakInv DEF refused
<1>8. CASE socket_error(p)
  BY <1>1, <1>8, BreakInv DEF socket_error
<1> QED
  BY <1>2, <1>4, <1>5, <1>6, <1>7, <1>8

LEMMA arrivesInv ==
  ASSUME NativeInv, NEW packet \in flight, arrives(packet)
  PROVE  NativeInv'
<1>1. /\ UNCHANGED <<scenario, stand, hop, result>> /\ flight' = flight \ {packet}
      /\ heard' = [s \in DOMAIN heard |->
                     IF Hears(s, packet) THEN heard[s] \cup {packet} ELSE heard[s]]
      /\ pending' = IF Mode = "udp_queue" /\ Trace /\ Hears(0, packet) THEN packet.of ELSE pending
  BY DEF arrives
<1>2. NativeTypes
  BY DEF NativeInv
<1>3. OneAfterOther' /\ SamplesAreTrue' /\ Probe' = Probe
  BY <1>1, OthersKeep, Same
<1>4. DOMAIN heard = {0} \cup Probe
  BY <1>2 DEF NativeTypes
<1>5. \A s : Hears(s, packet) => MayHear(s, packet)
  BY DEF Hears, MayHear
<1>6. heard' = [s \in {0} \cup Probe |-> heard'[s]]
  BY <1>1, <1>4
<1>7. \A s \in {0} \cup Probe : \A a \in heard'[s] :
        a \in heard[s] \/ (a \in flight /\ MayHear(s, a))
  BY <1>1, <1>4, <1>5
<1>8. AnswersAreSent'
  BY <1>1, <1>7, AnswersInv
<1>9. pending' \in Nat /\ PendingIsSent'
  <2>1. CASE Mode = "udp_queue" /\ Trace /\ Hears(0, packet)
    <3>1. packet.of # NoProbe /\ pending' = packet.of
      <4>1. packet.kind \notin Segments /\ Queue /\ ~Icmp /\ Udp
        BY <2>1 DEF Hears, Queue, Icmp, Udp
      <4>2. packet.kind # "echo"
        BY <4>1, ForeignAnswer DEF NativeInv, AnswersAreSent, Sent, Answers, Segments
      <4> QED
        BY <1>1, <2>1, <4>1, <4>2 DEF Hears
    <3>2. PICK q \in Probe : stand[q] \in {"waiting", "done"} /\ packet \in Answers(q)
      BY <3>1, ForeignAnswer DEF NativeInv, AnswersAreSent, Sent
    <3>3. packet.of = q /\ q \in Nat
      BY <1>2, <3>2, AnswerOf, Scenario DEF NativeTypes
    <3> QED
      BY <1>1, <2>1, <3>1, <3>2, <3>3, Same DEF PendingIsSent
  <2>2. CASE ~(Mode = "udp_queue" /\ Trace /\ Hears(0, packet))
    BY <1>1, <2>2, PendingInv
  <2> QED
    BY <2>1, <2>2
<1>10. NativeTypes'
  BY <1>1, <1>2, <1>3, <1>6, <1>9 DEF NativeTypes
<1> QED
  BY <1>3, <1>8, <1>9, <1>10 DEF NativeInv

LEMMA NativeStart == NativeInit => NativeInv
<1> SUFFICES ASSUME NativeInit PROVE NativeInv
  OBVIOUS
<1>1. /\ scenario \in Scenarios /\ stand = [p \in Probe |-> "idle"]
      /\ hop = [p \in Probe |-> NoHop] /\ result = "none"
      /\ heard = [s \in {0} \cup Probe |-> {}] /\ pending = NoProbe /\ flight = Foreign
  BY DEF NativeInit
<1>2. NativeTypes
  BY <1>1 DEF NativeTypes, NoHop, Sample, NoProbe, Samples, Statuses
<1>3. AnswersAreSent /\ PendingIsSent
  BY <1>1 DEF AnswersAreSent, Sent, PendingIsSent
<1>4. OneAfterOther
  BY <1>1 DEF OneAfterOther, NoHop, Sample
<1>5. SamplesAreTrue
  BY <1>1 DEF SamplesAreTrue, AnswersAreOwn, ReachedByTarget, Hops, NoHop, Sample
<1> QED
  BY <1>2, <1>3, <1>4, <1>5 DEF NativeInv

(* Nothing else is ever made of an answer. *)
THEOREM NativeInvariant == NativeSpec => []NativeInv
<1>1. NativeInv /\ [NativeNext]_native_vars => NativeInv'
  <2> SUFFICES ASSUME NativeInv, [NativeNext]_native_vars PROVE NativeInv'
    OBVIOUS
  <2>1. CASE cancel
    BY <2>1, ReadsInv DEF cancel, NativeInv, NativeTypes
  <2>2. ASSUME NEW p \in Probe, ProbeStep(p) PROVE NativeInv'
    BY <2>2, cancelled_betweenInv, prepareInv, sendInv, receiveInv, connectedInv, unansweredInv
       DEF ProbeStep
  <2>3. ASSUME NEW packet \in flight, arrives(packet) PROVE NativeInv'
    BY <2>3, arrivesInv
  <2>4. CASE UNCHANGED native_vars
    BY <2>4, ReadsInv DEF native_vars, NativeInv, NativeTypes
  <2> QED
    BY <2>1, <2>2, <2>3, <2>4 DEF NativeNext
<1> QED
  BY <1>1, NativeStart, PTL DEF NativeSpec

(* A sample is made of the answer to its own probe, but for three cases: the  *)
(* connections of a trace on Windows have one port, so that a router's answer *)
(* to an earlier one passes; a raw trace takes anyone's reset to its ports;   *)
(* the late error of an earlier datagram fails a send over the error queue.   *)
(* Only the target, or such a reset, is an arrival, and a trace that ends     *)
(* well has no gap (native.rs:371-391, 488-516, 927-934; windows.rs:214).     *)
THEOREM SamplesAreTrueHolds == NativeSpec => []SamplesAreTrue
<1>1. NativeInv => SamplesAreTrue
  BY DEF NativeInv
<1> QED
  BY <1>1, NativeInvariant, PTL
=============================================================================
