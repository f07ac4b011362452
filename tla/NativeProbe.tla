---------------------------- MODULE NativeProbe ----------------------------
(***************************************************************************)
(* One probe per TTL through the sockets of path-io/native.rs and          *)
(* native/windows.rs, and the answers that packet/lib.rs takes for it.     *)
(* A trace sends one probe after the other; the rounds of a path trace     *)
(* have several under way, each with sockets of its own.                   *)
(*                                                                         *)
(* A raw socket hears the answers to every probe of the host, another      *)
(* program's included; a socket's error queue only those to its own.  An   *)
(* answer may be late, out of order, or lost, and may come from a router   *)
(* or a firewall as well as from the target.                               *)
(***************************************************************************)
EXTENDS Integers

CONSTANTS
  MaxTtl,      \* the longest trace: its probes are 1..max_hops, each with its TTL
  Scenarios,   \* the sockets to be had, who sends, and how far the target is
  MaxErrors    \* socket calls that fail

Modes == {"icmp_raw", "icmp_ping", "udp_listener", "udp_queue",
          "tcp_raw", "tcp_queue", "tcp_listener", "tcp_windows"}

ASSUME NativeAssumption ==
  /\ MaxTtl \in Nat \ {0} /\ MaxErrors \in Nat
  /\ Scenarios \subseteq [mode: Modes, style: {"trace", "round"}, max_hops: 1..MaxTtl,
                            distance: Nat \ {0}]

VARIABLES
  scenario,
  stand,    \* where each probe stands
  hop,      \* its sample
  result,   \* of the trace: its hops or an error
  open,     \* the sockets that hear: 0 for one of the trace, p for one of the probe
  heard,    \* what each of them has to be read
  kernel,   \* what the kernel knows of each connection of its own
  pending,  \* the pending error of the trace's UDP socket, as the probe it is about
  flight,   \* answers on their way
  token,
  errors

native_vars == <<scenario, stand, hop, result, open, heard, kernel, pending, flight, token, errors>>

Probe == 1..scenario.max_hops
Mode  == scenario.mode
Trace == scenario.style = "trace"
Icmp  == Mode \in {"icmp_raw", "icmp_ping"}
Udp   == Mode \in {"udp_listener", "udp_queue"}
Connects == Mode \in {"tcp_queue", "tcp_listener", "tcp_windows"}
Queue == Mode \in {"icmp_ping", "udp_queue", "tcp_queue"}

(* probe_once and the error queue of a connection have a socket per probe; the *)
(* traces of datagrams, raw segments and watched connections have one for all *)
(* (native.rs:342-361, 685, 898-901; windows.rs:101-107).                     *)
Sock(p) == IF Trace /\ Mode \in {"udp_listener", "udp_queue", "tcp_raw", "tcp_listener",
                                 "tcp_windows"} THEN 0 ELSE p

NoProbe == 0      \* not about a probe of ours
Sample(status) == [status |-> status, of |-> NoProbe, from |-> "none", kind |-> "none"]
NoHop == Sample("none")

----------------------------------------------------------------------------
(* ProbeKey.  source is the identifier or the source port: one for a trace,   *)
(* or one of the probe's own where the kernel or its ordinal gives it one.    *)
(* target is the sequence or the destination port.  sequence is TCP's, known  *)
(* only to who writes it.                                                     *)
Own_identifier == Mode = "icmp_ping"   \* the kernel writes its own into the echo
Own_port == Mode \in {"tcp_queue", "tcp_listener"}   \* a connection bound to port 0
Own_source == Own_identifier \/ Own_port \/ ~Trace
ProbeKey(p) ==
  [source   |-> IF Own_source THEN p ELSE 0,
   target   |-> IF Icmp \/ Udp THEN p ELSE 0,
   sequence |-> IF Mode = "tcp_raw" THEN p ELSE NoProbe]

(* What is on the wire of it: a SYN has a sequence number whoever writes it. *)
sent(p) == [ProbeKey(p) EXCEPT !.sequence = IF Icmp \/ Udp THEN NoProbe ELSE p]

Segments == {"syn_ack", "rst"}

(* What may come back: the answer of the router the TTL ends at, of the       *)
(* target, or of something between that lets nothing through.                 *)
Answers(p) ==
  LET kinds == IF p < scenario.distance
               THEN {<<"exceeded", "router">>, <<"port_unreachable", "router">>}
               ELSE IF Icmp THEN {<<"echo", "target">>}
               ELSE IF Udp THEN {<<"port_unreachable", "target">>}
               ELSE {<<s, "target">> : s \in Segments}
  IN {[of |-> p, kind |-> k[1], from |-> k[2], key |-> sent(p)] : k \in kinds}

(* Another program probes the same target, with the same ports or sequence    *)
(* numbers and an identifier or a source port of its own.  Some other host    *)
(* answers, from the same port to the one of our first probe, a connection    *)
(* that is not ours: it acknowledges a sequence number that we never sent.    *)
Foreign ==
  {[of |-> NoProbe, kind |-> "exceeded", from |-> "other",
    key |-> [sent(2) EXCEPT !.source = MaxTtl + 1]]} \cup
  {[of |-> NoProbe, kind |-> s, from |-> "other",
    key |-> [sent(1) EXCEPT !.sequence = MaxTtl + 1]] : s \in Segments}

----------------------------------------------------------------------------
(* Mutant: the port or the sequence number quoted is not compared. *)
correlates_SourceOnly(key, quoted) == quoted.source = key.source

correlates(key, quoted) ==
  /\ quoted.source = key.source /\ quoted.target = key.target
  /\ key.sequence = NoProbe \/ quoted.sequence = key.sequence

(* The segments a raw trace accepts, and a raw probe: the ports match, and    *)
(* what is acknowledged; but a trace takes any reset.  Neither looks at the   *)
(* address they come from.                                                    *)
accept_trace(p, answer) ==
  /\ answer.key.source = ProbeKey(p).source
  /\ answer.kind = "rst" \/ answer.key.sequence = p
accept_probe(p, answer) ==
  answer.key.source = ProbeKey(p).source /\ answer.key.sequence = p

(* Is this answer the probe's?  An error queue is about its own socket only;  *)
(* that of a UDP trace is about all its probes, told by the destination.      *)
probe_once(p, answer) ==
  IF Queue /\ answer.kind # "echo" THEN answer.key.target = p
                                   ELSE correlates(ProbeKey(p), answer.key)
udp_trace(p, answer) ==
  IF Queue THEN answer.key.target = p ELSE correlates(ProbeKey(p), answer.key)
raw_wait(p, answer) ==
  IF answer.kind \notin Segments THEN correlates(ProbeKey(p), answer.key)
  ELSE IF Trace THEN accept_trace(p, answer) ELSE accept_probe(p, answer)
connect_probe(p, answer) == Queue \/ correlates(ProbeKey(p), answer.key)

mine(p, answer) ==
  \/ Icmp /\ probe_once(p, answer)
  \/ Udp /\ udp_trace(p, answer)
  \/ Mode = "tcp_raw" /\ raw_wait(p, answer)
  \/ Connects /\ connect_probe(p, answer)

(* Port unreachable from the target ends a UDP trace. *)
arrival(answer) == Udp /\ answer.from = "target"

status(answer) ==
  CASE answer.kind = "exceeded" -> "TimeExceeded"
    [] answer.kind = "port_unreachable" -> IF arrival(answer) THEN "Reply" ELSE "Unreachable"
    [] OTHER -> "Reply"

(* What is made of an answer. *)
Made(answer) ==
  [status |-> status(answer), of |-> answer.of, from |-> answer.from, kind |-> answer.kind]

----------------------------------------------------------------------------
Hops == {p \in Probe : hop[p] # NoHop}

NativeInit ==
  /\ scenario \in Scenarios
  /\ stand = [p \in Probe |-> "idle"] /\ hop = [p \in Probe |-> NoHop] /\ result = "none"
  /\ open = (IF Trace THEN {0} ELSE {}) /\ heard = [s \in {0} \cup Probe |-> {}]
  /\ kernel = [p \in Probe |-> "none"] /\ pending = NoProbe
  /\ flight = Foreign /\ token = FALSE /\ errors = 0

Net == UNCHANGED <<scenario, flight, token>>
(* What was read is gone; the probe's own sockets are closed. *)
Close(p, read) ==
  /\ open' = open \ {p} /\ kernel' = [kernel EXCEPT ![p] = "none"]
  /\ heard' = [heard EXCEPT ![Sock(p)] = IF Sock(p) = p THEN {} ELSE @ \ read]

(* The probe has its sample (native.rs:178-187, 467-482, 702-712, 938-948;    *)
(* windows.rs:329-343).  A trace ends with an arrival, a cancellation it *)
(* saw while waiting, or its last hop; one of echoes sees it at its next hop. *)
Settle(p, sample, read) ==
  LET ends == \/ p = scenario.max_hops \/ sample.status = "Reply"
              \/ sample.status = "Cancelled" /\ ~Icmp
  IN  /\ stand' = [stand EXCEPT ![p] = "done"] /\ hop' = [hop EXCEPT ![p] = sample] /\ Close(p, read)
      /\ result' = IF Trace /\ ends THEN "hops" ELSE result

(* An error is the trace's, and its hops are lost; a trace of echoes keeps    *)
(* them when the error is the cancellation.                                   *)
Break(p, error) ==
  LET keeps == Icmp /\ error = "Cancelled" /\ Hops # {} IN
  /\ stand' = [stand EXCEPT ![p] = "done"] /\ Close(p, {})
  /\ result' = IF ~Trace THEN result ELSE IF keeps THEN "hops" ELSE error
  /\ hop' = IF Trace /\ ~keeps THEN [q \in Probe |-> NoHop] ELSE hop

Turn(p) == ~Trace \/ (result = "none" /\ \A q \in 1..(p - 1) : stand[q] = "done")

(* The loop of a trace, up to the options of the socket (native.rs:157-165,   *)
(* 364-369, 688-693, 903-908; windows.rs:110-115, 225-230).                   *)
cancelled_between(p) ==
  /\ stand[p] = "idle" /\ Turn(p) /\ Trace /\ token
  /\ result' = IF Hops = {} THEN "Cancelled" ELSE "hops"
  /\ UNCHANGED <<stand, hop, open, heard, kernel, pending, errors>> /\ Net

(* discard_error_queue: and the pending error with it. *)
prepare(p) ==
  /\ stand[p] = "idle" /\ Turn(p) /\ ~(Trace /\ token)
  /\ stand' = [stand EXCEPT ![p] = "ready"] /\ open' = open \cup {Sock(p)}
  /\ IF Mode = "udp_queue" THEN heard' = [heard EXCEPT ![Sock(p)] = {}] /\ pending' = NoProbe
                           ELSE UNCHANGED <<heard, pending>>
  /\ UNCHANGED <<hop, result, kernel, errors>> /\ Net

(* begin_probe: the token, then the send. *)
refused(p) ==
  /\ stand[p] = "ready" /\ token
  /\ Break(p, "Cancelled") /\ UNCHANGED <<pending, errors>> /\ Net

send(p) ==
  /\ stand[p] = "ready" /\ pending = NoProbe
  /\ stand' = [stand EXCEPT ![p] = "waiting"]
  /\ \E answer \in Answers(p) : flight' = flight \cup {answer}
  /\ UNCHANGED <<scenario, hop, result, open, heard, kernel, pending, token, errors>>

(* An error that came in after the queue was emptied fails the send: no route *)
(* for one that says so, the trace for a refused port.                        *)
send_meets_pending(p) ==
  /\ stand[p] = "ready" /\ pending # NoProbe /\ ~token
  /\ IF pending < scenario.distance
     THEN Settle(p, [status |-> "Unreachable", of |-> pending, from |-> "router",
                     kind |-> "pending"], {})
     ELSE Break(p, "Error")
  /\ pending' = NoProbe /\ UNCHANGED errors /\ Net

(* The kernel has no route. *)
send_unreachable(p) ==
  /\ stand[p] = "ready" /\ pending = NoProbe /\ Mode # "tcp_windows" /\ errors < MaxErrors
  /\ Settle(p, Sample("Unreachable"), {})
  /\ errors' = errors + 1 /\ UNCHANGED pending /\ Net

(* A socket call fails before the send or while waiting. *)
socket_error(p) ==
  /\ stand[p] \in {"ready", "waiting"} /\ errors < MaxErrors
  /\ Break(p, "Error") /\ errors' = errors + 1 /\ UNCHANGED pending /\ Net

(* One packet read and compared. *)
receive(p) ==
  /\ stand[p] = "waiting"
  /\ \E answer \in heard[Sock(p)] :
       IF mine(p, answer)
       THEN Settle(p, Made(answer), {answer})
       ELSE /\ heard' = [heard EXCEPT ![Sock(p)] = @ \ {answer}]
            /\ UNCHANGED <<stand, hop, open, kernel, result>>
  /\ UNCHANGED <<pending, errors>> /\ Net

(* The connection is there or was refused: either is the target. *)
connected(p) ==
  /\ stand[p] = "waiting" /\ kernel[p] = "target"
  /\ Settle(p, [status |-> "Reply", of |-> p, from |-> "target", kind |-> "connection"], {})
  /\ UNCHANGED <<pending, errors>> /\ Net

(* Its deadline has passed. *)
timeout(p) ==
  /\ stand[p] = "waiting"
  /\ Settle(p, Sample("Timeout"), {}) /\ UNCHANGED <<pending, errors>> /\ Net

cancelled_waiting(p) ==
  /\ stand[p] = "waiting" /\ token
  /\ Settle(p, Sample("Cancelled"), {}) /\ UNCHANGED <<pending, errors>> /\ Net

----------------------------------------------------------------------------
(* An answer arrives: at every raw socket, at the queue of its own socket,    *)
(* or at the kernel's connection.                                             *)
Hears(s, answer) ==
  /\ s \in open
  /\ IF answer.kind \in Segments THEN Mode = "tcp_raw"
     ELSE Queue /\ answer.kind # "echo" => answer.of # NoProbe /\ s = Sock(answer.of)

(* The kernel knows its connections by both addresses and ports. *)
Kernel_hears(answer) ==
  Connects /\ answer.kind \in Segments /\ answer.of \in Probe /\ stand[answer.of] = "waiting"
Over == result # "none" \/ \A p \in Probe : stand[p] = "done"

arrives(answer) ==
  /\ ~Over
  /\ Kernel_hears(answer) \/ \E s \in open : Hears(s, answer)
  /\ answer \in flight /\ flight' = flight \ {answer}
  /\ heard' = [s \in DOMAIN heard |-> IF Hears(s, answer) THEN heard[s] \cup {answer} ELSE heard[s]]
  /\ kernel' = IF Kernel_hears(answer)
               THEN [kernel EXCEPT ![answer.of] = "target"] ELSE kernel
  /\ pending' = IF Mode = "udp_queue" /\ Trace /\ Hears(0, answer) THEN answer.of ELSE pending
  /\ UNCHANGED <<scenario, stand, hop, result, open, token, errors>>

cancel ==
  /\ ~token /\ ~Over /\ token' = TRUE
  /\ UNCHANGED <<scenario, stand, hop, result, open, heard, kernel, pending, flight, errors>>

ProbeStep(p) ==
  \/ cancelled_between(p) \/ prepare(p) \/ refused(p) \/ send(p) \/ send_meets_pending(p)
  \/ send_unreachable(p) \/ socket_error(p) \/ receive(p) \/ connected(p)
  \/ timeout(p) \/ cancelled_waiting(p)

NativeNext == cancel \/ (\E p \in Probe : ProbeStep(p)) \/ \E answer \in flight : arrives(answer)

NativeSpec == NativeInit /\ [][NativeNext]_native_vars

----------------------------------------------------------------------------
(* What tells the answers to the probes of a trace apart is less than a key   *)
(* for each in three cases.  On Windows its connections have one port, so a   *)
(* router's answer to an earlier one passes (windows.rs:214, 261).  A raw      *)
(* trace takes any reset to its ports, whoever sends it (native.rs:927-934).  *)
(* The error of an earlier datagram that comes between the emptying of the    *)
(* queue and the send fails the send (native.rs:371-391).                     *)
OnePort(sample)  == Trace /\ Mode = "tcp_windows" /\ sample.status # "Reply"
AnyReset(sample) == Trace /\ Mode = "tcp_raw" /\ sample.kind = "rst"
FailsSend(sample) ==
  Trace /\ Mode = "udp_queue" /\ sample.kind = "pending" /\ sample.status = "Unreachable"

(* A sample is made of the answer to its own probe, however late others come: *)
(* never of another program's or of a later probe's, nor of an earlier one's, *)
(* but for the three cases above, of which the first and the last are about   *)
(* an earlier probe of the trace and only a reset may be about none of it.    *)
(* That the last case can be is against the comment at native.rs:1881-1882,   *)
(* "so neither is attributed to it or fails its send" (packet/lib.rs:132-166, *)
(* native.rs:1200-1285).                                                      *)
IsOwn(p, sample) ==
  \/ sample.of = p
  \/ sample.of \in 1..p /\ (OnePort(sample) \/ AnyReset(sample) \/ FailsSend(sample))
  \/ sample.of = NoProbe /\ AnyReset(sample)
AnswersAreOwn == \A p \in Probe : hop[p].kind # "none" => IsOwn(p, hop[p])

(* Only the target's own answer is an arrival, or a reset that a raw trace    *)
(* takes from anyone; no hop is measured beyond it, and a trace that ends     *)
(* well has no gap (native.rs:146-190, 488-516).                              *)
ReachedByTarget ==
  /\ \A p \in Probe : hop[p].status = "Reply" =>
       /\ hop[p].from = "target" \/ AnyReset(hop[p])
       /\ Trace => \A q \in Hops : q <= p
  /\ Trace /\ result = "hops" => \A p \in Hops : \A q \in 1..p : q \in Hops

(* What a sample says: whose answer it is, and from where. *)
SamplesAreTrue == AnswersAreOwn /\ ReachedByTarget
============================================================================
