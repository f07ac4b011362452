---------------------------- MODULE ReplayCache -----------------------------
(***************************************************************************)
(* The requests the helper takes and the nonces it remembers               *)
(* (helper/protocol.rs, the start of HelperServer::handle): frames that    *)
(* come late, twice or never, while time passes, the cache fills and the   *)
(* clock of the machine is set. A frame is dated by that clock, an entry   *)
(* of the cache by a monotonic one.                                        *)
(***************************************************************************)
EXTENDS Integers, Sequences, FiniteSets

CONSTANTS
  Frames,         \* requests, each with a nonce of its own
  MAX_NONCES,
  FRAME_VALIDITY, \* in ticks
  CLOCK_SKEW,
  NONCE_TTL,
  Offsets,        \* bound: how far the machine's clock may be from the monotonic one
  MaxTime         \* bound

ASSUME CacheAssumption ==
  /\ MAX_NONCES \in Nat \ {0}
  /\ {FRAME_VALIDITY, CLOCK_SKEW, NONCE_TTL, MaxTime} \subseteq Nat
  /\ FRAME_VALIDITY + CLOCK_SKEW <= NONCE_TTL
  /\ Offsets \subseteq Int

VARIABLES
  time,      \* of the monotonic clock of the service
  offset,    \* of the machine's clock from it
  issued,    \* of each frame that was signed, when, by the clock of its sender
  entries,   \* the nonces in the cache, and when each was seen
  queue,     \* the order they came in
  taken,     \* ghost: how often each frame was taken
  exposed,   \* ghost: the frames taken before the machine's clock was set back
  crowded    \* ghost: a frame was refused for want of room, and it should not have been

cache_vars == <<time, offset, issued, entries, queue, taken, exposed, crowded>>

CacheInit ==
  /\ time = 0 /\ offset = 0 /\ issued = <<>>
  /\ entries = <<>> /\ queue = <<>>
  /\ taken = [f \in Frames |-> 0] /\ exposed = {} /\ crowded = FALSE

(* What the machine's clock says: SystemTime. *)
Wall == time + offset

(* The client signs a request with the time of its clock. *)
sign(f) ==
  /\ f \notin DOMAIN issued
  /\ \E skew \in -CLOCK_SKEW..CLOCK_SKEW :
       issued' = [g \in DOMAIN issued \cup {f} |-> IF g = f THEN Wall + skew ELSE issued[g]]
  /\ UNCHANGED <<time, offset, entries, queue, taken, exposed, crowded>>

verify(f) ==
  /\ f \in DOMAIN issued
  /\ issued[f] >= Wall - FRAME_VALIDITY /\ issued[f] <= Wall + CLOCK_SKEW

(* Mutant: a nonce is remembered as long as a frame is valid. *)
Expired_Early(f) == entries[f] < time - FRAME_VALIDITY

Expired(f) == entries[f] < time - NONCE_TTL

(* The longest start of the queue that has expired goes. *)
Stale == CHOOSE n \in 0..Len(queue) :
           /\ \A i \in 1..n : Expired(queue[i])
           /\ n < Len(queue) => ~Expired(queue[n + 1])

(* HelperServer::handle, up to the request it has in hand. *)
handle(f) ==
  /\ verify(f)
  /\ LET left == SubSeq(queue, Stale + 1, Len(queue))
         remembered == [g \in {left[i] : i \in 1..Len(left)} |-> entries[g]]
     IN IF f \in DOMAIN remembered \/ Len(left) >= MAX_NONCES
        THEN /\ queue' = left /\ entries' = remembered
             /\ crowded' = (\/ crowded
                           \/ /\ f \notin DOMAIN remembered
                              /\ \E g \in DOMAIN remembered : remembered[g] < time - NONCE_TTL)
             /\ UNCHANGED taken
        ELSE /\ queue' = Append(left, f)
             /\ entries' = [g \in DOMAIN remembered \cup {f} |->
                              IF g = f THEN time ELSE remembered[g]]
             /\ taken' = [taken EXCEPT ![f] = @ + 1]
             /\ UNCHANGED crowded
  /\ UNCHANGED <<time, offset, issued, exposed>>

Tick ==
  /\ time < MaxTime /\ time' = time + 1
  /\ UNCHANGED <<offset, issued, entries, queue, taken, exposed, crowded>>

(* The machine's clock is set, by its user or a time service; the monotonic one goes on. *)
clock_is_set ==
  /\ \E o \in Offsets \ {offset} :
       /\ offset' = o
       /\ exposed' = IF o < offset THEN {f \in Frames : taken[f] > 0} ELSE exposed
  /\ UNCHANGED <<time, issued, entries, queue, taken, crowded>>

CacheNext == (\E f \in Frames : sign(f) \/ handle(f)) \/ Tick \/ clock_is_set

CacheSpec == CacheInit /\ [][CacheNext]_cache_vars

----------------------------------------------------------------------------
(* A frame that is delivered again and again is carried out once, however its *)
(* sender's clock is set and whatever the cache has forgotten since. One      *)
(* exception: the machine's clock was set back after the frame was taken,     *)
(* which makes it valid again by a clock the cache does not expire by. And a  *)
(* frame is refused for want of room only while every entry is as young as    *)
(* NONCE_TTL (protocol.rs:234-252, 300-325).                                  *)
TakenOnce ==
  /\ \A f \in Frames \ exposed : taken[f] <= 1
  /\ ~crowded
============================================================================
