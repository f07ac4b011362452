------------------------------- MODULE MCParts ------------------------------
(***************************************************************************)
(* Eight parts that no liveness property is about, checked in one run: four *)
(* that keep files, the replay cache of the helper, a request over its     *)
(* Windows pipe, a UDP data stream, the sockets of a trace.                *)
(* A behaviour is of one of them, the others stay as they were first.      *)
(* Of three calls for the Windows helper one registers and one removes for *)
(* one user; the remaining one does either, for either user.               *)
(***************************************************************************)
EXTENDS BackupPublication, RestoreStaging, ProfileStore, WindowsHelper, ReplayCache,
        UdpStream, WindowsExchange, NativeProbe

CONSTANTS first, second, third   \* the callers

VARIABLE system   \* the one this behaviour is of

all_vars == <<vars, staging_vars, store_vars, windows_vars, cache_vars, udp_vars,
              exchange_vars, native_vars, system>>

(* Every kind of socket, alone in a trace and several in a round, to a target *)
(* two hops away or, of a trace, out of reach.                                *)
AllScenarios == [mode: Modes, style: {"trace"}, max_hops: {3}, distance: {2, 4}]
                  \cup [mode: Modes, style: {"round"}, max_hops: {2}, distance: {2}]

(* The machine's clock goes with the monotonic one, or is a tick behind. *)
ClockOffsets == {-1, 0}

AtRest(name) ==
  /\ name = "publication" \/ (dir = Initial("old", None) /\ images = {dir} /\ prior = None
       /\ pc = "collision" /\ cause = "none" /\ outcome = "none" /\ swapped = FALSE)
  /\ name = "probes" \/ scenario = CHOOSE s \in Scenarios : s.style = "trace"
  /\ LET u == CHOOSE u \in Users : TRUE
     IN /\ call[first] = [register |-> TRUE, user |-> u]
        /\ call[third] = [register |-> FALSE, user |-> u]
        /\ name = "windows" \/ call[second] = call[third]

Init ==
  /\ system \in {"publication", "staging", "profiles", "windows", "replay", "udp", "exchange", "probes"}
  /\ PublicationInit /\ StagingInit /\ StoreInit /\ WindowsInit /\ CacheInit
  /\ UdpInit /\ ExchangeInit /\ NativeInit
  /\ AtRest(system)

Next ==
  /\ UNCHANGED system
  /\ \/ /\ system = "publication" /\ PublicationNext
        /\ UNCHANGED <<staging_vars, store_vars, windows_vars, cache_vars, udp_vars, exchange_vars, native_vars>>
     \/ /\ system = "staging" /\ StagingNext
        /\ UNCHANGED <<vars, store_vars, windows_vars, cache_vars, udp_vars, exchange_vars, native_vars>>
     \/ /\ system = "profiles" /\ StoreNext
        /\ UNCHANGED <<vars, staging_vars, windows_vars, cache_vars, udp_vars, exchange_vars, native_vars>>
     \/ /\ system = "windows" /\ WindowsNext
        /\ UNCHANGED <<vars, staging_vars, store_vars, cache_vars, udp_vars, exchange_vars, native_vars>>
     \/ /\ system = "replay" /\ CacheNext
        /\ UNCHANGED <<vars, staging_vars, store_vars, windows_vars, udp_vars, exchange_vars, native_vars>>
     \/ /\ system = "udp" /\ UdpNext
        /\ UNCHANGED <<vars, staging_vars, store_vars, windows_vars, cache_vars, exchange_vars, native_vars>>
     \/ /\ system = "exchange" /\ ExchangeNext
        /\ UNCHANGED <<vars, staging_vars, store_vars, windows_vars, cache_vars, udp_vars, native_vars>>
     \/ /\ system = "probes" /\ NativeNext
        /\ UNCHANGED <<vars, staging_vars, store_vars, windows_vars, cache_vars, udp_vars, exchange_vars>>

Spec == Init /\ [][Next]_all_vars
=============================================================================
