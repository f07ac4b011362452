------------------------- MODULE ThroughputControl -------------------------
(***************************************************************************)
(* A throughput test: run_test_with_retry of                               *)
(* throughput/src/protocol.rs against an iperf3 server.                    *)
(*                                                                         *)
(* Each attempt has a control connection of its own, over which the two    *)
(* sides go through a fixed sequence of states, and data streams that run  *)
(* beside it as tasks.  The server serves one control connection at a      *)
(* time.  It is an external program and may misbehave MaxFaults times.     *)
(***************************************************************************)
EXTENDS Naturals, Sequences, FiniteSets

CONSTANTS
  Specs,       \* the tests: records [protocol, direction, streams]
  MaxRetries,  \* RetryPolicy.max_retries
  Addresses,   \* how many addresses the target may resolve to
  MaxFaults    \* bound: failures of the server and of the network

ASSUME ThroughputAssumption ==
  /\ Specs \subseteq [protocol : {"tcp", "udp", "both"}, direction : {"tx", "rx", "bidir"},
                      streams : Nat \ {0}]
  /\ MaxRetries \in Nat /\ Addresses \in Nat \ {0} /\ MaxFaults \in Nat

VARIABLES
  spec,       \* what is tested
  cancelled,  \* the token
  attempt,    \* the attempt that is made
  pc,         \* where run_test_with_retry is
  line,       \* where the attempt is in Script
  left,       \* resolved addresses not tried yet
  stream,     \* the data streams of each attempt
  answer,     \* the server's results
  outcome,    \* what the test returned
  toServer,   \* control connections, by attempt
  toClient,
  session,    \* the server: whom it serves, and where it is
  backlog,    \* receiving streams whose buffers the server has filled
  served,     \* attempts the server gave its results for
  faults

clientVars == <<spec, attempt, pc, line, left, stream, answer, outcome>>
serverVars == <<session, served>>
vars == <<clientVars, cancelled, toServer, toClient, serverVars, backlog, faults>>

Attempts == 1 .. MaxRetries + 1
Nobody == 0
Other == MaxRetries + 2     \* a client of another program

----------------------------------------------------------------------------
(* Senders come first; both directions have as many. *)
Total == IF spec.direction = "bidir" THEN 2 * spec.streams ELSE spec.streams
Index == 1..Total
Receiver(i) == spec.direction = "rx" \/ (spec.direction = "bidir" /\ i > spec.streams)

(* libiperf's numbers for streams. *)
stream_id(i) == IF i = 1 THEN 1 ELSE i + 1
Ids == [i \in Index |-> stream_id(i)]

(* run_test_once, after the connection is made. *)
Script ==
  << <<"write", "cookie">>, <<"expect", "PARAM_EXCHANGE">>,
     <<"write", "parameters">>, <<"expect", "CREATE_STREAMS">>,
     <<"streams", "">>, <<"expect", "TEST_START">>, <<"expect", "TEST_RUNNING">>,
     <<"data", "">>, <<"write", "TEST_END">>,
     <<"expect", "EXCHANGE_RESULTS">>, <<"write", "results">>, <<"read", "results">>,
     <<"expect", "DISPLAY_RESULTS">>, <<"write", "IPERF_DONE">> >>

Doing(what) == pc = "talk" /\ Script[line][1] = what
Exchanging == pc = "talk" /\ line \in 10..13

Retryable == {"Io", "Timeout", "ServerBusy"}

Message(kind) == [kind |-> kind]
NoAnswer == Message("none")

ThroughputInit ==
  /\ spec \in Specs /\ cancelled = FALSE
  /\ attempt = 1 /\ pc = "validate" /\ line = 1 /\ left = 0
  /\ stream = [a \in Attempts |-> [i \in Index |-> "none"]]
  /\ answer = NoAnswer /\ outcome = "none"
  /\ toServer = [a \in Attempts |-> <<>>] /\ toClient = [a \in Attempts |-> <<>>]
  /\ session \in [of : {Nobody, Other}, at : {"idle"}]
  /\ faults = IF session.of = Other THEN 1 ELSE 0
  /\ backlog = {} /\ served = {}

Mine == stream[attempt]
Become(i, what) == stream' = [stream EXCEPT ![attempt][i] = what]

SayAll(kinds) ==
  toServer' = [toServer EXCEPT ![attempt] = @ \o [n \in 1..Len(kinds) |-> Message(kinds[n])]]
Say(kind) == SayAll(<<kind>>)
Heard == toClient[attempt]
Listen == toClient' = [toClient EXCEPT ![attempt] = Tail(@)]
Fault == faults < MaxFaults /\ faults' = faults + 1

----------------------------------------------------------------------------
(* The ends of an attempt and of the test.  What the attempt owned is dropped *)
(* with it; a running task is aborted, and dropped when the runtime gets to it. *)

Drop ==
  stream' = [stream EXCEPT ![attempt] =
               [i \in Index |-> CASE Mine[i] = "running" -> "aborting"
                                 [] Mine[i] \in {"open", "held"} -> "closed"
                                 [] OTHER -> Mine[i]]]

End(with) == pc' = "ended" /\ outcome' = with

(* The match of run_test_with_retry. *)
decide(error) ==
  IF error = "Cancelled" \/ cancelled THEN End("Cancelled")
  ELSE IF error \in Retryable /\ attempt <= MaxRetries
  THEN pc' = "backoff" /\ UNCHANGED outcome
  ELSE End(IF attempt = 1 THEN error ELSE "RetriesExhausted")

Fail(error) ==
  /\ decide(error)
  /\ Drop /\ backlog' = {}
  /\ IF pc \in {"talk", "build"} THEN Say("EOF") ELSE UNCHANGED toServer
  /\ UNCHANGED <<spec, attempt, line, left, answer>>

(* With data tasks behind it, the server is told first, if it can be. *)
FailData(error) ==
  /\ decide(error)
  /\ Drop /\ backlog' = {}
  /\ SayAll(<<"CLIENT_TERMINATE", "EOF">>) \/ Say("EOF")
  /\ UNCHANGED <<spec, attempt, line, left, answer>>

----------------------------------------------------------------------------
(* The attempt. *)

clientRest == <<spec, attempt, stream, answer, outcome, toServer, backlog>>
GoOn == line' = line + 1 /\ UNCHANGED <<spec, attempt, pc, left, outcome>>

validate_spec ==
  /\ pc = "validate"
  /\ IF spec.protocol = "both" THEN Fail("Validation")
     ELSE pc' = "resolve" /\ UNCHANGED <<line, left, clientRest>>
  /\ UNCHANGED <<cancelled, toClient, serverVars, faults>>

(* The addresses of the wanted family, none of which is an error of the request. *)
resolve ==
  /\ pc = "resolve"
  /\ \/ /\ \E n \in 1..Addresses : left' = n
        /\ pc' = "connect"
        /\ UNCHANGED <<line, clientRest, faults>>
     \/ Fault /\ \E error \in {"Io", "Timeout", "Validation"} : Fail(error)
  /\ UNCHANGED <<cancelled, toClient, serverVars>>

(* One address after the other; the last error counts. *)
connect_tcp ==
  /\ pc = "connect"
  /\ \/ /\ pc' = "talk" /\ line' = 1
        /\ Say("connect")
        /\ UNCHANGED <<spec, attempt, left, stream, answer, outcome, backlog, faults>>
     \/ /\ Fault /\ left > 1
        /\ left' = left - 1
        /\ UNCHANGED <<pc, line, clientRest>>
     \/ Fault /\ left = 1 /\ \E error \in {"Io", "Timeout"} : Fail(error)
  /\ UNCHANGED <<cancelled, toClient, serverVars>>

(* A connection the peer has closed may still take what is written. *)
write_all ==
  /\ Doing("write")
  /\ \/ /\ Say(Script[line][2])
        /\ IF line < Len(Script) THEN GoOn
           ELSE pc' = "build" /\ UNCHANGED <<spec, attempt, line, left, outcome>>
        /\ UNCHANGED <<stream, answer, backlog>>
     \/ (\E n \in 1..Len(Heard) : Heard[n].kind = "EOF") /\ Fail("Io")
  /\ UNCHANGED <<cancelled, toClient, serverVars, faults>>

ErrorOf(kind) ==
  CASE kind = "ACCESS_DENIED" -> "ServerBusy"
    [] kind \in {"SERVER_TERMINATE", "SERVER_ERROR"} -> "Server"
    [] kind = "EOF" -> "Io"
    [] OTHER -> "UnexpectedState"

expect_state ==
  /\ Doing("expect") /\ Heard # <<>>
  /\ IF Head(Heard).kind = Script[line][2]
     THEN GoOn /\ UNCHANGED <<stream, answer, toServer, backlog>>
     ELSE Fail(ErrorOf(Head(Heard).kind))
  /\ Listen
  /\ UNCHANGED <<cancelled, serverVars, faults>>

(* A state byte where a length is due makes a message that is too large; of the *)
(* states only two are told apart.                                              *)
read_json ==
  /\ Doing("read") /\ Heard # <<>>
  /\ LET message == Head(Heard) IN
       IF message.kind = "results"
       THEN answer' = message /\ GoOn /\ UNCHANGED <<stream, toServer, backlog>>
       ELSE Fail(IF message.kind \in {"ACCESS_DENIED", "SERVER_ERROR", "EOF"}
                 THEN ErrorOf(message.kind) ELSE "ControlMessageTooLarge")
  /\ Listen
  /\ UNCHANGED <<cancelled, serverVars, faults>>

(* Mutant: the peer's list of streams is taken as it comes. *)
acceptable_Unchecked(results) == results.sane

(* build_result: as many streams as were made, each of them once, and counters *)
(* that make sense.                                                            *)
acceptable(results) ==
  /\ Len(results.ids) = Total
  /\ {results.ids[n] : n \in 1..Len(results.ids)} = {Ids[i] : i \in Index}
  /\ results.sane

build_result ==
  /\ pc = "build"
  /\ IF acceptable(answer)
     THEN /\ End("ok")
          /\ Drop /\ Say("EOF")
          /\ UNCHANGED <<spec, attempt, line, left, answer, backlog>>
     ELSE Fail("MalformedResult")
  /\ UNCHANGED <<cancelled, toClient, serverVars, faults>>

----------------------------------------------------------------------------
(* The data streams. *)

(* One more stream: a connection with the cookie, or a UDP handshake, which the *)
(* first datagrams of a sending peer may overtake, two of them at most.         *)
create_stream ==
  /\ Doing("streams")
  /\ \E i \in Index :
       /\ Mine[i] = "none" /\ \A j \in Index : Mine[j] = "none" => i <= j
       /\ \E early \in (IF spec.protocol = "udp" /\ Receiver(i) THEN 0..3 ELSE {0}) :
            IF early <= 2
            THEN /\ Become(i, "open")
                 /\ IF i = Total THEN line' = line + 1 ELSE UNCHANGED line
                 /\ UNCHANGED <<spec, attempt, pc, left, answer, outcome, toServer, backlog, faults>>
            ELSE Fault /\ Fail("UnexpectedState")
  /\ UNCHANGED <<cancelled, toClient, serverVars>>

StreamFails ==
  /\ Doing("streams")
  /\ Fault /\ \E error \in {"Io", "Timeout"} : Fail(error)
  /\ UNCHANGED <<cancelled, toClient, serverVars>>

(* run_data: a task for each stream, all of them waited for or the first that fails. *)
spawn ==
  /\ Doing("data") /\ \A i \in Index : Mine[i] = "open"
  /\ stream' = [stream EXCEPT ![attempt] = [i \in Index |-> "running"]]
  /\ UNCHANGED <<spec, attempt, pc, line, left, answer, outcome, cancelled, toServer, toClient,
                 serverVars, backlog, faults>>

(* A task runs to the end of the test; the token comes before it. *)
task_ends(i) ==
  /\ Doing("data") /\ Mine[i] = "running" /\ ~cancelled
  /\ Become(i, "held")
  /\ UNCHANGED <<spec, attempt, pc, line, left, answer, outcome, cancelled, toServer, toClient,
                 serverVars, backlog, faults>>

task_fails(i) ==
  /\ Doing("data") /\ Mine[i] = "running"
  /\ \/ cancelled /\ FailData("Cancelled") /\ UNCHANGED faults
     \/ ~cancelled /\ Fault /\ \E error \in {"Io", "MalformedResult"} : FailData(error)
  /\ UNCHANGED <<cancelled, toClient, serverVars>>

join_all ==
  /\ Doing("data") /\ \A i \in Index : Mine[i] = "held"
  /\ GoOn
  /\ UNCHANGED <<stream, answer, cancelled, toServer, toClient, serverVars, backlog, faults>>

(* Mutant: the streams are held without being read. *)
drain_No(i) == FALSE

(* A receiving task reads, and after it drain_tcp_receivers while results are exchanged. *)
drain(i) ==
  /\ i \in backlog
  /\ Doing("data") \/ Exchanging
  /\ backlog' = backlog \ {i}
  /\ UNCHANGED <<clientVars, cancelled, toServer, toClient, serverVars, faults>>

(* The runtime drops a task that was aborted. *)
task_dropped(a, i) ==
  /\ stream[a][i] = "aborting"
  /\ stream' = [stream EXCEPT ![a][i] = "closed"]
  /\ UNCHANGED <<spec, attempt, pc, line, left, answer, outcome, cancelled, toServer, toClient,
                 serverVars, backlog, faults>>

----------------------------------------------------------------------------
(* The token, and the waits. *)

Cancel ==
  /\ ~cancelled /\ pc # "ended"
  /\ cancelled' = TRUE
  /\ UNCHANGED <<clientVars, toServer, toClient, serverVars, backlog, faults>>

(* phase and connect_tcp look at the token and at what they wait for alike. *)
Cancelled ==
  /\ cancelled
  /\ \/ pc \in {"resolve", "connect"} \/ Doing("write") \/ Doing("expect") \/ Doing("read")
     \/ Doing("streams")
  /\ Fail("Cancelled")
  /\ UNCHANGED <<cancelled, toClient, serverVars, faults>>

retry_backoff ==
  /\ pc = "backoff"
  /\ \/ cancelled /\ End("Cancelled") /\ UNCHANGED attempt
     \/ pc' = "validate" /\ attempt' = attempt + 1 /\ UNCHANGED outcome
  /\ UNCHANGED <<spec, line, left, stream, answer, cancelled, toServer, toClient, serverVars,
                 backlog, faults>>

----------------------------------------------------------------------------
(* The server, an external program. *)

Asked(a) == toServer[a] # <<>>
Serving(a) == session.of = a /\ session.at # "silent"
Hangs_up(a) == Asked(a) /\ Head(toServer[a]).kind \in {"EOF", "CLIENT_TERMINATE"}

Answer(a, messages) == toClient' = [toClient EXCEPT ![a] = @ \o messages]
States(kinds) == [n \in 1..Len(kinds) |-> Message(kinds[n])]
Goto(a, stage) == session' = [of |-> a, at |-> stage]
Free == session' = [of |-> Nobody, at |-> "idle"]
Heed(a) == toServer' = [toServer EXCEPT ![a] = Tail(@)]

(* What the server waits for at each stage, what it answers, and where it goes. *)
Stages ==
  [ cookie     |-> [hears |-> "cookie", says |-> <<"PARAM_EXCHANGE">>, goes |-> "parameters"],
    parameters |-> [hears |-> "parameters", says |-> <<"CREATE_STREAMS">>, goes |-> "streams"],
    running    |-> [hears |-> "TEST_END", says |-> <<"EXCHANGE_RESULTS">>, goes |-> "results"],
    results    |-> [hears |-> "results", says |-> <<>>, goes |-> "display"],
    display    |-> [hears |-> "IPERF_DONE", says |-> <<>>, goes |-> "idle"] ]

Results(ids, sane) == [kind |-> "results", ids |-> ids, sane |-> sane]

(* One connection is served at a time. *)
CanAccept(a) == Asked(a) /\ Head(toServer[a]).kind = "connect" /\ session.at # "silent"
Accept(a) ==
  /\ CanAccept(a)
  /\ Heed(a)
  /\ IF session.of = Nobody THEN Goto(a, "cookie") /\ UNCHANGED toClient
     ELSE Answer(a, States(<<"ACCESS_DENIED", "EOF">>)) /\ UNCHANGED session
  /\ UNCHANGED <<served, backlog>>

(* A server that still writes to full streams does not look at its control connection. *)
CanReply(a) ==
  /\ Serving(a) /\ session.at \in DOMAIN Stages /\ Asked(a)
  /\ Head(toServer[a]).kind = Stages[session.at].hears
  /\ session.at = "running" => backlog = {}
Reply(a) ==
  /\ CanReply(a)
  /\ Heed(a)
  /\ IF session.at = "display" THEN Free ELSE Goto(a, Stages[session.at].goes)
  /\ IF session.at = "results"
     THEN /\ Answer(a, <<Results(Ids, TRUE), Message("DISPLAY_RESULTS")>>)
          /\ served' = served \cup {a}
     ELSE Answer(a, States(Stages[session.at].says)) /\ UNCHANGED served
  /\ UNCHANGED backlog

(* All streams are there. *)
CanStart(a) == Serving(a) /\ session.at = "streams" /\ \A i \in Index : stream[a][i] = "open"
Start(a) ==
  /\ CanStart(a)
  /\ Answer(a, States(<<"TEST_START", "TEST_RUNNING">>)) /\ Goto(a, "running")
  /\ UNCHANGED <<toServer, served, backlog>>

(* The control connection ends, served or denied. *)
HangUp(a) ==
  /\ Hangs_up(a) /\ session.at # "silent"
  /\ Heed(a)
  /\ IF session.of = a THEN Free ELSE UNCHANGED session
  /\ UNCHANGED <<toClient, served, backlog>>

(* What a denied or failed connection was still sent is lost. *)
Ignore(a) ==
  /\ Asked(a) /\ session.of # a /\ Head(toServer[a]).kind # "connect" /\ ~Hangs_up(a)
  /\ Heed(a)
  /\ UNCHANGED <<toClient, session, served, backlog>>

(* The server's buffer for a stream it sends on is full; it sends until it sees *)
(* the end of the test.                                                         *)
FillBacklog(i) ==
  /\ spec.protocol = "tcp" /\ Receiver(i) /\ i \notin backlog /\ ~Asked(attempt)
  /\ session.of = attempt /\ session.at = "running" /\ Mine[i] \in {"open", "running", "held"}
  /\ backlog' = backlog \cup {i}
  /\ UNCHANGED <<clientVars, cancelled, toServer, toClient, session, served, faults>>

Server ==
  /\ \E a \in Attempts : Accept(a) \/ Reply(a) \/ Start(a) \/ HangUp(a) \/ Ignore(a)
  /\ UNCHANGED <<clientVars, cancelled, faults>>

(* It fails: a report, a state out of place, results that are wrong, silence. *)
ServerFails(a) ==
  /\ Serving(a) /\ Fault
  /\ \/ \E kinds \in {<<"SERVER_TERMINATE", "EOF">>, <<"SERVER_ERROR", "EOF">>, <<"EOF">>,
                        <<"DISPLAY_RESULTS", "EOF">>} :
          Answer(a, States(kinds)) /\ Free /\ UNCHANGED toServer
     \/ /\ CanReply(a) /\ session.at = "results"
        /\ Heed(a)
        /\ \E results \in {Results(<<>>, TRUE), Results([Ids EXCEPT ![Total] = 2], TRUE),
                           Results(Ids, FALSE)} :
             Answer(a, <<results, Message("DISPLAY_RESULTS")>>)
        /\ Goto(a, "display")
     \/ UNCHANGED <<toClient, toServer>> /\ Goto(a, "silent")
  /\ UNCHANGED <<clientVars, cancelled, served, backlog>>

OtherEnds ==
  /\ session.of = Other /\ Free
  /\ UNCHANGED <<clientVars, cancelled, toServer, toClient, served, backlog, faults>>

(* Mutant: a wait has no end. *)
Timeout_Never == FALSE

(* A minute is longer than any answer that comes. *)
Timeout ==
  /\ Doing("expect") \/ Doing("read")
  /\ Heard = <<>>
  /\ ~(CanAccept(attempt) \/ CanReply(attempt) \/ CanStart(attempt))
  /\ ~\E i \in backlog : Exchanging
  /\ Fail("Timeout")
  /\ UNCHANGED <<cancelled, toClient, serverVars, faults>>

----------------------------------------------------------------------------
Client ==
  \/ validate_spec \/ resolve \/ connect_tcp \/ write_all \/ expect_state \/ read_json
  \/ create_stream \/ StreamFails \/ spawn \/ join_all \/ build_result
  \/ Cancelled \/ retry_backoff \/ Timeout
  \/ \E i \in Index : task_ends(i) \/ task_fails(i)

Runtime == \E i \in Index : drain(i) \/ \E a \in Attempts : task_dropped(a, i)

ThroughputNext ==
  \/ Client \/ Runtime \/ Cancel \/ Server \/ OtherEnds
  \/ \E a \in Attempts : ServerFails(a)
  \/ \E i \in Index : FillBacklog(i)

(* A ready task is polled and a timer fires; a server that is not silent answers. *)
ThroughputSpec ==
  /\ ThroughputInit /\ [][ThroughputNext]_vars
  /\ WF_vars(Client) /\ WF_vars(Runtime) /\ WF_vars(Server)

----------------------------------------------------------------------------
(* A test succeeds only if the server gave its results for that very attempt, *)
(* and what it gave accounts for every stream (protocol.rs:218-250,           *)
(* metrics.rs:15-26).                                                         *)
SuccessIsAgreed ==
  outcome = "ok" => attempt \in served /\ answer.ids = Ids /\ \A i \in Index : Mine[i] = "closed"

(* A cancelled test that does not succeed ends as cancelled, in whatever      *)
(* attempt and at whatever wait, and is not reported as exhausted             *)
(* (protocol.rs:113-114, 397-400).                                            *)
CancelledIsReported ==
  pc = "ended" /\ cancelled => outcome \in {"ok", "Cancelled"}

(* Every test ends, whatever the server does or does not do, and leaves no    *)
(* stream open, no task and no session (protocol.rs:709-727, 201-208, 577).   *)
EndsAndReleases ==
  <>[]( /\ pc = "ended"
        /\ \A a \in Attempts, i \in Index : stream[a][i] \in {"none", "closed"}
        /\ session.of \in {Nobody, Other} \/ session.at = "silent" )

(* With a server and a network that do not fail a test succeeds: the two      *)
(* sides never wait for each other, though the server's last data fills the   *)
(* streams while the client asks for results (protocol.rs:216-234, 730-768).  *)
HealthySucceeds ==
  [](faults = 0 /\ ~cancelled /\ spec.protocol # "both") => <>(outcome = "ok")

(* What a test returns: success only with the server's word, cancellation as  *)
(* such (protocol.rs:113-114, 218-250, 397-400).                              *)
OutcomeIsTrue == SuccessIsAgreed /\ CancelledIsReported
============================================================================
