----------------------------- MODULE Rendezvous -----------------------------
(***************************************************************************)
(* How a device keeps itself registered at its rendezvous servers:         *)
(* RendezvousMediator::start_all, which starts one mediator (start_udp or  *)
(* start_tcp) per server and starts over when one of them ends or restart  *)
(* is called, and the mediators' exchange with the servers, of             *)
(* src/rendezvous_mediator.rs.  The server itself is external: it answers  *)
(* a key with OK or, for an id somebody else has, with UUID_MISMATCH, and  *)
(* asks for the key of an id it does not know.                             *)
(*                                                                         *)
(* A timer may find its time has come whenever it ticks.  Datagrams get    *)
(* lost and overtake each other; a stream keeps their order.               *)
(* Left out: latencies (RendezvousLatency has them), requests of peers     *)
(* (punch hole, relay, local address), which address a server has (rebind) *)
(* and how long start_all sleeps.                                          *)
(***************************************************************************)
EXTENDS Naturals, Sequences, FiniteSets

CONSTANTS Hosts,        \* rendezvous servers
          NoHost,       \* the empty string of SOLVING_PK_MISMATCH
          ServerLists,  \* what the options can make get_rendezvous_servers return
          Transports,   \* "udp", "tcp": what start chooses
          RzIds,        \* ids the device may have
          FirstId,      \* the one it begins with
          Taken,        \* ids other devices have registered at each server
          MaxTroubles,  \* changes of the options, errors, losses, and repeated registrations
          MaxNet        \* messages under way from or to one mediator

ASSUME ServerListsAssumption == ServerLists \subseteq (SUBSET Hosts) \ {{}}
ASSUME RzIdsAssumption == FirstId \in RzIds /\ Taken \in [Hosts -> SUBSET RzIds]
ASSUME NoHostAssumption == NoHost \notin Hosts
ASSUME MaxNetAssumption == MaxNet \in Nat \ {0}

VARIABLES
  transport,         \* of all mediators
  servers,           \* what get_rendezvous_servers returns
  stop_service,      \* the option "stop-service"
  should_exit,       \* SHOULD_EXIT
  manual_restarted,  \* MANUAL_RESTARTED
  solving,           \* SOLVING_PK_MISMATCH, with its lock
  key_confirmed,     \* Config: some server has confirmed the key
  keys_confirmed,    \* Config: servers that have
  my_id,             \* Config::get_id
  main,              \* start_all: where it is, and the servers it has read
  mediators,         \* the mediators of the servers
  up, down,          \* messages under way to and from the servers
  registered,        \* external: ids of this device each server knows the key of
  changing,          \* the thread that changes an option and calls restart
  troubles,          \* troubles so far
  overwritten        \* history: start_all reset the request for the current servers

rzVars == <<transport, servers, stop_service, should_exit, manual_restarted, solving,
            key_confirmed, keys_confirmed, my_id, main, mediators, up, down,
            registered, changing, troubles, overwritten>>

Gone == "gone"
NotSolving == [host |-> NoHost, locked |-> FALSE]

\* Types; a mediator runs only for a server start_all has read, while it waits for it.
RzTypeOK ==
  /\ servers \in ServerLists /\ main.servers \in SUBSET Hosts
  /\ {stop_service, should_exit, manual_restarted, key_confirmed, overwritten} \subseteq BOOLEAN
  /\ solving.host \in Hosts \cup {NoHost} /\ my_id \in RzIds
  /\ keys_confirmed \subseteq Hosts
  /\ \A h \in Hosts : mediators[h] # Gone => main.pc = "join" /\ h \in main.servers
  /\ \A h \in Hosts : Len(up[h]) + Len(down[h]) <= MaxNet

RzInit ==
  /\ transport \in Transports
  /\ servers \in {s \in ServerLists : transport = "udp" \/ Cardinality(s) = 1}
  /\ stop_service \in BOOLEAN
  /\ should_exit = FALSE /\ manual_restarted = FALSE
  /\ solving = NotSolving
  /\ key_confirmed \in BOOLEAN
  /\ keys_confirmed = IF key_confirmed THEN servers ELSE {}
  /\ my_id = FirstId
  /\ main = [pc |-> "top", servers |-> {}]
  /\ mediators = [h \in Hosts |-> Gone]
  /\ up = [h \in Hosts |-> <<>>] /\ down = [h \in Hosts |-> <<>>]
  /\ registered = [h \in Hosts |-> IF h \in keys_confirmed THEN {FirstId} \ Taken[h] ELSE {}]
  /\ changing = "idle"
  /\ troubles = 0
  /\ overwritten = FALSE

Trouble == troubles < MaxTroubles /\ troubles' = troubles + 1

config == <<transport, servers, stop_service>>
flags == <<should_exit, manual_restarted>>
keys == <<key_confirmed, keys_confirmed, my_id>>
-----------------------------------------------------------------------------
(* start_all.                                                              *)

StartLoop ==
  /\ main.pc = "top" /\ ~solving.locked
  /\ solving' = NotSolving
  /\ main' = [main EXCEPT !.pc = IF stop_service THEN "over" ELSE "read"]
  /\ UNCHANGED <<config, flags, keys, mediators, up, down, registered, changing,
                 troubles, overwritten>>

ReadServers ==
  /\ main.pc = "read"
  /\ main' = [pc |-> "clear_exit", servers |-> servers]
  /\ overwritten' = FALSE
  /\ UNCHANGED <<config, flags, solving, keys, mediators, up, down, registered,
                 changing, troubles>>

\* A restart requested since the servers were read is forgotten here.
ClearExit ==
  /\ main.pc = "clear_exit"
  /\ should_exit' = FALSE
  /\ overwritten' = (should_exit /\ (main.servers # servers \/ stop_service))
  /\ main' = [main EXCEPT !.pc = "clear_manual"]
  /\ UNCHANGED <<config, manual_restarted, solving, keys, mediators, up, down,
                 registered, changing, troubles>>

ClearManual ==
  /\ main.pc = "clear_manual"
  /\ manual_restarted' = FALSE
  /\ mediators' = [h \in Hosts |-> IF h \in main.servers THEN "connecting" ELSE Gone]
  /\ main' = [main EXCEPT !.pc = "join"]
  /\ UNCHANGED <<config, should_exit, solving, keys, up, down, registered, changing,
                 troubles, overwritten>>

\* Mutant: start_all goes on with the first mediator that ends.
JoinAny ==
  /\ \/ main.pc = "join" /\ \E h \in main.servers : mediators[h] = Gone
     \/ main.pc = "over"
  /\ main' = [main EXCEPT !.pc = "top"]
  /\ UNCHANGED <<config, flags, solving, keys, mediators, up, down, registered, changing,
                 troubles, overwritten>>

\* join_all, or the service is stopped; then a while asleep.
JoinAll ==
  /\ \/ main.pc = "join" /\ \A h \in Hosts : mediators[h] = Gone
     \/ main.pc = "over"
  /\ main' = [main EXCEPT !.pc = "top"]
  /\ UNCHANGED <<config, flags, solving, keys, mediators, up, down, registered, changing,
                 troubles, overwritten>>
-----------------------------------------------------------------------------
(* Options change, by CheckIfRestart and its like: first the option, then  *)
(* restart's two stores.                                                   *)

ChangeOptions ==
  /\ changing = "idle"
  /\ \/ /\ servers' \in {s \in ServerLists : transport = "udp" \/ Cardinality(s) = 1} \ {servers}
        /\ UNCHANGED stop_service
     \/ stop_service' = ~stop_service /\ UNCHANGED servers
  /\ changing' = "restart"
  /\ Trouble
  /\ UNCHANGED <<transport, flags, solving, keys, main, mediators, up, down,
                 registered, overwritten>>

\* Mutant: restart wakes start_all, but not the mediators.
RestartExitManual ==
  /\ changing = "restart"
  /\ changing' = "restart_manual"
  /\ UNCHANGED <<config, flags, solving, keys, main, mediators, up, down, registered, troubles,
                 overwritten>>

RestartExit ==
  /\ changing = "restart"
  /\ should_exit' = TRUE
  /\ changing' = "restart_manual"
  /\ UNCHANGED <<config, manual_restarted, solving, keys, main, mediators, up, down,
                 registered, troubles, overwritten>>

RestartManual ==
  /\ changing = "restart_manual"
  /\ manual_restarted' = TRUE
  /\ changing' = "idle"
  /\ UNCHANGED <<config, should_exit, solving, keys, main, mediators, up, down,
                 registered, troubles, overwritten>>
-----------------------------------------------------------------------------
(* A mediator.                                                             *)

\* Mutant: the first mediator to end does not tell the others.
LeaveAlone(h) ==
  /\ mediators' = [mediators EXCEPT ![h] = Gone]
  /\ UNCHANGED should_exit

\* The end of a mediator's task; its socket goes with it.
Leave(h) ==
  /\ mediators' = [mediators EXCEPT ![h] = Gone]
  /\ should_exit' = TRUE

Exit(h) ==
  /\ Leave(h)
  /\ up' = [up EXCEPT ![h] = <<>>] /\ down' = [down EXCEPT ![h] = <<>>]
  /\ UNCHANGED <<config, manual_restarted, keys, main, registered, changing,
                 overwritten>>

\* new_udp_for or connect_tcp; on a new stream the key has to be confirmed again.
Connect(h) ==
  /\ mediators[h] = "connecting"
  /\ mediators' = [mediators EXCEPT ![h] = "idle"]
  /\ keys_confirmed' = IF transport = "tcp" THEN keys_confirmed \ {h} ELSE keys_confirmed
  /\ UNCHANGED <<config, flags, solving, key_confirmed, my_id, main, up, down,
                 registered, changing, troubles, overwritten>>

\* No connection, an error of the socket, or nothing received for long enough.
Fail(h) ==
  /\ mediators[h] \in {"connecting", "idle"}
  /\ Trouble
  /\ Exit(h) /\ UNCHANGED solving

\* The timer sees SHOULD_EXIT.
TickExit(h) ==
  /\ mediators[h] = "idle" /\ should_exit
  /\ Exit(h) /\ UNCHANGED <<solving, troubles>>

RegisterPk == [kind |-> "register_pk", id |-> my_id]
RegisterPeer == [kind |-> "register_peer", id |-> my_id]

\* A datagram equal to one still under way is left out: it would arrive just as that one may.
Put(s, m) == IF transport = "udp" /\ m \in {s[i] : i \in 1 .. Len(s)} THEN s ELSE Append(s, m)
Send(h, m) == up' = [up EXCEPT ![h] = Put(@, m)]

\* Mutant: a key some server has confirmed is taken for confirmed by all.
RegistersKeyOnce(h) == ~key_confirmed

\* register_peer and the timer of start_tcp: the key comes first, if it is not confirmed.
RegistersKey(h) == ~key_confirmed \/ h \notin keys_confirmed

\* A registration is repeated while an earlier one, or its answer, is still under way.
InTime(h) ==
  \/ up[h] = <<>> /\ down[h] = <<>> /\ UNCHANGED troubles
  \/ Len(up[h]) + Len(down[h]) \in 1 .. MaxNet - 1 /\ Trouble

\* The timer of start_udp finds the last registration overdue, or its answer expired.  While
\* another server's mismatch is being solved nothing is sent.
TickUdp(h) ==
  /\ transport = "udp" /\ mediators[h] = "idle" /\ ~should_exit
  /\ solving.host \in {NoHost, h} /\ ~solving.locked
  /\ InTime(h)
  /\ Send(h, IF RegistersKey(h) THEN RegisterPk ELSE RegisterPeer)
  /\ UNCHANGED <<config, flags, solving, keys, main, mediators, down, registered, changing,
                 overwritten>>

\* The timer of start_tcp.
TickTcp(h) ==
  /\ transport = "tcp" /\ mediators[h] = "idle" /\ ~should_exit
  /\ RegistersKey(h)
  /\ InTime(h)
  /\ Send(h, RegisterPk)
  /\ UNCHANGED <<config, flags, solving, keys, main, mediators, down, registered, changing,
                 overwritten>>

\* The answer i under way to h: any datagram, the first of a stream.
Arrives(h, i) ==
  /\ mediators[h] = "idle"
  /\ i \in 1 .. Len(down[h]) /\ (transport = "tcp" => i = 1)
Without(s, i) == SubSeq(s, 1, i - 1) \o SubSeq(s, i + 1, Len(s))
Take(h, i) == down' = [down EXCEPT ![h] = Without(@, i)]

\* RegisterPeerResponse.
PeerResponse(h, i) ==
  /\ Arrives(h, i) /\ down[h][i].kind = "peer"
  /\ Take(h, i)
  /\ \/ down[h][i].request_pk /\ Send(h, RegisterPk)
     \/ ~down[h][i].request_pk /\ UNCHANGED up
  /\ UNCHANGED <<config, flags, solving, keys, main, mediators, registered, changing, troubles, overwritten>>

\* RegisterPkResponse OK: three sections, set_key_confirmed first.
PkOk(h, i) ==
  /\ Arrives(h, i) /\ down[h][i].kind = "ok"
  /\ Take(h, i)
  /\ mediators' = [mediators EXCEPT ![h] = "confirm_host"]
  /\ key_confirmed' = TRUE
  /\ UNCHANGED <<config, flags, solving, keys_confirmed, my_id, main, up, registered, changing,
                 troubles, overwritten>>

ConfirmHost(h) ==
  /\ mediators[h] = "confirm_host"
  /\ keys_confirmed' = keys_confirmed \cup {h}
  /\ mediators' = [mediators EXCEPT ![h] = "solved"]
  /\ UNCHANGED <<config, flags, solving, key_confirmed, my_id, main, up, down,
                 registered, changing, troubles, overwritten>>

Solved(h) ==
  /\ mediators[h] = "solved" /\ ~solving.locked
  /\ solving' = NotSolving
  /\ mediators' = [mediators EXCEPT ![h] = "idle"]
  /\ UNCHANGED <<config, flags, keys, main, up, down, registered, changing, troubles,
                 overwritten>>

\* UUID_MISMATCH, solved for one server at a time: set_key_confirmed(false) forgets all
\* confirmations, unless there was none.
Mismatch(h, i) ==
  /\ Arrives(h, i) /\ down[h][i].kind = "mismatch" /\ ~solving.locked
  /\ Take(h, i)
  /\ \/ /\ solving.host \in {NoHost, h}
        /\ solving' = [solving EXCEPT !.locked = TRUE]
        /\ mediators' = [mediators EXCEPT ![h] = "mismatch"]
        /\ key_confirmed' = FALSE
        /\ keys_confirmed' = IF key_confirmed THEN {} ELSE keys_confirmed
     \/ /\ solving.host \notin {NoHost, h}
        /\ UNCHANGED <<mediators, solving, key_confirmed, keys_confirmed>>
  /\ UNCHANGED <<config, flags, my_id, main, up, registered, changing, troubles, overwritten>>

\* update_id draws one of a thousand million ids: another one, that nobody has.  Then the
\* lock is released and the key sent.
UpdateId(h) ==
  /\ mediators[h] = "mismatch"
  /\ my_id' \in RzIds \ ({my_id} \cup UNION {Taken[k] : k \in Hosts})
  /\ solving' = [host |-> h, locked |-> FALSE]
  /\ mediators' = [mediators EXCEPT ![h] = "idle"]
  /\ Send(h, [kind |-> "register_pk", id |-> my_id'])
  /\ UNCHANGED <<config, flags, key_confirmed, keys_confirmed, main, down, registered,
                 changing, troubles, overwritten>>

\* ConfigureUpdate: the server tells the device to use other servers.
ConfigureUpdate(h) ==
  /\ mediators[h] = "idle" /\ transport = "udp"
  /\ Trouble
  /\ servers' \in ServerLists \ {servers}
  /\ should_exit' = TRUE /\ manual_restarted' = TRUE
  /\ UNCHANGED <<transport, stop_service, solving, keys, main, mediators, up, down,
                 registered, changing, overwritten>>
-----------------------------------------------------------------------------
(* The server and the network, external.                                   *)

Answer(h, m) ==
  IF m.kind = "register_peer" THEN [kind |-> "peer", request_pk |-> m.id \notin registered[h]]
  ELSE [kind |-> IF m.id \in Taken[h] THEN "mismatch" ELSE "ok"]

Serve(h, i) ==
  /\ i \in 1 .. Len(up[h]) /\ (transport = "tcp" => i = 1)
  /\ registered' = [registered EXCEPT ![h] =
                      @ \cup (IF up[h][i].kind = "register_pk" THEN {up[h][i].id} \ Taken[h] ELSE {})]
  /\ up' = [up EXCEPT ![h] = Without(@, i)]
  /\ down' = [down EXCEPT ![h] = Put(@, Answer(h, up[h][i]))]
  /\ UNCHANGED <<config, flags, solving, keys, main, mediators, changing, troubles,
                 overwritten>>

Lose(h) ==
  /\ transport = "udp"
  /\ \/ \E i \in 1 .. Len(up[h]) : up' = [up EXCEPT ![h] = Without(@, i)] /\ UNCHANGED down
     \/ \E i \in 1 .. Len(down[h]) : down' = [down EXCEPT ![h] = Without(@, i)] /\ UNCHANGED up
  /\ Trouble
  /\ UNCHANGED <<config, flags, solving, keys, main, mediators, registered, changing,
                 overwritten>>
-----------------------------------------------------------------------------
MainStep == StartLoop \/ ReadServers \/ ClearExit \/ ClearManual \/ JoinAll
Deliver(h) == \E i \in 1 .. MaxNet : PeerResponse(h, i) \/ PkOk(h, i) \/ Mismatch(h, i)
MediatorStep(h) == Connect(h) \/ TickExit(h) \/ TickUdp(h) \/ TickTcp(h)
                   \/ ConfirmHost(h) \/ Solved(h) \/ UpdateId(h)

RzNext ==
  \/ MainStep
  \/ ChangeOptions \/ RestartExit \/ RestartManual
  \/ \E h \in Hosts : \/ MediatorStep(h) \/ Deliver(h)
                      \/ Fail(h) \/ ConfigureUpdate(h) \/ Lose(h)
                      \/ \E i \in 1 .. MaxNet : Serve(h, i)

\* The tasks run, their timers tick, restart returns; servers answer, and answers arrive unless lost.
RzFairness ==
  /\ WF_rzVars(MainStep)
  /\ WF_rzVars(RestartExit \/ RestartManual)
  /\ \A h \in Hosts : /\ WF_rzVars(MediatorStep(h))
                      /\ WF_rzVars(Deliver(h))
                      /\ WF_rzVars(\E i \in 1 .. MaxNet : Serve(h, i))

RzSpec == RzInit /\ [][RzNext]_rzVars
-----------------------------------------------------------------------------
\* The servers that were read last are used, unless start_all's reset of SHOULD_EXIT met the
\* request: a change of the options while mediators run makes all of them exit.
ServersFollowed ==
  RzFairness => []<>(overwritten \/ stop_service \/ (main.pc = "join" /\ main.servers = servers))

\* "once one exits, the others also exit", the comment in start_all: a mediator that ends,
\* for whatever reason, takes the others with it, and start_all starts over.
OneExitsAllExit ==
  RzFairness =>
  ((main.pc = "join" /\ \E h \in main.servers : mediators[h] = Gone) ~> main.pc = "top")

\* In the end every server knows the key of the device's current id, although ids change
\* when one server reports a mismatch while others have confirmed the old id.
Registered ==
  RzFairness => <>[](overwritten \/ stop_service \/ \A h \in servers : my_id \in registered[h])
=============================================================================
