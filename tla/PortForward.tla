---------------------------- MODULE PortForward -----------------------------
(***************************************************************************)
(* One forwarded TCP connection: connect_and_login and run_forward of the  *)
(* client (src/port_forward.rs), Connection's loop and then                *)
(* try_port_forward_loop of the controlled side (src/server/connection.rs).*)
(*                                                                         *)
(* Both start with framed, encrypted messages.  At a moment of its own,    *)
(* each side calls set_raw: from then on what it reads is handed on to its *)
(* socket, whatever it was meant to be.  Left out: connections that close  *)
(* (a login refused before the socket is open is one), timeouts, and how a *)
(* second factor is asked for (a login not accepted).                      *)
(***************************************************************************)
EXTENDS Naturals, Sequences, SequencesExt

CONSTANTS MaxLogins,    \* bound: logins the client sends
          MaxData,      \* bound: pieces of data written by either application
          MaxPfQueue    \* bound: messages on their way when the manager sends another

ASSUME PfAssumption ==
  MaxLogins \in Nat \ {0} /\ MaxData \in Nat /\ MaxPfQueue \in Nat \ {0}

VARIABLES
  pf_server,    \* Connection: framed or raw, and the fields the switch depends on
  pf_client,    \* framed or raw, with the data to send after the switch
  up, down,     \* what is on its way to the server and to the client
  target,       \* what the server has handed to the forwarded socket
  app,          \* what the client has handed to the local socket
  written,      \* data written: by the local application, by the forwarded socket
  logins,       \* logins sent
  cm,           \* the connection manager: its window, and whether it was used late
  refused       \* history: a login was refused and the socket was open

pfVars == <<pf_server, pf_client, up, down, target, app, written, logins, cm, refused>>

Msg(kind) == [kind |-> kind, n |-> 0]
PfData(n) == [kind |-> "data", n |-> n]

Kinds == {"hash", "error", "test_delay", "peer_info", "misc", "login", "reply"}
PfMessages == {Msg(k) : k \in Kinds} \cup {PfData(n) : n \in 1..MaxData}

PfInit ==
  /\ pf_server = [raw |-> FALSE, socket |-> FALSE, authorized |-> FALSE,
                  last_test_delay |-> FALSE]
  /\ pf_client = [raw |-> FALSE, hash |-> FALSE, buffer |-> <<>>]
  /\ up = <<>>
  /\ down = <<Msg("hash")>>
  /\ target = <<>>
  /\ app = <<>>
  /\ written = [app |-> 0, target |-> 0]
  /\ logins = 0
  /\ cm = [window |-> "none", accepted |-> FALSE, late |-> FALSE]
  /\ refused = FALSE

PfTypeOK ==
  /\ pf_server \in [raw : BOOLEAN, socket : BOOLEAN, authorized : BOOLEAN,
                    last_test_delay : BOOLEAN]
  /\ pf_client.raw \in BOOLEAN /\ pf_client.hash \in BOOLEAN
  /\ pf_client.buffer \in Seq(PfMessages)
  /\ pf_client.raw => pf_client.buffer = <<>>
  /\ \A s \in {up, down, target, app} : s \in Seq(PfMessages)
  /\ written \in [app : 0..MaxData, target : 0..MaxData]
  /\ logins \in 0..MaxLogins
  /\ cm \in [window : {"none", "asks", "shows"}, accepted : BOOLEAN, late : BOOLEAN]
  /\ refused \in BOOLEAN
-----------------------------------------------------------------------------
(* The controlled side.                                                    *)

\* test_delay_timer: one test at a time.  "The control end will jump out of the loop
\* after receiving LoginResponse and will not reply to the TestDelay".
TestDelayTick ==
  /\ ~pf_server.raw
  /\ ~pf_server.last_test_delay
  /\ ~(pf_server.socket /\ pf_server.authorized)
  /\ pf_server' = [pf_server EXCEPT !.last_test_delay = TRUE]
  /\ down' = Append(down, Msg("test_delay"))
  /\ UNCHANGED <<pf_client, up, target, app, written, logins, cm, refused>>

\* Mutated form of AfterMessage: the reply is not waited for.
AfterMessageAtOnce(s) == [s EXCEPT !.raw = s.socket /\ s.authorized]

\* After every message: "Avoid TestDelay reply injection into rdp data stream".
AfterMessage(s) ==
  [s EXCEPT !.raw = s.socket /\ s.authorized /\ ~s.last_test_delay]

\* A login opens the socket.  It is accepted at once, or not: the manager's window asks,
\* unless the login fails before.  It is refused when it names another id, and a second
\* one when the permission is gone or the socket cannot be opened again: on_message
\* returns false, the loop is left without on_close, and try_port_forward_loop finds
\* the socket.
GetsLogin ==
  LET opened == [pf_server EXCEPT !.socket = TRUE]
  IN  \/ /\ ~pf_server.authorized
         /\ pf_server' = AfterMessage([opened EXCEPT !.authorized = TRUE])
         /\ down' = Append(down, Msg("peer_info"))
         /\ cm' = IF cm.window = "none" THEN [cm EXCEPT !.window = "shows"] ELSE cm
         /\ UNCHANGED refused
      \/ /\ ~pf_server.authorized
         /\ pf_server' = AfterMessage(opened)
         /\ down' \in {down, Append(down, Msg("error"))}
         /\ cm' \in {cm, [cm EXCEPT !.window = "asks"]}
         /\ UNCHANGED refused
      \/ /\ ~pf_server.authorized
         /\ pf_server' = [opened EXCEPT !.raw = TRUE]
         /\ down' = Append(down, Msg("error"))
         /\ refused' = TRUE
         /\ UNCHANGED cm
      \/ /\ pf_server.authorized
         /\ pf_server' = AfterMessage(pf_server)
         /\ UNCHANGED <<down, cm, refused>>

ServerGets ==
  /\ ~pf_server.raw
  /\ up # <<>>
  /\ up' = Tail(up)
  /\ \/ Head(up).kind = "login" /\ GetsLogin
     \/ /\ Head(up).kind = "reply"
        /\ pf_server' = AfterMessage([pf_server EXCEPT !.last_test_delay = FALSE])
        /\ UNCHANGED <<down, cm, refused>>
  /\ UNCHANGED <<pf_client, target, app, written, logins>>

\* ipc::Data::Authorize: the user clicks on accept, and the loop is left at once.
AuthorizeForward ==
  /\ ~pf_server.raw
  /\ cm.window = "asks"
  /\ down' = IF pf_server.authorized THEN down ELSE Append(down, Msg("peer_info"))
  /\ pf_server' = [pf_server EXCEPT !.authorized = TRUE, !.raw = TRUE]
  /\ cm' = [cm EXCEPT !.window = "shows", !.accepted = TRUE]
  /\ UNCHANGED <<pf_client, up, target, app, written, logins, refused>>

\* ChatMessage or SwitchPermission: a message to the client, too late for one that has
\* been sent its PeerInfo.
CmSpeaks ==
  /\ ~pf_server.raw
  /\ cm.window # "none"
  /\ ~cm.late
  /\ Len(down) < MaxPfQueue
  /\ down' = Append(down, Msg("misc"))
  /\ cm' = [cm EXCEPT !.late = pf_server.authorized]
  /\ UNCHANGED <<pf_server, pf_client, up, target, app, written, logins, refused>>

\* try_port_forward_loop: from the stream to the socket and back.
ServerForwards ==
  /\ pf_server.raw
  /\ \/ /\ up # <<>>
        /\ target' = Append(target, Head(up))
        /\ up' = Tail(up)
        /\ UNCHANGED <<down, written>>
     \/ /\ written.target < MaxData
        /\ written' = [written EXCEPT !.target = @ + 1]
        /\ down' = Append(down, PfData(written.target + 1))
        /\ UNCHANGED <<up, target>>
  /\ UNCHANGED <<pf_server, pf_client, app, logins, cm, refused>>
-----------------------------------------------------------------------------
(* The client.                                                             *)

\* A message; data, which it cannot read as one, would end the connection.
ClientGets ==
  /\ ~pf_client.raw
  /\ down # <<>> /\ Head(down).kind # "data"
  /\ down' = Tail(down)
  /\ LET kind == Head(down).kind
     IN  /\ pf_client' = CASE kind = "hash" -> [pf_client EXCEPT !.hash = TRUE]
                           [] kind = "peer_info" -> [pf_client EXCEPT !.raw = TRUE,
                                                                      !.buffer = <<>>]
                           [] kind \notin {"hash", "peer_info"} -> pf_client
         /\ up' = up \o CASE kind = "hash" -> <<Msg("login")>>
                          [] kind = "test_delay" -> <<Msg("reply")>>
                          [] kind = "peer_info" -> pf_client.buffer
                          [] kind \notin {"hash", "test_delay", "peer_info"} -> <<>>
         /\ logins' = IF kind = "hash" THEN logins + 1 ELSE logins
  /\ UNCHANGED <<pf_server, target, app, written, cm, refused>>

\* Data::Login: the password, or another one, typed by the user.
LoginFromUi ==
  /\ ~pf_client.raw
  /\ pf_client.hash
  /\ logins < MaxLogins
  /\ logins' = logins + 1
  /\ up' = Append(up, Msg("login"))
  /\ UNCHANGED <<pf_server, pf_client, down, target, app, written, cm, refused>>

\* forward.next(): kept while the login is under way.
AppWrites ==
  /\ written.app < MaxData
  /\ written' = [written EXCEPT !.app = @ + 1]
  /\ LET data == PfData(written.app + 1)
     IN  IF pf_client.raw
         THEN up' = Append(up, data) /\ UNCHANGED pf_client
         ELSE /\ pf_client' = [pf_client EXCEPT !.buffer = Append(@, data)]
              /\ UNCHANGED up
  /\ UNCHANGED <<pf_server, down, target, app, logins, cm, refused>>

ClientForwards ==
  /\ pf_client.raw
  /\ down # <<>>
  /\ app' = Append(app, Head(down))
  /\ down' = Tail(down)
  /\ UNCHANGED <<pf_server, pf_client, up, target, written, logins, cm, refused>>

PfNext ==
  \/ TestDelayTick \/ ServerGets \/ AuthorizeForward \/ CmSpeaks \/ ServerForwards
  \/ ClientGets \/ LoginFromUi \/ AppWrites \/ ClientForwards

PfSpec == PfInit /\ [][PfNext]_pfVars
-----------------------------------------------------------------------------
(* Properties.                                                             *)

FirstData(n) == [i \in 1..n |-> PfData(i)]

\* The two sockets get the data written at the other end, in order from the first
\* byte, and no message, wherever the two calls of set_raw fall among the messages on
\* their way; data never reach an end that still reads messages.  This is so towards
\* the forwarded socket when the one login the client sent was accepted at once, and
\* towards the application unless the manager sent something while the server waited
\* for a reply.  After a refused login that found the socket open, the server reads raw
\* bytes from a client that still sends messages; the application gets nothing then.
ForwardsCleanly ==
  /\ ~pf_server.raw /\ up # <<>> => Head(up).kind # "data"
  /\ ~refused =>
       /\ ~pf_client.raw /\ down # <<>> => Head(down).kind # "data"
       /\ ~cm.accepted /\ logins <= 1 => IsPrefix(target, FirstData(written.app))
  /\ ~cm.late => IsPrefix(app, FirstData(written.target))
  /\ refused => app = <<>>

\* "Avoid TestDelay reply injection into rdp data stream" (the loop of Connection::start),
\* when no login is refused.
RepliesStayFramed == ~refused => \A i \in 1..Len(target) : target[i].kind # "reply"
=============================================================================
