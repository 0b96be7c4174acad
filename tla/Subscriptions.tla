--------------------------- MODULE Subscriptions ---------------------------
(***************************************************************************)
(* Which services a remote-control connection is subscribed to, and why:   *)
(* Server (src/server.rs) holds the services; a connection's task          *)
(* (src/server/connection.rs) subscribes when it has logged in and again   *)
(* whenever the local user switches a permission or the peer changes an    *)
(* option.  Each handler sets a flag and then calls Server::subscribe for  *)
(* the services that depend on it, one call after the other.               *)
(*                                                                         *)
(* Server::subscribe holds the server's lock, but asks is_subed and then   *)
(* acts on the service under the service's own lock, which its thread also *)
(* takes: when the thread moves its new subscribers between the two reads  *)
(* of is_subed, a subscribed connection is found in neither map.           *)
(***************************************************************************)
EXTENDS Service, Naturals, Sequences

CONSTANTS Toggles,     \* the flags that may change in this instance
          NoConn       \* nobody holds the server's lock

Flags == {"keyboard", "clipboard", "audio", "file",                \* local user
          "show_remote_cursor", "follow_remote_window",            \* peer
          "disable_audio", "enable_file_transfer",
          "disable_clipboard", "disable_keyboard"}
Permissions == {"keyboard", "clipboard", "audio", "file"}

Services == {"video", "cursor", "audio",
             "pos", "window_focus", "clipboard", "file_clipboard"}
NeedSnapshot == {"video", "cursor", "audio"}

ASSUME TogglesAssumption == Toggles \subseteq Flags
ASSUME NoConnAssumption == NoConn \notin Conns

VARIABLES
  svc,           \* the services of the server
  connections,   \* Server::connections
  server_lock,   \* the connection in Server::subscribe
  phase,         \* login, authorized, subed (services_subed) or closed
  flag,          \* the connection's flags
  todo,          \* Server::subscribe calls the running handler has yet to make
  stage,         \* where its current call is
  raced          \* history: <<c, s>> that is_subed missed, not corrected since

subsVars == <<svc, connections, server_lock, phase, flag, todo, stage, raced>>

\* One type invariant for the module; the server knows exactly the connections that
\* have set services_subed and not ended.
SubsTypeOK ==
  /\ svc \in [Services -> ServiceInner]
  /\ server_lock \in Conns \cup {NoConn}
  /\ phase \in [Conns -> {"login", "authorized", "subed", "closed"}]
  /\ connections = {c \in Conns : phase[c] = "subed"}
  /\ flag \in [Conns -> [Flags -> BOOLEAN]]
  /\ todo \in [Conns -> Seq(Services \X BOOLEAN)]
  /\ stage \in [Conns -> {"idle", "read_new", "act"}]
  /\ raced \in SUBSET (Conns \X Services)

\* Connection::start: the options grant a connection its permissions (they may
\* refuse those that change in this instance); the peer's options are off.  A connection
\* may also be over already.
SubsInit ==
  /\ svc = [s \in Services |-> New]
  /\ connections = {}
  /\ server_lock = NoConn
  /\ phase \in [Conns -> {"login", "closed"}]
  /\ \E refused \in [Conns -> SUBSET (Permissions \cap Toggles)] :
       flag = [c \in Conns |-> [f \in Flags |-> f \in Permissions \ refused[c]]]
  /\ todo = [c \in Conns |-> <<>>]
  /\ stage = [c \in Conns |-> "idle"]
  /\ raced = {}
-----------------------------------------------------------------------------
(* Who may subscribe to what.                                              *)

peer_keyboard_enabled(f) == f["keyboard"] /\ ~f["disable_keyboard"]
clipboard_enabled(f) == f["clipboard"] /\ ~f["disable_clipboard"]
audio_enabled(f) == f["audio"] /\ ~f["disable_audio"]
file_transfer_enabled(f) == f["file"] /\ f["enable_file_transfer"]
can_sub_clipboard_service(f) == clipboard_enabled(f) /\ peer_keyboard_enabled(f)
can_sub_file_clipboard_service(f) == clipboard_enabled(f) /\ file_transfer_enabled(f)

\* try_sub_monitor_services: the services the connection gets on login.
Granted(f) ==
  {s \in Services :
     /\ s = "cursor" => peer_keyboard_enabled(f) \/ f["show_remote_cursor"]
     /\ s = "pos" => f["show_remote_cursor"]
     /\ s = "window_focus" => f["follow_remote_window"]
     /\ s = "clipboard" => can_sub_clipboard_service(f)
     /\ s = "file_clipboard" => can_sub_file_clipboard_service(f)
     /\ s = "audio" => audio_enabled(f)}

\* Mutated form of SwitchPermissionCalls: the clipboard is not looked at when the
\* keyboard is switched.
SwitchPermissionCallsNoClipboard(p, f, authorized) ==
  CASE p = "keyboard" ->
         <<<<"cursor", f["keyboard"] \/ f["show_remote_cursor"]>>>>
    [] p = "clipboard" -> <<<<"clipboard", can_sub_clipboard_service(f)>>>>
    [] p = "audio" -> IF authorized THEN <<<<"audio", audio_enabled(f)>>>> ELSE <<>>
    [] p = "file" -> <<<<"file_clipboard", can_sub_file_clipboard_service(f)>>>>

\* The Server::subscribe calls of the handler of ipc::Data::SwitchPermission.
SwitchPermissionCalls(p, f, authorized) ==
  CASE p = "keyboard" ->
         << <<"clipboard", can_sub_clipboard_service(f)>>,
            <<"file_clipboard", can_sub_file_clipboard_service(f)>>,
            <<"cursor", f["keyboard"] \/ f["show_remote_cursor"]>> >>
    [] p = "clipboard" -> <<<<"clipboard", can_sub_clipboard_service(f)>>>>
    [] p = "audio" -> IF authorized THEN <<<<"audio", audio_enabled(f)>>>> ELSE <<>>
    [] p = "file" -> <<<<"file_clipboard", can_sub_file_clipboard_service(f)>>>>

\* The Server::subscribe calls update_options makes for one option of the message.
UpdateOptionCalls(o, f) ==
  CASE o = "show_remote_cursor" ->
         << <<"cursor", peer_keyboard_enabled(f) \/ f["show_remote_cursor"]>>,
            <<"pos", f["show_remote_cursor"]>> >>
    [] o = "follow_remote_window" -> <<<<"window_focus", f["follow_remote_window"]>>>>
    [] o = "disable_audio" -> <<<<"audio", audio_enabled(f)>>>>
    [] o = "enable_file_transfer" ->
         <<<<"file_clipboard", can_sub_file_clipboard_service(f)>>>>
    [] o = "disable_clipboard" -> <<<<"clipboard", can_sub_clipboard_service(f)>>>>
    [] o = "disable_keyboard" ->
         << <<"clipboard", can_sub_clipboard_service(f)>>,
            <<"file_clipboard", can_sub_file_clipboard_service(f)>>,
            <<"cursor", peer_keyboard_enabled(f) \/ f["show_remote_cursor"]>> >>
-----------------------------------------------------------------------------
(* The connection's task handles one event at a time.                      *)

Free(c) == todo[c] = <<>> /\ phase[c] # "closed"

\* The connection manager switches a permission, before or after the login.
SwitchPermission(c) ==
  /\ Free(c)
  /\ \E p \in Permissions \cap Toggles, enabled \in BOOLEAN :
       /\ flag' = [flag EXCEPT ![c][p] = enabled]
       /\ todo' = [todo EXCEPT ![c] =
                     SwitchPermissionCalls(p, flag'[c], phase[c] # "login")]
  /\ UNCHANGED <<svc, connections, server_lock, phase, stage, raced>>

\* An OptionMessage, also the one that came with the login request.  A message
\* that sets several options does what one message for each of them does.
UpdateOptions(c) ==
  /\ Free(c)
  /\ phase[c] # "login"
  /\ \E o \in Toggles \ Permissions, value \in BOOLEAN :
       /\ flag' = [flag EXCEPT ![c][o] = value]
       /\ todo' = [todo EXCEPT ![c] = UpdateOptionCalls(o, flag'[c])]
  /\ UNCHANGED <<svc, connections, server_lock, phase, stage, raced>>

\* send_logon_response sets `authorized'; the services may have to wait until the
\* peer has chosen a Windows session.
Authorize(c) ==
  /\ Free(c)
  /\ phase[c] = "login"
  /\ phase' = [phase EXCEPT ![c] = "authorized"]
  /\ UNCHANGED <<svc, connections, server_lock, flag, todo, stage, raced>>

\* try_sub_monitor_services and Server::add_connection
AddConnection(c) ==
  /\ Free(c)
  /\ phase[c] = "authorized"
  /\ server_lock = NoConn
  /\ phase' = [phase EXCEPT ![c] = "subed"]
  /\ svc' = [s \in Services |->
               IF s \in Granted(flag[c])
               THEN on_subscribe(svc[s], c, s \in NeedSnapshot) ELSE svc[s]]
  /\ connections' = connections \cup {c}
  /\ UNCHANGED <<server_lock, flag, todo, stage, raced>>

\* Mutated form of RemoveConnection: the connection stays in Server::connections.
RemoveConnectionKept(c) ==
  /\ Free(c)
  /\ server_lock = NoConn
  /\ phase' = [phase EXCEPT ![c] = "closed"]
  /\ svc' = [s \in Services |-> on_unsubscribe(svc[s], c)]
  /\ raced' = {r \in raced : r[1] # c}
  /\ UNCHANGED <<connections, server_lock, flag, todo, stage>>

\* The loop has ended: Server::remove_connection.
RemoveConnection(c) ==
  /\ Free(c)
  /\ server_lock = NoConn
  /\ phase' = [phase EXCEPT ![c] = "closed"]
  /\ svc' = [s \in Services |-> on_unsubscribe(svc[s], c)]
  /\ connections' = connections \ {c}
  /\ raced' = {r \in raced : r[1] # c}
  /\ UNCHANGED <<server_lock, flag, todo, stage>>
-----------------------------------------------------------------------------
(* Server::subscribe                                                       *)

Target(c) == Head(todo[c])[1]
Wanted(c) == Head(todo[c])[2]

\* The call returns and the handler makes its next one.
Return(c) ==
  /\ todo' = [todo EXCEPT ![c] = Tail(@)]
  /\ stage' = [stage EXCEPT ![c] = "idle"]
  /\ server_lock' = NoConn

\* Lock the server; is_subed looks into `subscribes'.
SubscribeBegins(c) ==
  /\ todo[c] # <<>>
  /\ stage[c] = "idle"
  /\ server_lock = NoConn
  /\ \/ /\ c \in svc[Target(c)].subscribes
        /\ \/ Wanted(c) /\ Return(c)
           \/ /\ ~Wanted(c)
              /\ stage' = [stage EXCEPT ![c] = "act"]
              /\ server_lock' = c
              /\ UNCHANGED todo
     \/ /\ c \notin svc[Target(c)].subscribes
        /\ stage' = [stage EXCEPT ![c] = "read_new"]
        /\ server_lock' = c
        /\ UNCHANGED todo
  /\ UNCHANGED <<svc, connections, phase, flag, raced>>

\* is_subed takes the service's lock again and looks into `new_subscribes'; what
\* was found decides whether there is anything to do.
SubscribeReadsNew(c) ==
  /\ stage[c] = "read_new"
  /\ LET is_subed == c \in svc[Target(c)].new_subscribes
     IN \/ /\ is_subed = Wanted(c)
           /\ Return(c)
           /\ raced' = IF c \in svc[Target(c)].subscribes /\ ~Wanted(c)
                       THEN raced \cup {<<c, Target(c)>>} ELSE raced
        \/ /\ is_subed # Wanted(c)
           /\ stage' = [stage EXCEPT ![c] = "act"]
           /\ UNCHANGED <<server_lock, todo, raced>>
  /\ UNCHANGED <<svc, connections, phase, flag>>

\* on_subscribe or on_unsubscribe
SubscribeActs(c) ==
  /\ stage[c] = "act"
  /\ svc' = [svc EXCEPT ![Target(c)] =
               IF Wanted(c) THEN on_subscribe(@, c, Target(c) \in NeedSnapshot)
                            ELSE on_unsubscribe(@, c)]
  /\ raced' = raced \ {<<c, Target(c)>>}
  /\ Return(c)
  /\ UNCHANGED <<connections, phase, flag>>

\* A service's thread has taken a snapshot: Drop for ServiceSwap.
ServiceSwaps(s) ==
  /\ svc[s].new_subscribes # {}
  /\ svc' = [svc EXCEPT ![s] = swap_new_subscribes(@)]
  /\ UNCHANGED <<connections, server_lock, phase, flag, todo, stage, raced>>

SubsNext ==
  \/ \E c \in Conns : \/ SwitchPermission(c) \/ UpdateOptions(c) \/ Authorize(c)
                      \/ AddConnection(c) \/ RemoveConnection(c)
                      \/ SubscribeBegins(c) \/ SubscribeReadsNew(c) \/ SubscribeActs(c)
  \/ \E s \in NeedSnapshot : ServiceSwaps(s)

SubsSpec == SubsInit /\ [][SubsNext]_subsVars
-----------------------------------------------------------------------------
(* Properties.                                                             *)

\* Between two events of a connection that has its services.
Settled(c) == phase[c] = "subed" /\ todo[c] = <<>>

SubscribedTo(c, s) == c \in Subscribers(svc[s])

\* After any sequence of permission switches and option changes, a connection
\* gets what it may have: the clipboard and the cursor position exactly when they
\* are allowed, and the cursor and the sound at least then.
GrantedAreSubscribed ==
  \A c \in Conns : Settled(c) =>
    /\ SubscribedTo(c, "clipboard") <=> can_sub_clipboard_service(flag[c])
    /\ SubscribedTo(c, "pos") <=> flag[c]["show_remote_cursor"]
    /\ peer_keyboard_enabled(flag[c]) \/ flag[c]["show_remote_cursor"]
         => SubscribedTo(c, "cursor")
    /\ audio_enabled(flag[c]) => SubscribedTo(c, "audio")

\* A permission that is withdrawn ends the subscription, and the end of a connection
\* all of them.  The one exception is an unsubscribe that is_subed talks
\* Server::subscribe out of, because the service's thread moved the connection
\* between the two reads; Server::remove_connection does not ask is_subed, so that
\* nothing is left of a closed connection, also after a lost unsubscribe.
NoneOutlivesItsPermission ==
  \A c \in Conns :
    /\ Settled(c) =>
         /\ SubscribedTo(c, "file_clipboard") => file_transfer_enabled(flag[c])
         /\ SubscribedTo(c, "window_focus") => flag[c]["follow_remote_window"]
         /\ SubscribedTo(c, "audio") => audio_enabled(flag[c]) \/ <<c, "audio">> \in raced
         /\ SubscribedTo(c, "cursor") =>
              \/ flag[c]["keyboard"] \/ flag[c]["show_remote_cursor"]
              \/ <<c, "cursor">> \in raced
    /\ phase[c] = "closed" => \A s \in Services : ~SubscribedTo(c, s)
=============================================================================
