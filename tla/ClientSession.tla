--------------------------- MODULE ClientSession ---------------------------
(***************************************************************************)
(* Rounds of a client session: ConnectionRoundState, Session::reconnect    *)
(* and close (src/ui_session_interface.rs), session_start_ (flutter.rs),   *)
(* session_reconnect and session_close (flutter_ffi.rs), and the frame of  *)
(* Remote::io_loop (client/io_loop.rs).                                    *)
(*                                                                         *)
(* Every round has a thread of its own, which connects, installs the       *)
(* channel the interface talks to, and is never joined.  The interface     *)
(* asks for another round from a dialog's button or a timer, both offered  *)
(* when a loop reports an error, and its calls run on a pool of threads.   *)
(***************************************************************************)
EXTENDS Naturals

CONSTANT MaxRounds   \* bound on the rounds of the session

ASSUME MaxRoundsAssumption == MaxRounds \in Nat \ {0}

VARIABLES
  round,        \* ConnectionRoundState::round
  round_state,  \* ConnectionRoundState::state
  thread,       \* whether Session::thread is Some
  sender,       \* the round whose channel is Session::sender, 0 for None
  closes,       \* rounds with a Data::Close in their channel
  loop,         \* where each round's io_loop is
  call,         \* the interface's two ways to reconnect: its dialog, its timer
  page,         \* the session's page: not started, open, removed, closed
  overlapped,        \* history: two reconnects met before `thread' was set
  unheard       \* history: the page was closed while a round was starting

sessionVars == <<round, round_state, thread, sender, closes, loop, call, page,
                 overlapped, unheard>>

Rounds == 1..MaxRounds
Calls == {"dialog", "timer"}
Idle == [at |-> "idle", round |-> 0]

SessionInit ==
  /\ round = 0
  /\ round_state = "Connecting"
  /\ thread = FALSE
  /\ sender = 0
  /\ closes = {}
  /\ loop = [r \in Rounds |-> "none"]
  /\ call = [u \in Calls |-> Idle]
  /\ page = "new"
  /\ overlapped = FALSE
  /\ unheard = FALSE
-----------------------------------------------------------------------------
(* ConnectionRoundState.                                                   *)

new_round ==
  /\ round < MaxRounds
  /\ round' = round + 1
  /\ round_state' = "Connecting"

is_round_gt(r) == r < round

\* Mutated form of set_disconnected: whatever loop ends, the session is
\* disconnected.
set_disconnected_any(r) == round_state' = "Disconnected"

\* A loop of an older round leaves the state as it is.
set_disconnected(r) ==
  round_state' = IF is_round_gt(r) THEN round_state ELSE "Disconnected"

\* Session::send(Data::Close): to the channel installed last, if there is one.
SendClose == closes' = IF sender = 0 THEN closes ELSE closes \cup {sender}
-----------------------------------------------------------------------------
(* The interface.                                                          *)

\* session_start_: a thread that begins the first round itself.
StartSession ==
  /\ page = "new"
  /\ page' = "open"
  /\ new_round
  /\ loop' = [loop EXCEPT ![round'] = "spawned"]
  /\ UNCHANGED <<thread, sender, closes, call, overlapped, unheard>>

\* session_reconnect finds the session.  The dialogs are dismissed; a timer that
\* is set goes on.
BeginReconnect(u) ==
  /\ page = "open"
  /\ call[u].at = "offered"
  /\ call' = [call EXCEPT !["dialog"] = IF @.at = "offered" THEN Idle ELSE @,
                          ![u] = [at |-> "begun", round |-> 0]]
  /\ UNCHANGED <<round, round_state, thread, sender, closes, loop, page, overlapped, unheard>>

\* Mutated form of CloseConnected: the loop that is connected is not told.
CloseNobody == UNCHANGED closes

\* reconnect, "If the connection is established, send `Data::Close`".
CloseConnected ==
  IF thread /\ round_state = "Connected" THEN SendClose ELSE UNCHANGED closes

\* reconnect, under the lock of the round: nothing while one is connecting, and
\* otherwise another round.
DecideReconnect(u) ==
  /\ call[u].at = "begun"
  /\ IF thread /\ round_state = "Connecting"
     THEN /\ call' = [call EXCEPT ![u] = Idle]
          /\ UNCHANGED <<round, round_state, closes, overlapped>>
     ELSE /\ CloseConnected
          /\ new_round
          /\ call' = [call EXCEPT ![u] = [at |-> "decided", round |-> round']]
          /\ overlapped' = (overlapped \/ (~thread /\ \E v \in Calls \ {u} : call[v].at = "decided"))
  /\ UNCHANGED <<thread, sender, loop, page, unheard>>

\* reconnect, after the lock: the thread of the round it began.
SpawnRound(u) ==
  /\ call[u].at = "decided"
  /\ thread' = TRUE
  /\ loop' = [loop EXCEPT ![call[u].round] = "spawned"]
  /\ call' = [call EXCEPT ![u] = Idle]
  /\ UNCHANGED <<round, round_state, sender, closes, page, overlapped, unheard>>

\* session_close: the session leaves SESSIONS, its page's dialogs go.
RemoveSession ==
  /\ page = "open"
  /\ page' = "removed"
  /\ call' = [u \in Calls |-> IF call[u].at = "offered" THEN Idle ELSE call[u]]
  /\ UNCHANGED <<round, round_state, thread, sender, closes, loop, overlapped, unheard>>

\* session_close: Session::close.
CloseSession ==
  /\ page = "removed"
  /\ page' = "closed"
  /\ SendClose
  /\ unheard' = (\/ \E u \in Calls : call[u].at # "idle"
                 \/ \E r \in Rounds : loop[r] = "spawned")
  /\ UNCHANGED <<round, round_state, thread, sender, loop, call, overlapped>>
-----------------------------------------------------------------------------
(* The loop of a round.                                                    *)

\* Mutated form of InstallSender: a channel that is installed is kept.
InstallFirst(r) ==
  /\ loop[r] = "spawned"
  /\ loop' = [loop EXCEPT ![r] = "connecting"]
  /\ sender' = IF sender = 0 THEN r ELSE sender
  /\ UNCHANGED <<round, round_state, thread, closes, call, page, overlapped, unheard>>

\* io_loop: the session's channel is this round's from now on.
InstallSender(r) ==
  /\ loop[r] = "spawned"
  /\ loop' = [loop EXCEPT ![r] = "connecting"]
  /\ sender' = r
  /\ UNCHANGED <<round, round_state, thread, closes, call, page, overlapped, unheard>>

\* Client::start succeeds: set_connected, whatever the round.
SetConnected(r) ==
  /\ loop[r] = "connecting"
  /\ loop' = [loop EXCEPT ![r] = "connected"]
  /\ round_state' = "Connected"
  /\ UNCHANGED <<round, thread, sender, closes, call, page, overlapped, unheard>>

\* msgbox: the error is shown with a button and, if it may pass, a timer, which
\* replaces the timer of an earlier error.
Offered(retry) ==
  [u \in Calls |-> IF call[u].at \in {"idle", "offered"} /\ page = "open"
                      /\ (u = "dialog" \/ retry)
                   THEN [at |-> "offered", round |-> 0]
                   ELSE IF call[u].at = "offered" THEN Idle ELSE call[u]]

\* Client::start fails, or the peer's connection does (an error, its end, a close
\* reason, 30 seconds of silence): the interface is told before the state is.
ReportError(r) ==
  /\ loop[r] \in {"connecting", "connected"}
  /\ loop' = [loop EXCEPT ![r] = "failed"]
  /\ \E retry \in BOOLEAN : call' = Offered(retry)
  /\ UNCHANGED <<round, round_state, thread, sender, closes, page, overlapped, unheard>>

\* handle_msg_from_ui: Data::Close.  The loop ends as one that failed does, with
\* nothing to report.
HearClose(r) ==
  /\ loop[r] = "connected"
  /\ r \in closes
  /\ loop' = [loop EXCEPT ![r] = "failed"]
  /\ closes' = closes \ {r}
  /\ UNCHANGED <<round, round_state, thread, sender, call, page, overlapped, unheard>>

\* The end of io_loop: set_disconnected.
EndLoop(r) ==
  /\ loop[r] = "failed"
  /\ loop' = [loop EXCEPT ![r] = "done"]
  /\ set_disconnected(r)
  /\ UNCHANGED <<round, thread, sender, closes, call, page, overlapped, unheard>>

Loop(r) == InstallSender(r) \/ SetConnected(r) \/ ReportError(r) \/ HearClose(r) \/ EndLoop(r)

SessionNext ==
  \/ StartSession \/ RemoveSession \/ CloseSession
  \/ \E u \in Calls : BeginReconnect(u) \/ DecideReconnect(u) \/ SpawnRound(u)
  \/ \E r \in Rounds : Loop(r)

\* Threads that can go on do, a connection is set up or given up in the end, and a
\* message that waits in a channel is read.  Nothing says that a connection ends
\* by itself, or that the interface asks for anything.
SessionFairness ==
  /\ WF_sessionVars(CloseSession)
  /\ \A u \in Calls : WF_sessionVars(DecideReconnect(u) \/ SpawnRound(u))
  /\ \A r \in Rounds :
       /\ WF_sessionVars(InstallSender(r))
       /\ WF_sessionVars(loop[r] = "connecting" /\ (SetConnected(r) \/ ReportError(r)))
       /\ WF_sessionVars(HearClose(r))
       /\ WF_sessionVars(EndLoop(r))

SessionSpec == SessionInit /\ [][SessionNext]_sessionVars
-----------------------------------------------------------------------------
(* Properties.                                                             *)

\* The round's state speaks of the newest round, though loops of older rounds are
\* still ending and set_connected takes no round: "Disconnected" means that the
\* newest loop is over, and "Connected" that it was connected, unless two of the
\* first reconnects overlapped.
StateOfNewestRound ==
  /\ round_state = "Disconnected" => loop[round] = "done"
  /\ round_state = "Connected" /\ ~overlapped => loop[round] \in {"connected", "failed"}

\* "No need to join the previous thread, because it will exit automatically"
\* (reconnect): the loop of a round that is superseded ends.  Two first reconnects
\* that overlap are the exception: both find `thread' empty, and the loop of the
\* earlier one is not told.
SupersededEnd ==
  SessionFairness =>
  \A r \in Rounds : r < round ~> (loop[r] = "done" \/ overlapped)

\* A session whose page was closed keeps no connection: each of its loops ends,
\* also one that was connecting.  The Close is lost on a round whose thread has
\* not installed its channel yet.
ClosedEnd ==
  SessionFairness =>
  (page = "closed" ~>
     (overlapped \/ unheard \/ \A r \in Rounds : loop[r] \in {"none", "done"}))
=============================================================================
