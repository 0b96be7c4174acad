------------------------------ MODULE Terminal ------------------------------
(***************************************************************************)
(* The terminal service of one service id, src/server/terminal_service.rs, *)
(* and the connections that use it one after the other or side by side.    *)
(* Every connection has a service thread of its own (run), which collects  *)
(* the output of the sessions; a session has a reader and a writer thread  *)
(* around a pseudo terminal and a child process.  A service is removed by  *)
(* the thread of a connection that ends, unless it is persistent, and by   *)
(* the cleanup task when it is idle.                                       *)
(*                                                                         *)
(* Left out: sizes and titles of terminals, the output itself (its buffer  *)
(* is TerminalBuffer) and what only decides about it (is_opened, the list  *)
(* of sessions to restore), other service ids and so MAX_SERVICES, and     *)
(* macOS's way to close a pty.                                             *)
(***************************************************************************)
EXTENDS Naturals, Sequences, FiniteSets

CONSTANTS TermConns,       \* connections, each of which logs in once
          Terminals,       \* terminal ids
          MaxServices,     \* services created
          MaxSessions,     \* sessions created
          MaxExits,        \* children that exit by themselves
          MaxActions,      \* actions of clients
          ChannelSize      \* CHANNEL_BUFFER_SIZE of the input

ASSUME TermBoundsAssumption ==
  /\ {MaxServices, MaxSessions, MaxExits, MaxActions} \subseteq Nat
  /\ ChannelSize \in Nat \ {0}

VARIABLES
  registry,      \* TERMINAL_SERVICES[id]: index of a service, or 0
  registryLock,  \* who keeps TERMINAL_SERVICES locked over several steps
  services,      \* PersistentTerminalServices created: their is_persistent
  sessions,      \* TerminalSessions created
  conns,         \* the connections
  threads,       \* the connections' service threads
  janitor,       \* the cleanup task
  stopping,      \* sessions each agent is about to stop
  actions        \* actions of clients so far

termVars == <<registry, registryLock, services, sessions, conns, threads, janitor, stopping,
              actions>>

Cleanup == "cleanup"
Nobody == "nobody"
Agents == {<<"conn", c>> : c \in TermConns} \cup {<<"thread", c>> : c \in TermConns} \cup {<<Cleanup>>}
Conn(c) == <<"conn", c>>
Thread(c) == <<"thread", c>>

Ids == 1 .. Len(sessions)
\* PersistentTerminalService::sessions
SessionsOf(v) == {s \in Ids : sessions[s].in_map /\ sessions[s].svc = v}

\* child says who has the handle of the child process: the session, the reaper (which
\* only collects what has ended), or nobody after an error; process whether it runs.
\* echo: the pty has something to read; mute: the last input was not echoed; astray: a
\* call failed, or the child was taken for that of another session, so that the shell
\* may run on (a history variable).
NewSession(v, t) ==
  [svc |-> v, terminal |-> t, in_map |-> TRUE, closed_message_sent |-> FALSE,
   exiting |-> FALSE, lock |-> <<Nobody>>, input_tx |-> TRUE, pty_pair |-> TRUE, input |-> 0,
   echo |-> FALSE, mute |-> FALSE, reader |-> TRUE, writer |-> TRUE, process |-> TRUE,
   child |-> "session", astray |-> FALSE]
\* The child is spawned but take_writer or try_clone_reader fails: what was made is dropped.
SpawnedOnly(v, t) ==
  [NewSession(v, t) EXCEPT !.in_map = FALSE, !.input_tx = FALSE, !.pty_pair = FALSE,
                           !.reader = FALSE, !.writer = FALSE, !.child = "dropped",
                           !.astray = TRUE]

\* Types; the channel of a session keeps its bound.
TermTypeOK ==
  /\ registry \in 0 .. Len(services)
  /\ registryLock \in {<<Nobody>>} \cup Agents
  /\ Len(services) <= MaxServices /\ Len(sessions) <= MaxSessions
  /\ \A s \in Ids : /\ sessions[s].input <= ChannelSize
                    /\ sessions[s].lock \in {<<Nobody>>} \cup Agents
                    /\ sessions[s].child \in {"session", "reaper", "dropped"}
  /\ \A c \in TermConns : conns[c].pc \in {"none", "open", "acting", "data", "joining", "gone"}
  /\ \A c \in TermConns : threads[c].pc \in {"none", "idle", "loop", "closing", "cleaning", "exit",
                                             "remove", "removing", "done"}
  /\ janitor \in {"idle", "collected", "removing"}
  /\ \A a \in Agents : stopping[a] \subseteq Ids
  /\ actions <= MaxActions

TermInit ==
  /\ registry = 0 /\ registryLock = <<Nobody>>
  /\ services = <<>> /\ sessions = <<>>
  /\ conns = [c \in TermConns |-> [pc |-> "none"]]
  /\ threads = [c \in TermConns |-> [pc |-> "none"]]
  /\ janitor = "idle"
  /\ stopping = [a \in Agents |-> {}]
  /\ actions = 0

Unlocked == registryLock = <<Nobody>>
-----------------------------------------------------------------------------
(* Connections.                                                            *)

Ready(c) == conns[c].pc = "open" /\ stopping[Conn(c)] = {}

\* init_terminal_service: get_or_create_service with reset_status, and the thread.
InitTerminalService(c, persistent) ==
  /\ conns[c].pc = "none" /\ Unlocked
  /\ \/ /\ registry = 0
        /\ Len(services) < MaxServices
        /\ services' = Append(services, persistent)
        /\ registry' = Len(services')
     \/ /\ registry # 0
        /\ \A s \in SessionsOf(registry) : sessions[s].lock = <<Nobody>>
        /\ services' = [services EXCEPT ![registry] = persistent]
        /\ UNCHANGED registry
  /\ conns' = [conns EXCEPT ![c] = [pc |-> "open"]]
  /\ threads' = [threads EXCEPT ![c] = [pc |-> "idle"]]
  /\ UNCHANGED <<registryLock, sessions, janitor, stopping, actions>>

\* update_terminal_persistence
SetPersistent(c, persistent) ==
  /\ Ready(c) /\ Unlocked /\ registry # 0
  /\ actions < MaxActions
  /\ actions' = actions + 1
  /\ services' = [services EXCEPT ![registry] = persistent]
  /\ UNCHANGED <<registry, registryLock, sessions, conns, threads, janitor, stopping>>

\* handle_terminal_action looks the service up; without one the action is refused.
GetService(c, action, t) ==
  /\ Ready(c) /\ Unlocked /\ registry # 0
  /\ actions < MaxActions
  /\ actions' = actions + 1
  /\ conns' = [conns EXCEPT ![c] = [pc |-> "acting", action |-> action, terminal |-> t,
                                    svc |-> registry]]
  /\ UNCHANGED <<registry, registryLock, services, sessions, threads, janitor, stopping>>

Existing(c) == {s \in SessionsOf(conns[c].svc) : sessions[s].terminal = conns[c].terminal}

\* The action is over; sessions nobody refers to any more are dropped, and Drop stops them.
ActionOver(c, dropped) ==
  /\ conns' = [conns EXCEPT ![c] = [pc |-> "open"]]
  /\ stopping' = [stopping EXCEPT ![Conn(c)] = dropped]

\* Mutant: dropping a session does not stop it.
OrphansKept(c, ss) == {}

\* A service that has been removed meanwhile ends with the last reference to it.
Orphans(c, ss) == {s \in ss : conns[c].svc # registry}

HandleOpen(c) ==
  /\ conns[c].pc = "acting" /\ conns[c].action = "open"
  /\ \/ \E s \in Existing(c) :
          /\ sessions[s].lock = <<Nobody>>       \* reconnected
          /\ UNCHANGED sessions
          /\ ActionOver(c, {})
     \/ /\ Existing(c) = {}
        /\ Len(sessions) < MaxSessions
        /\ sessions' = Append(sessions, NewSession(conns[c].svc, conns[c].terminal))
        /\ ActionOver(c, Orphans(c, {Len(sessions')}))
     \/ /\ Existing(c) = {}                 \* no pty or no child process
        /\ UNCHANGED sessions
        /\ ActionOver(c, {})
     \/ /\ Existing(c) = {}                 \* a child process, but no writer or no reader
        /\ Len(sessions) < MaxSessions
        /\ sessions' = Append(sessions, SpawnedOnly(conns[c].svc, conns[c].terminal))
        /\ ActionOver(c, {})
  /\ UNCHANGED <<registry, registryLock, services, threads, janitor, actions>>

\* handle_data keeps the session locked until the channel takes the input.
HandleData(c) ==
  /\ conns[c].pc = "acting" /\ conns[c].action = "data"
  /\ \/ \E s \in Existing(c) :
          /\ sessions[s].lock = <<Nobody>>
          /\ sessions' = [sessions EXCEPT ![s].lock = Conn(c)]
          /\ conns' = [conns EXCEPT ![c] = [pc |-> "data", session |-> s]]
     \/ /\ Existing(c) = {}
        /\ conns' = [conns EXCEPT ![c] = [pc |-> "open"]]
        /\ UNCHANGED sessions
  /\ UNCHANGED <<registry, registryLock, services, threads, janitor, stopping, actions>>

\* input_tx.send fails when the writer thread has ended.
Sendable(s) == ~sessions[s].input_tx \/ ~sessions[s].writer \/ sessions[s].input < ChannelSize
Sent(s) == IF sessions[s].input_tx /\ sessions[s].writer THEN sessions[s].input + 1
           ELSE sessions[s].input

DataSent(c) ==
  /\ conns[c].pc = "data"
  /\ LET s == conns[c].session
     IN  /\ Sendable(s)
         /\ sessions' = [sessions EXCEPT ![s].input = Sent(s), ![s].lock = <<Nobody>>]
  /\ conns' = [conns EXCEPT ![c] = [pc |-> "open"]]
  /\ UNCHANGED <<registry, registryLock, services, threads, janitor, stopping, actions>>

\* Who has the child process when it is killed, and the call fails or not, and what runs
\* on; the one killed is given to the reaper, the one not killed ends up at `other'.
Killed(s, other) ==
  IF s.child # "session" THEN {s}
  ELSE {[s EXCEPT !.child = "reaper", !.process = FALSE],
        [s EXCEPT !.child = other, !.astray = TRUE]}

\* child.kill()? leaves handle_close with the child dropped.
HandleClose(c) ==
  /\ conns[c].pc = "acting" /\ conns[c].action = "close"
  /\ \/ \E s \in Existing(c) :
          /\ sessions[s].lock = <<Nobody>>
          /\ \E k \in Killed(sessions[s], "dropped") :
               sessions' = [sessions EXCEPT ![s] = [k EXCEPT !.in_map = FALSE]]
          /\ ActionOver(c, {s})
     \/ Existing(c) = {} /\ UNCHANGED sessions /\ ActionOver(c, {})
  /\ UNCHANGED <<registry, registryLock, services, threads, janitor, actions>>

\* Drop for Connection: join asks the thread to end and waits for it.
DropConnection(c) ==
  /\ Ready(c)
  /\ conns' = [conns EXCEPT ![c] = [pc |-> "joining"]]
  /\ UNCHANGED <<registry, registryLock, services, sessions, threads, janitor, stopping, actions>>

Joined(c) ==
  /\ conns[c].pc = "joining" /\ threads[c].pc = "done"
  /\ conns' = [conns EXCEPT ![c] = [pc |-> "gone"]]
  /\ UNCHANGED <<registry, registryLock, services, sessions, threads, janitor, stopping, actions>>

Active(c) == conns[c].pc # "joining"
-----------------------------------------------------------------------------
(* The service thread of a connection: GenericService::run around run.     *)

SetThread(c, t) == threads' = [threads EXCEPT ![c] = t]

EnterRun(c) ==
  /\ threads[c].pc = "idle"
  /\ SetThread(c, [pc |-> IF Active(c) THEN "loop" ELSE "done"])
  /\ UNCHANGED <<registry, registryLock, services, sessions, conns, janitor, stopping, actions>>

\* One turn of the loop: read_outputs asks every session it can lock for its end (and
\* its output; a turn without an end changes nothing here).
ReadOutputs(c) ==
  /\ threads[c].pc = "loop" /\ stopping[Thread(c)] = {}
  /\ \/ /\ ~Active(c)
        /\ SetThread(c, [pc |-> "exit"])
        /\ UNCHANGED sessions
     \/ /\ Active(c) /\ Unlocked /\ registry # 0
        /\ LET ended == {s \in SessionsOf(registry) : /\ sessions[s].lock = <<Nobody>>
                                                      /\ ~sessions[s].closed_message_sent
                                                      /\ ~sessions[s].reader}
           IN  /\ ended # {}
               /\ sessions' = [s \in Ids |-> IF s \in ended
                                             THEN [sessions[s] EXCEPT !.closed_message_sent = TRUE]
                                             ELSE sessions[s]]
               /\ SetThread(c, [pc |-> "closing", svc |-> registry,
                                closed |-> {sessions[s].terminal : s \in ended},
                                persistent |-> services[registry]])
  /\ UNCHANGED <<registry, registryLock, services, conns, janitor, stopping, actions>>

Cleaning(t, found) ==
  IF found = {} THEN [pc |-> "loop"]
  ELSE [pc |-> "cleaning", svc |-> t.svc, found |-> found, persistent |-> t.persistent]

\* The ends are kept as terminal ids, and the map is read again.
CloneSessions(c) ==
  /\ threads[c].pc = "closing"
  /\ LET t == threads[c]
         found == {s \in SessionsOf(t.svc) : sessions[s].terminal \in t.closed}
     IN  SetThread(c, Cleaning(t, found))
  /\ UNCHANGED <<registry, registryLock, services, sessions, conns, janitor, stopping, actions>>

\* What is found leaves the service, or stays in a persistent one, and its child goes to
\* the reaper, running or not.  A terminal that was closed and opened again since it
\* ended is taken for the one that ended, or is removed in its place.
CloseEnded(c) ==
  /\ threads[c].pc = "cleaning" /\ stopping[Thread(c)] = {}
  /\ \E s \in threads[c].found :
       LET t == threads[c]
           removed == IF t.persistent THEN {}
                      ELSE {n \in SessionsOf(t.svc) : sessions[n].terminal = sessions[s].terminal}
           taken == sessions[s].child = "session"
       IN  /\ sessions[s].lock = <<Nobody>>
           /\ sessions' = [n \in Ids |->
                [sessions[n] EXCEPT !.in_map = @ /\ n \notin removed,
                                    !.child = IF n = s /\ taken THEN "reaper" ELSE @,
                                    !.astray = @ \/ (n = s /\ taken /\ sessions[s].reader)]]
           /\ stopping' = [stopping EXCEPT ![Thread(c)] = removed]
           /\ SetThread(c, Cleaning(t, t.found \ {s}))
  /\ UNCHANGED <<registry, registryLock, services, conns, janitor, actions>>

\* After the loop: is the service to be removed?
ExitRun(c) ==
  /\ threads[c].pc = "exit" /\ Unlocked
  /\ SetThread(c, [pc |-> IF registry # 0 /\ ~services[registry]
                          THEN "remove" ELSE "done"])
  /\ UNCHANGED <<registry, registryLock, services, sessions, conns, janitor, stopping, actions>>

\* remove_service keeps TERMINAL_SERVICES locked while it stops the sessions.
RemoveService(a) ==
  /\ Unlocked
  /\ \/ /\ registry # 0
        /\ registryLock' = a
        /\ stopping' = [stopping EXCEPT ![a] = SessionsOf(registry)]
        /\ registry' = 0
     \/ /\ registry = 0
        /\ UNCHANGED <<registryLock, stopping, registry>>
  /\ UNCHANGED <<services, sessions, conns>>

Removed(a) ==
  /\ stopping[a] = {}
  /\ registryLock' = IF registryLock = a THEN <<Nobody>> ELSE registryLock
  /\ UNCHANGED <<registry, services, sessions, conns, stopping>>

RunRemoves(c) ==
  \/ /\ threads[c].pc = "remove"
     /\ RemoveService(Thread(c))
     /\ SetThread(c, [pc |-> "removing"])
     /\ UNCHANGED <<janitor, actions>>
  \/ /\ threads[c].pc = "removing"
     /\ Removed(Thread(c))
     /\ SetThread(c, [pc |-> "done"])
     /\ UNCHANGED <<janitor, actions>>

\* Mutant: the cleanup task only looks for persistent services.
CleanupPersistent ==
  /\ janitor = "idle" /\ Unlocked /\ registry # 0
  /\ services[registry] /\ SessionsOf(registry) = {}
  /\ janitor' = "collected"
  /\ UNCHANGED <<registry, registryLock, services, sessions, conns, threads, stopping, actions>>

\* cleanup_inactive_services: the service has been idle for an hour or two.  What it
\* found is removed after the registry was unlocked.
CleanupCollects ==
  /\ janitor = "idle" /\ Unlocked /\ registry # 0
  /\ services[registry] => SessionsOf(registry) = {}
  /\ janitor' = "collected"
  /\ UNCHANGED <<registry, registryLock, services, sessions, conns, threads, stopping, actions>>

CleanupInactive ==
  \/ CleanupCollects
  \/ /\ janitor = "collected"
     /\ RemoveService(<<Cleanup>>)
     /\ janitor' = "removing"
     /\ UNCHANGED <<threads, actions>>
  \/ /\ janitor = "removing"
     /\ Removed(<<Cleanup>>)
     /\ janitor' = "idle"
     /\ UNCHANGED <<threads, actions>>
-----------------------------------------------------------------------------
(* TerminalSession::stop, by whoever removes or drops the session: a final *)
(* newline makes the reader read something, then both threads are joined   *)
(* and the child is killed.  The session stays locked.                     *)

StopBegins(a, s) ==
  /\ s \in stopping[a] /\ sessions[s].lock = <<Nobody>>
  /\ sessions' = [sessions EXCEPT ![s].lock = a, ![s].exiting = TRUE]
  /\ UNCHANGED <<registry, registryLock, services, conns, threads, janitor, stopping, actions>>

\* Mutant: no final newline.
StopSendsNothing(a, s) ==
  /\ s \in stopping[a] /\ sessions[s].lock = a /\ sessions[s].pty_pair
  /\ sessions' = [sessions EXCEPT ![s].input_tx = FALSE, ![s].pty_pair = FALSE]
  /\ UNCHANGED <<registry, registryLock, services, conns, threads, janitor, stopping, actions>>

StopSends(a, s) ==
  /\ s \in stopping[a] /\ sessions[s].lock = a /\ sessions[s].pty_pair
  /\ Sendable(s)
  /\ sessions' = [sessions EXCEPT ![s].input = Sent(s), ![s].input_tx = FALSE,
                                  ![s].pty_pair = FALSE]
  /\ UNCHANGED <<registry, registryLock, services, conns, threads, janitor, stopping, actions>>

StopJoins(a, s) ==
  /\ s \in stopping[a] /\ sessions[s].lock = a /\ ~sessions[s].pty_pair
  /\ ~sessions[s].reader /\ ~sessions[s].writer
  /\ \E k \in Killed(sessions[s], "reaper") :
       sessions' = [sessions EXCEPT ![s] = [k EXCEPT !.lock = <<Nobody>>]]
  /\ stopping' = [stopping EXCEPT ![a] = @ \ {s}]
  /\ UNCHANGED <<registry, registryLock, services, conns, threads, janitor, actions>>
-----------------------------------------------------------------------------
(* A session's threads and its child process.                              *)

SetSession(s, new) ==
  /\ sessions' = [sessions EXCEPT ![s] = new]
  /\ UNCHANGED <<registry, registryLock, services, conns, threads, janitor, stopping, actions>>

\* The writer passes input to the terminal, which echoes it or not, as soon as the child
\* makes room for it; it ends when the channel is closed and empty, or nobody is left
\* at the other end of the pty.
WriterThread(s) ==
  LET w == sessions[s]
  IN  /\ w.writer
      /\ \/ /\ w.input > 0 /\ (w.process \/ w.pty_pair)
            /\ \E echoed \in BOOLEAN :
                 SetSession(s, [w EXCEPT !.input = @ - 1, !.echo = @ \/ echoed, !.mute = ~echoed])
         \/ /\ w.input > 0 /\ ~w.process /\ ~w.pty_pair
            /\ SetSession(s, [w EXCEPT !.writer = FALSE])
         \/ /\ w.input = 0 /\ ~w.input_tx
            /\ SetSession(s, [w EXCEPT !.writer = FALSE])

\* The reader ends with what it reads once the session is exiting, and with the pty.
ReaderThread(s) ==
  LET r == sessions[s]
  IN  /\ r.reader
      /\ \/ /\ r.echo
            /\ SetSession(s, [r EXCEPT !.echo = FALSE, !.reader = ~r.exiting])
         \/ /\ ~r.echo /\ ~r.process /\ ~r.pty_pair
            /\ SetSession(s, [r EXCEPT !.reader = FALSE])

\* The reader may (macOS) or may not see the end of the child while the pty is there.
ChildExits(s) ==
  /\ sessions[s].process
  /\ Cardinality({x \in Ids : ~sessions[x].process}) < MaxExits
  /\ \E reader \in {sessions[s].reader, FALSE} :
       SetSession(s, [sessions[s] EXCEPT !.process = FALSE, !.reader = reader])

\* A read error ends the reader, whatever the child does.
ReaderFails(s) ==
  /\ sessions[s].reader
  /\ SetSession(s, [sessions[s] EXCEPT !.reader = FALSE, !.astray = TRUE])

\* The child prints something of its own, which matters once the reader is to end.
ChildPrints(s) ==
  /\ sessions[s].process /\ sessions[s].exiting /\ sessions[s].reader /\ ~sessions[s].echo
  /\ SetSession(s, [sessions[s] EXCEPT !.echo = TRUE])
-----------------------------------------------------------------------------
ConnStep(c) == HandleOpen(c) \/ HandleData(c) \/ DataSent(c) \/ HandleClose(c) \/ Joined(c)
ThreadStep(c) == EnterRun(c) \/ ReadOutputs(c) \/ CloneSessions(c) \/ CloseEnded(c)
                 \/ ExitRun(c) \/ RunRemoves(c)
StopStep(a, s) == StopBegins(a, s) \/ StopSends(a, s) \/ StopJoins(a, s)
IoStep(s) == WriterThread(s) \/ ReaderThread(s)

UserActs(c) ==
  \/ \E persistent \in BOOLEAN : InitTerminalService(c, persistent) \/ SetPersistent(c, persistent)
  \/ \E action \in {"open", "data", "close"}, t \in Terminals : GetService(c, action, t)
  \/ DropConnection(c)

TermStep ==
  \/ \E c \in TermConns : ConnStep(c) \/ ThreadStep(c)
  \/ CleanupInactive
  \/ \E a \in Agents, s \in Ids : StopStep(a, s)
  \/ \E s \in Ids : IoStep(s)

TermNext ==
  \/ \E c \in TermConns : UserActs(c)
  \/ TermStep
  \/ \E s \in Ids : ChildExits(s) \/ ReaderFails(s) \/ ChildPrints(s)

TermSpec == TermInit /\ [][TermNext]_termVars

\* Threads run, time passes, and a child reads its input in the end.  Between two
\* actions of the users only finitely many steps are possible, so it is enough that
\* the system does not stop while it can go on.
TermFairness == WF_termVars(TermStep)
-----------------------------------------------------------------------------
\* Who still knows of a session that is no longer in a registered service.
Held(s) ==
  \/ sessions[s].in_map /\ sessions[s].svc = registry
  \/ \E a \in Agents : s \in stopping[a]

\* No shell outlives its service unnoticed: a child process that runs belongs to a
\* session that has its handle and is in the registered service or about to be stopped
\* by somebody (remove_service, handle_close, Drop for TerminalSession), even when an
\* open was under way while the service was removed.  The exceptions are the errors
\* after which the code lets a running child go (no reader or writer after the spawn, a
\* read error, a kill that fails) and a terminal that the clean-up of read_outputs takes
\* for the one with the same id that ended.
NoShellIsForgotten ==
  \A s \in Ids : sessions[s].process => \/ /\ sessions[s].child = "session"
                                            /\ Held(s)
                                         \/ sessions[s].astray

\* stop joins the reader before it kills the child: it waits as long as a terminal that
\* does not echo (ECHO off) has a child that neither prints nor ends.
Silent(s) == sessions[s].exiting /\ sessions[s].reader /\ sessions[s].process /\ sessions[s].mute

\* Whoever locks TERMINAL_SERVICES to remove a service, and so keeps every other
\* terminal connection waiting, unlocks it: stop never waits for ever for the reader
\* and the writer it joins, unless the terminal is silent.
RegistryIsUnlocked ==
  TermFairness => ((registryLock # <<Nobody>>)
                   ~> \/ registryLock = <<Nobody>>
                      \/ \E s \in stopping[registryLock] : Silent(s))

Abandoned == /\ \A c \in TermConns : conns[c].pc \in {"none", "gone"}
             /\ registry # 0 => ~services[registry]

\* When the last connection has ended without leaving a persistent service, all shells
\* end too, or somebody connects again.  Left running are the children whose handle was
\* dropped or given to the reaper, and what is stopped after a silent terminal.
ShellsEnd ==
  TermFairness => (Abandoned ~> \/ ~Abandoned
                                \/ \E s \in Ids : Silent(s)
                                \/ \A s \in Ids : sessions[s].process
                                                   => sessions[s].child # "session")
=============================================================================
