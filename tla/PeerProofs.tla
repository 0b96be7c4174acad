----------------------------- MODULE PeerProofs -----------------------------
(***************************************************************************)
(* What a connection does for its peer: no process of a terminal is        *)
(* forgotten, and a forwarded connection carries data and nothing else.    *)
(***************************************************************************)
EXTENDS Terminal, PortForward, SequenceTheorems, TLAPS

-----------------------------------------------------------------------------
(* Terminals: no shell is forgotten.                                       *)

Session ==
  [svc : Nat, terminal : Terminals, in_map : BOOLEAN, closed_message_sent : BOOLEAN,
   exiting : BOOLEAN, lock : {<<Nobody>>} \cup Agents, input_tx : BOOLEAN, pty_pair : BOOLEAN,
   input : Nat, echo : BOOLEAN, mute : BOOLEAN, reader : BOOLEAN, writer : BOOLEAN,
   process : BOOLEAN, child : {"session", "reaper", "dropped"}, astray : BOOLEAN]

\* stop runs, and whoever runs it has the session locked.
BeingStopped(s) == \E a \in Agents : sessions[s].lock = a /\ s \in stopping[a]

\* Unless it went astray, the child process of a session that runs is the session's, its
\* reader runs until the session is exiting, and is so until the session has been stopped.
Attended(s) ==
  sessions[s].process /\ ~sessions[s].astray =>
    /\ sessions[s].child = "session"
    /\ sessions[s].reader \/ sessions[s].exiting
    /\ sessions[s].exiting => BeingStopped(s)

\* Sessions belong to services that were created, and are attended.
SessionsOK ==
  /\ services \in Seq(BOOLEAN) /\ registry \in 0 .. Len(services)
  /\ sessions \in Seq(Session)
  /\ DOMAIN stopping = Agents
  /\ \A a \in Agents : stopping[a] \subseteq Ids
  /\ \A s \in Ids : sessions[s].svc \in 1 .. Len(services) /\ Attended(s)

\* Agents refer to what exists, keep the session locked they send input to, and take on
\* sessions to stop only when they have stopped the ones they had.
ConnOK(c) ==
  /\ conns[c].pc = "acting" => /\ conns[c].svc \in 1 .. Len(services)
                               /\ conns[c].terminal \in Terminals
  /\ conns[c].pc = "data" => /\ conns[c].session \in Ids
                             /\ sessions[conns[c].session].lock = Conn(c)
  /\ conns[c].pc # "open" => stopping[Conn(c)] = {}

ThreadOK(c) ==
  /\ threads[c].pc = "cleaning" => threads[c].found \subseteq Ids
  /\ threads[c].pc \notin {"loop", "cleaning", "removing"} => stopping[Thread(c)] = {}
  /\ threads[c].pc # "none" => conns[c].pc # "none"

JanitorOK == janitor # "removing" => stopping[<<Cleanup>>] = {}

AgentsOK ==
  /\ DOMAIN conns = TermConns /\ DOMAIN threads = TermConns
  /\ \A c \in TermConns : ConnOK(c) /\ ThreadOK(c)
  /\ JanitorOK

\* A session of the registered service is not being stopped, nor was it.
RegisteredRuns ==
  \A s \in Ids : sessions[s].in_map /\ sessions[s].svc = registry
                   => ~sessions[s].exiting /\ \A a \in Agents : s \notin stopping[a]

TermIInv == SessionsOK /\ AgentsOK /\ RegisteredRuns /\ NoShellIsForgotten

\* A step leaves the sessions locked that other connections send input to.
LocksKept ==
  \A s \in Ids, d \in TermConns :
    sessions[s].lock = Conn(d) /\ conns[d].pc = "data" /\ conns'[d] = conns[d]
      => sessions'[s].lock = Conn(d)

\* The agents are different.
LEMMA AgentsDiffer ==
  /\ <<Cleanup>> \in Agents /\ <<Nobody>> \notin Agents
  /\ \A c \in TermConns : /\ Conn(c) \in Agents /\ Thread(c) \in Agents
                          /\ Conn(c) # <<Cleanup>> /\ Thread(c) # <<Cleanup>>
  /\ \A c, d \in TermConns : /\ Conn(c) # Thread(d)
                             /\ Conn(c) = Conn(d) => c = d
                             /\ Thread(c) = Thread(d) => c = d
BY DEF Agents, Conn, Thread, Cleanup, Nobody

\* Sequences with an element replaced.
LEMMA Replaced ==
  ASSUME NEW S, NEW q \in Seq(S), NEW i \in 1 .. Len(q), NEW x \in S
  PROVE  LET r == [q EXCEPT ![i] = x]
         IN  /\ r \in Seq(S) /\ Len(r) = Len(q) /\ r[i] = x
             /\ \A j \in 1 .. Len(q) : j # i => r[j] = q[j]
OBVIOUS

\* With other elements.
LEMMA Mapped ==
  ASSUME NEW S, NEW q \in Seq(S), NEW r \in [1 .. Len(q) -> S]
  PROVE  r \in Seq(S) /\ Len(r) = Len(q)
<1>1. Len(q) \in Nat /\ DOMAIN r = 1 .. Len(q)
  OBVIOUS
<1>2. r \in Seq(S)
  BY <1>1, SeqDef
<1>3. Len(r) \in Nat /\ DOMAIN r = 1 .. Len(r)
  BY <1>2
<1> QED BY <1>1, <1>2, <1>3

\* One longer.
LEMMA Appended ==
  ASSUME NEW S, NEW q \in Seq(S), NEW x \in S
  PROVE  LET r == Append(q, x)
         IN  /\ r \in Seq(S) /\ Len(r) = Len(q) + 1 /\ r[Len(q) + 1] = x
             /\ \A j \in 1 .. Len(q) : r[j] = q[j]
             /\ Len(q) \in Nat
OBVIOUS

\* A step that creates no session, removes no service, and stops or marks sessions in
\* the proper order.
LEMMA SessionsStep ==
  ASSUME TermIInv, services' \in Seq(BOOLEAN), Len(services') = Len(services),
         registry' = registry, sessions' \in Seq(Session), Len(sessions') = Len(sessions),
         DOMAIN stopping' = Agents,
         \A s \in Ids :
           /\ sessions'[s].svc = sessions[s].svc
           /\ sessions'[s].in_map => sessions[s].in_map
           /\ sessions'[s].process => sessions[s].process
           /\ sessions[s].astray => sessions'[s].astray
           /\ Attended(s)'
           /\ sessions'[s].exiting => sessions[s].exiting \/ \E a \in Agents : s \in stopping[a]
           /\ sessions[s].in_map /\ sessions'[s].process /\ ~sessions'[s].astray
                => sessions'[s].in_map \/ \E a \in Agents : s \in stopping'[a],
         \A a \in Agents : \A s \in stopping'[a] :
           s \in Ids /\ (s \in stopping[a] \/ ~sessions'[s].in_map),
         \A a \in Agents : \A s \in stopping[a] :
           s \in stopping'[a] \/ ~sessions'[s].process \/ sessions'[s].astray
  PROVE  SessionsOK' /\ RegisteredRuns' /\ NoShellIsForgotten'
<1>1. Ids' = Ids
  BY DEF Ids
<1>2. SessionsOK'
  BY <1>1 DEF TermIInv, SessionsOK
<1>3. RegisteredRuns'
  BY <1>1 DEF TermIInv, RegisteredRuns
<1>4. NoShellIsForgotten'
  <2> SUFFICES ASSUME NEW s \in Ids, sessions'[s].process, ~sessions'[s].astray
               PROVE  /\ sessions'[s].child = "session"
                      /\ \/ sessions'[s].in_map /\ sessions'[s].svc = registry'
                         \/ \E a \in Agents : s \in stopping'[a]
    BY <1>1 DEF NoShellIsForgotten, Held
  <2>1. \/ sessions[s].in_map /\ sessions[s].svc = registry
        \/ \E a \in Agents : s \in stopping[a]
    BY DEF TermIInv, NoShellIsForgotten, Held
  <2>2. sessions'[s].child = "session"
    BY DEF Attended
  <2> QED BY <2>1, <2>2
<1> QED BY <1>2, <1>3, <1>4

\* The data an agent keeps stay right as long as it does nothing itself, and nobody gives
\* it sessions to stop.
LEMMA AgentsStep ==
  ASSUME AgentsOK, SessionsOK, SessionsOK', Len(services) <= Len(services'),
         Len(sessions) <= Len(sessions'),
         LocksKept,
         \A c \in TermConns : conns'[c].pc = "none" => conns[c].pc = "none"
  PROVE  /\ \A c \in TermConns :
              conns'[c] = conns[c] /\ stopping'[Conn(c)] \subseteq stopping[Conn(c)] => ConnOK(c)'
         /\ \A c \in TermConns :
              threads'[c] = threads[c] /\ stopping'[Thread(c)] \subseteq stopping[Thread(c)]
              => ThreadOK(c)'
         /\ janitor' = janitor /\ stopping'[<<Cleanup>>] \subseteq stopping[<<Cleanup>>]
              => JanitorOK'
<1>1. Ids \subseteq Ids' /\ 1 .. Len(services) \subseteq 1 .. Len(services')
  BY DEF SessionsOK, Ids
<1>2. \A c \in TermConns : ConnOK(c) /\ ThreadOK(c)
  BY DEF AgentsOK
<1>3. ASSUME NEW c \in TermConns, conns'[c] = conns[c],
             stopping'[Conn(c)] \subseteq stopping[Conn(c)]
      PROVE  ConnOK(c)'
  BY <1>1, <1>2, <1>3 DEF ConnOK, LocksKept
<1>4. ASSUME NEW c \in TermConns, threads'[c] = threads[c],
             stopping'[Thread(c)] \subseteq stopping[Thread(c)]
      PROVE  ThreadOK(c)'
  BY <1>1, <1>2, <1>4 DEF ThreadOK
<1>5. ASSUME janitor' = janitor, stopping'[<<Cleanup>>] \subseteq stopping[<<Cleanup>>]
      PROVE  JanitorOK'
  BY <1>5 DEF AgentsOK, JanitorOK
<1> QED BY <1>3, <1>4, <1>5

\* One agent acts.
LEMMA OneAgentActs ==
  ASSUME AgentsOK, SessionsOK, SessionsOK', Len(services) <= Len(services'),
         Len(sessions) <= Len(sessions'),
         LocksKept,
         NEW a \in Agents, \A b \in Agents : b # a => stopping'[b] \subseteq stopping[b],
         DOMAIN conns' = TermConns, DOMAIN threads' = TermConns,
         \A c \in TermConns : a # Conn(c) => conns'[c] = conns[c],
         \A c \in TermConns : conns'[c].pc = "none" => conns[c].pc = "none",
         \A c \in TermConns : a # Thread(c) => threads'[c] = threads[c],
         a # <<Cleanup>> => janitor' = janitor,
         \A c \in TermConns : a = Conn(c) => ConnOK(c)',
         \A c \in TermConns : a = Thread(c) => ThreadOK(c)',
         a = <<Cleanup>> => JanitorOK'
  PROVE  AgentsOK'
<1>1. \A c \in TermConns : a # Conn(c) => ConnOK(c)'
  BY AgentsStep, AgentsDiffer
<1>2. \A c \in TermConns : a # Thread(c) => ThreadOK(c)'
  BY AgentsStep, AgentsDiffer
<1>3. a # <<Cleanup>> => JanitorOK'
  BY AgentsStep, AgentsDiffer
<1> QED BY <1>1, <1>2, <1>3 DEF AgentsOK

\* The sessions are in order after a step; what is left to show is that the connection
LEMMA ConnActs ==
  ASSUME TermIInv, SessionsOK', RegisteredRuns', NoShellIsForgotten',
         Len(services) <= Len(services'), Len(sessions) <= Len(sessions'),
         LocksKept,
         NEW c \in TermConns, UNCHANGED <<threads, janitor>>,
         \A b \in Agents : b # Conn(c) => stopping'[b] \subseteq stopping[b],
         DOMAIN conns' = TermConns, \A d \in TermConns : d # c => conns'[d] = conns[d],
         conns'[c].pc # "none", ConnOK(c)'
  PROVE  TermIInv'
<1>1. AgentsOK /\ SessionsOK /\ DOMAIN threads = TermConns
  BY DEF TermIInv, AgentsOK
<1>2. Conn(c) \in Agents /\ Conn(c) # <<Cleanup>>
      /\ \A d \in TermConns : Conn(c) # Thread(d) /\ (Conn(c) = Conn(d) => c = d)
  BY AgentsDiffer
<1>3. AgentsOK'
  BY <1>1, <1>2, OneAgentActs
<1> QED BY <1>3 DEF TermIInv

\* or the thread that took it
LEMMA ThreadActs ==
  ASSUME TermIInv, SessionsOK', RegisteredRuns', NoShellIsForgotten',
         Len(services) <= Len(services'), Len(sessions) <= Len(sessions'),
         LocksKept,
         NEW c \in TermConns, UNCHANGED <<conns, janitor>>,
         \A b \in Agents : b # Thread(c) => stopping'[b] \subseteq stopping[b],
         DOMAIN threads' = TermConns, \A d \in TermConns : d # c => threads'[d] = threads[d],
         ThreadOK(c)'
  PROVE  TermIInv'
<1>1. AgentsOK /\ SessionsOK /\ DOMAIN conns = TermConns
  BY DEF TermIInv, AgentsOK
<1>2. Thread(c) \in Agents /\ Thread(c) # <<Cleanup>>
      /\ \A d \in TermConns : Thread(c) # Conn(d) /\ (Thread(c) = Thread(d) => c = d)
  BY AgentsDiffer
<1>3. AgentsOK'
  BY <1>1, <1>2, OneAgentActs
<1> QED BY <1>3 DEF TermIInv

\* or the cleanup task is too;
LEMMA JanitorActs ==
  ASSUME TermIInv, SessionsOK', RegisteredRuns', NoShellIsForgotten',
         Len(services) <= Len(services'), Len(sessions) <= Len(sessions'),
         LocksKept,
         UNCHANGED <<conns, threads>>,
         \A b \in Agents : b # <<Cleanup>> => stopping'[b] \subseteq stopping[b], JanitorOK'
  PROVE  TermIInv'
<1>1. AgentsOK /\ SessionsOK /\ DOMAIN conns = TermConns /\ DOMAIN threads = TermConns
  BY DEF TermIInv, AgentsOK
<1>2. <<Cleanup>> \in Agents /\ \A c \in TermConns : <<Cleanup>> # Conn(c) /\ <<Cleanup>> # Thread(c)
  BY AgentsDiffer
<1>3. AgentsOK'
  BY <1>1, <1>2, OneAgentActs
<1> QED BY <1>3 DEF TermIInv

\* or nothing, when no agent did.
LEMMA NobodyActs ==
  ASSUME TermIInv, SessionsOK', RegisteredRuns', NoShellIsForgotten',
         Len(services) <= Len(services'), Len(sessions) <= Len(sessions'),
         LocksKept,
         UNCHANGED <<conns, threads, janitor>>,
         \A b \in Agents : stopping'[b] \subseteq stopping[b]
  PROVE  TermIInv'
<1>1. AgentsOK /\ SessionsOK /\ DOMAIN conns = TermConns /\ DOMAIN threads = TermConns
  BY DEF TermIInv, AgentsOK
<1>2. AgentsOK'
  BY <1>1, AgentsStep, AgentsDiffer DEF AgentsOK
<1> QED BY <1>2 DEF TermIInv

\* A step that leaves the sessions alone, and the ones to stop.
LEMMA QuietStep ==
  ASSUME TermIInv, services' \in Seq(BOOLEAN), Len(services') = Len(services),
         registry' = registry, sessions' = sessions, DOMAIN stopping' = Agents,
         \A b \in Agents : stopping'[b] = stopping[b]
  PROVE  /\ SessionsOK' /\ RegisteredRuns' /\ NoShellIsForgotten'
         /\ Len(services) <= Len(services') /\ Len(sessions) <= Len(sessions')
         /\ LocksKept
         /\ \A b \in Agents : stopping'[b] \subseteq stopping[b]
<1>1. \A s \in Ids : Attended(s)'
  BY DEF TermIInv, SessionsOK, Attended, BeingStopped
<1>2. SessionsOK' /\ RegisteredRuns' /\ NoShellIsForgotten'
  BY <1>1, SessionsStep DEF TermIInv, SessionsOK, Ids
<1>3. Len(services) <= Len(services') /\ Len(sessions) <= Len(sessions')
  BY DEF TermIInv, SessionsOK
<1> QED BY <1>2, <1>3 DEF LocksKept

\* One session's record changes, in a way that moves it nowhere; its process may end, and
\* so may its reader then or when the session is exiting.
LEMMA SessionChanges ==
  ASSUME TermIInv, NEW s \in Ids, NEW new \in Session, sessions' = [sessions EXCEPT ![s] = new],
         UNCHANGED <<services, registry, stopping>>,
         new.svc = sessions[s].svc, new.in_map = sessions[s].in_map,
         new.process => sessions[s].process, sessions[s].astray => new.astray,
         new.process /\ ~new.astray =>
           /\ new.child = "session"
           /\ new.reader \/ new.exiting
           /\ new.exiting => \E a \in Agents : new.lock = a /\ s \in stopping[a],
         new.exiting => sessions[s].exiting \/ \E a \in Agents : s \in stopping[a],
         \A d \in TermConns :
           sessions[s].lock = Conn(d) /\ conns[d].pc = "data" /\ conns'[d] = conns[d]
             => new.lock = Conn(d)
  PROVE  /\ SessionsOK' /\ RegisteredRuns' /\ NoShellIsForgotten'
         /\ Len(sessions') = Len(sessions) /\ sessions'[s] = new
         /\ LocksKept
<1>1. SessionsOK /\ sessions \in Seq(Session) /\ services \in Seq(BOOLEAN) /\ s \in 1 .. Len(sessions)
  BY DEF TermIInv, SessionsOK, Ids
<1>2. /\ sessions' \in Seq(Session) /\ Len(sessions') = Len(sessions) /\ sessions'[s] = new
      /\ \A x \in 1 .. Len(sessions) : x # s => sessions'[x] = sessions[x]
  BY <1>1, Replaced
<1>3. \A x \in Ids : x # s => sessions'[x] = sessions[x]
  BY <1>2 DEF Ids
<1>4. ASSUME NEW x \in Ids
      PROVE  /\ sessions'[x].svc = sessions[x].svc
             /\ sessions'[x].in_map => sessions[x].in_map
             /\ sessions'[x].process => sessions[x].process
             /\ sessions[x].astray => sessions'[x].astray
             /\ Attended(x)'
             /\ sessions'[x].exiting => sessions[x].exiting \/ \E a \in Agents : x \in stopping[a]
             /\ sessions[x].in_map => sessions'[x].in_map
  <2>1. CASE x = s
    <3>1. Attended(x)'
      BY <1>2, <2>1 DEF Attended, BeingStopped
    <3> QED BY <1>2, <2>1, <3>1, Zenon
  <2>2. CASE x # s
    <3>1. sessions'[x] = sessions[x]
      BY <1>3, <2>2
    <3>2. Attended(x)'
      BY <1>1, <3>1 DEF SessionsOK, Attended, BeingStopped
    <3> QED BY <3>1, <3>2, Zenon
  <2> QED BY <2>1, <2>2
<1>5. SessionsOK' /\ RegisteredRuns' /\ NoShellIsForgotten'
  <2>1. /\ DOMAIN stopping' = Agents /\ services' \in Seq(BOOLEAN)
        /\ Len(services') = Len(services) /\ registry' = registry
    BY <1>1 DEF SessionsOK
  <2>2. /\ \A a \in Agents : \A x \in stopping'[a] : x \in Ids /\ x \in stopping[a]
        /\ \A a \in Agents : \A x \in stopping[a] : x \in stopping'[a]
    BY <1>1 DEF SessionsOK
  <2> QED BY <1>2, <1>4, <2>1, <2>2, SessionsStep
<1>6. LocksKept
  BY <1>2, <1>3 DEF LocksKept
<1> QED BY <1>2, <1>5, <1>6

\* The flag of the service.
LEMMA PersistentKeeps ==
  ASSUME TermIInv, NEW c \in TermConns, NEW persistent \in BOOLEAN, SetPersistent(c, persistent)
  PROVE  TermIInv'
<1>1. /\ services \in Seq(BOOLEAN) /\ registry \in 1 .. Len(services)
      /\ services' = [services EXCEPT ![registry] = persistent]
      /\ UNCHANGED <<registry, sessions, conns, threads, janitor, stopping>>
      /\ DOMAIN stopping = Agents
  BY DEF TermIInv, SessionsOK, SetPersistent
<1>2. services' \in Seq(BOOLEAN) /\ Len(services') = Len(services)
  BY <1>1, Replaced
<1> QED BY <1>1, <1>2, QuietStep, NobodyActs

\* An action looks the service up.
LEMMA GetKeeps ==
  ASSUME TermIInv, NEW c \in TermConns, NEW action, NEW t \in Terminals, GetService(c, action, t)
  PROVE  TermIInv'
<1>1. /\ services \in Seq(BOOLEAN) /\ registry \in 1 .. Len(services)
      /\ UNCHANGED <<registry, services, sessions, threads, janitor, stopping>>
      /\ DOMAIN stopping = Agents /\ DOMAIN conns = TermConns
      /\ stopping[Conn(c)] = {}
      /\ conns' = [conns EXCEPT ![c] = [pc |-> "acting", action |-> action, terminal |-> t,
                                        svc |-> registry]]
  BY DEF TermIInv, SessionsOK, AgentsOK, GetService, Ready
<1>2. /\ DOMAIN conns' = TermConns /\ \A d \in TermConns : d # c => conns'[d] = conns[d]
      /\ conns'[c].pc = "acting" /\ conns'[c].terminal = t /\ conns'[c].svc = registry
  BY <1>1
<1>3. ConnOK(c)'
  BY <1>1, <1>2 DEF ConnOK
<1> QED BY <1>1, <1>2, <1>3, QuietStep, ConnActs

\* A connection ends.
LEMMA EndKeeps ==
  ASSUME TermIInv, NEW c \in TermConns, DropConnection(c) \/ Joined(c)
  PROVE  TermIInv'
<1>1. /\ services \in Seq(BOOLEAN)
      /\ UNCHANGED <<registry, services, sessions, threads, janitor, stopping>>
      /\ DOMAIN stopping = Agents /\ DOMAIN conns = TermConns
      /\ stopping[Conn(c)] = {}
      /\ conns' = [conns EXCEPT ![c] = [pc |-> "joining"]] \/ conns' = [conns EXCEPT ![c] = [pc |-> "gone"]]
  BY DEF TermIInv, SessionsOK, AgentsOK, DropConnection, Joined, Ready, ConnOK
<1>2. /\ DOMAIN conns' = TermConns /\ \A d \in TermConns : d # c => conns'[d] = conns[d]
      /\ conns'[c].pc \in {"joining", "gone"}
  BY <1>1
<1>3. ConnOK(c)'
  BY <1>1, <1>2 DEF ConnOK
<1> QED BY <1>1, <1>2, <1>3, QuietStep, ConnActs

\* A terminal is opened: the session belongs to the registered service, or the connection
\* stops it at once.
LEMMA OpenedKeeps ==
  ASSUME TermIInv, NEW c \in TermConns, HandleOpen(c)
  PROVE  TermIInv'
<1>1. /\ services \in Seq(BOOLEAN) /\ sessions \in Seq(Session)
      /\ UNCHANGED <<registry, services, threads, janitor>>
      /\ DOMAIN stopping = Agents /\ DOMAIN conns = TermConns
      /\ stopping[Conn(c)] = {} /\ conns[c].svc \in 1 .. Len(services)
      /\ conns[c].terminal \in Terminals /\ SessionsOK /\ RegisteredRuns /\ NoShellIsForgotten
  BY DEF TermIInv, SessionsOK, AgentsOK, HandleOpen, ConnOK
<1>2. PICK dropped : /\ ActionOver(c, dropped)
                     /\ \/ sessions' = sessions /\ dropped = {}
                        \/ /\ sessions' = Append(sessions, NewSession(conns[c].svc, conns[c].terminal))
                           /\ dropped = Orphans(c, {Len(sessions')})
                        \/ /\ sessions' = Append(sessions, SpawnedOnly(conns[c].svc, conns[c].terminal))
                           /\ dropped = {}
  BY DEF HandleOpen
<1>3. /\ DOMAIN conns' = TermConns /\ \A d \in TermConns : d # c => conns'[d] = conns[d]
      /\ conns'[c].pc = "open"
      /\ DOMAIN stopping' = Agents /\ \A b \in Agents : b # Conn(c) => stopping'[b] = stopping[b]
      /\ stopping'[Conn(c)] = dropped
  BY <1>1, <1>2, AgentsDiffer DEF ActionOver
<1>4. ConnOK(c)'
  BY <1>3 DEF ConnOK
<1>5. CASE sessions' = sessions /\ dropped = {}
  <2>1. \A b \in Agents : stopping'[b] = stopping[b]
    BY <1>1, <1>3, <1>5
  <2> QED BY <1>1, <1>3, <1>4, <1>5, <2>1, QuietStep, ConnActs
<1>6. ASSUME NEW new \in Session, sessions' = Append(sessions, new), new.svc = conns[c].svc,
             ~new.exiting,
             new.process /\ ~new.astray => new.child = "session" /\ new.reader /\ new.in_map,
             dropped = IF new.in_map THEN Orphans(c, {Len(sessions')}) ELSE {}
      PROVE  TermIInv'
  <2> DEFINE n == Len(sessions) + 1
  <2>1. /\ sessions' \in Seq(Session) /\ Len(sessions') = n /\ sessions'[n] = new
        /\ \A j \in 1 .. Len(sessions) : sessions'[j] = sessions[j]
        /\ Len(sessions) \in Nat
    BY <1>1, <1>6, Appended
  <2>2. Ids' = Ids \cup {n} /\ \A s \in Ids : sessions'[s] = sessions[s] /\ s # n
    BY <2>1 DEF Ids
  <2>3. dropped = IF new.in_map /\ conns[c].svc # registry THEN {n} ELSE {}
    BY <1>6, <2>1 DEF Orphans
  <2> HIDE DEF n
  <2>4. \A b \in Agents : stopping[b] \subseteq stopping'[b]
    BY <1>1, <1>3
  <2>5. SessionsOK'
    <3>1. ASSUME NEW s \in Ids' PROVE sessions'[s].svc \in 1 .. Len(services') /\ Attended(s)'
      <4>1. CASE s = n
        BY <1>1, <1>6, <2>1, <4>1 DEF Attended
      <4>2. CASE s \in Ids
        BY <1>1, <2>2, <2>4, <4>2 DEF SessionsOK, Attended, BeingStopped
      <4> QED BY <2>2, <4>1, <4>2
    <3>2. \A a \in Agents : stopping'[a] \subseteq Ids'
      BY <1>1, <1>3, <2>2, <2>3 DEF SessionsOK
    <3> QED BY <1>1, <1>3, <2>1, <3>1, <3>2 DEF SessionsOK
  <2>6. \A a \in Agents : n \notin stopping[a]
    BY <1>1, <2>2 DEF SessionsOK
  <2>7. RegisteredRuns'
    <3> SUFFICES ASSUME NEW s \in Ids', sessions'[s].in_map, sessions'[s].svc = registry
                 PROVE  ~sessions'[s].exiting /\ \A a \in Agents : s \notin stopping'[a]
      BY <1>1 DEF RegisteredRuns
    <3>1. CASE s = n
      BY <1>1, <1>3, <1>6, <2>1, <2>3, <2>6, <3>1
    <3>2. CASE s \in Ids
      BY <1>1, <1>3, <2>2, <2>3, <3>2 DEF RegisteredRuns
    <3> QED BY <2>2, <3>1, <3>2
  <2>8. NoShellIsForgotten'
    <3> SUFFICES ASSUME NEW s \in Ids', sessions'[s].process, ~sessions'[s].astray
                 PROVE  /\ sessions'[s].child = "session"
                        /\ \/ sessions'[s].in_map /\ sessions'[s].svc = registry
                           \/ \E a \in Agents : s \in stopping'[a]
      BY <1>1 DEF NoShellIsForgotten, Held
    <3>1. CASE s = n
      BY <1>1, <1>3, <1>6, <2>1, <2>3, <3>1, AgentsDiffer
    <3>2. CASE s \in Ids
      BY <1>1, <1>3, <2>2, <2>4, <3>2 DEF NoShellIsForgotten, Held
    <3> QED BY <2>2, <3>1, <3>2
  <2>9. Len(services) <= Len(services') /\ Len(sessions) <= Len(sessions')
    BY <1>1, <2>1 DEF n
  <2>10. LocksKept
    BY <2>2 DEF LocksKept
  <2> QED BY <1>1, <1>3, <1>4, <2>5, <2>7, <2>8, <2>9, <2>10, ConnActs
<1>7. CASE /\ sessions' = Append(sessions, NewSession(conns[c].svc, conns[c].terminal))
           /\ dropped = Orphans(c, {Len(sessions')})
  <2> DEFINE new == NewSession(conns[c].svc, conns[c].terminal)
  <2>1. new \in Session /\ new.svc = conns[c].svc /\ new.reader /\ new.child = "session"
        /\ ~new.exiting /\ new.in_map
    BY <1>1 DEF NewSession, Session, Nobody
  <2> HIDE DEF new
  <2> QED BY <1>6, <1>7, <2>1 DEF new
<1>8. CASE /\ sessions' = Append(sessions, SpawnedOnly(conns[c].svc, conns[c].terminal))
           /\ dropped = {}
  <2> DEFINE new == SpawnedOnly(conns[c].svc, conns[c].terminal)
  <2>1. new \in Session /\ new.svc = conns[c].svc /\ new.astray /\ ~new.exiting /\ ~new.in_map
    <3> DEFINE old == NewSession(conns[c].svc, conns[c].terminal)
    <3>1. old \in Session /\ old.svc = conns[c].svc /\ ~old.exiting
      BY <1>1 DEF NewSession, Session, Nobody
    <3>2. new = [old EXCEPT !.in_map = FALSE, !.input_tx = FALSE, !.pty_pair = FALSE,
                            !.reader = FALSE, !.writer = FALSE, !.child = "dropped",
                            !.astray = TRUE]
      BY DEF SpawnedOnly
    <3> HIDE DEF new, old
    <3> QED BY <3>1, <3>2 DEF Session
  <2> HIDE DEF new
  <2> QED BY <1>6, <1>8, <2>1 DEF new
<1> QED BY <1>2, <1>5, <1>7, <1>8

\* Input for a terminal.
LEMMA DataKeeps ==
  ASSUME TermIInv, NEW c \in TermConns, HandleData(c)
  PROVE  TermIInv'
<1>1. /\ services \in Seq(BOOLEAN) /\ sessions \in Seq(Session) /\ SessionsOK
      /\ UNCHANGED <<registry, services, threads, janitor, stopping>>
      /\ DOMAIN stopping = Agents /\ DOMAIN conns = TermConns /\ stopping[Conn(c)] = {}
      /\ Conn(c) \in Agents
  BY AgentsDiffer DEF TermIInv, SessionsOK, AgentsOK, HandleData, ConnOK
<1>2. CASE sessions' = sessions /\ conns' = [conns EXCEPT ![c] = [pc |-> "open"]]
  <2>1. /\ DOMAIN conns' = TermConns /\ \A d \in TermConns : d # c => conns'[d] = conns[d]
        /\ ConnOK(c)'
    BY <1>1, <1>2 DEF ConnOK
  <2> QED BY <1>1, <1>2, <2>1, QuietStep, ConnActs
<1>3. ASSUME NEW s \in Ids, sessions[s].lock = <<Nobody>>,
             sessions' = [sessions EXCEPT ![s].lock = Conn(c)],
             conns' = [conns EXCEPT ![c] = [pc |-> "data", session |-> s]]
      PROVE  TermIInv'
  <2> DEFINE new == [sessions[s] EXCEPT !.lock = Conn(c)]
  <2>1. sessions[s] \in Session /\ s \in DOMAIN sessions
    BY <1>1 DEF Ids
  <2>2. /\ new \in Session /\ new.svc = sessions[s].svc /\ new.in_map = sessions[s].in_map
        /\ new.process = sessions[s].process /\ new.child = sessions[s].child
        /\ new.reader = sessions[s].reader /\ new.exiting = sessions[s].exiting
        /\ new.astray = sessions[s].astray /\ new.lock = Conn(c)
    BY <1>1, <2>1 DEF Session
  <2>3. sessions' = [sessions EXCEPT ![s] = new]
    BY <1>3
  <2>4. /\ sessions[s].process /\ ~sessions[s].astray =>
             sessions[s].child = "session" /\ sessions[s].reader /\ ~sessions[s].exiting
        /\ \A d \in TermConns : sessions[s].lock # Conn(d)
    <3>1. sessions[s].lock \notin Agents /\ \A d \in TermConns : Conn(d) \in Agents
      BY <1>3, AgentsDiffer
    <3>2. Attended(s)
      BY <1>1 DEF SessionsOK
    <3> QED BY <3>1, <3>2 DEF Attended, BeingStopped
  <2> HIDE DEF new
  <2>5. /\ SessionsOK' /\ RegisteredRuns' /\ NoShellIsForgotten'
        /\ Len(sessions') = Len(sessions) /\ sessions'[s] = new
        /\ LocksKept
    BY <1>1, <2>2, <2>3, <2>4, SessionChanges
  <2>6. /\ DOMAIN conns' = TermConns /\ \A d \in TermConns : d # c => conns'[d] = conns[d]
        /\ conns'[c].pc = "data" /\ conns'[c].session = s
    BY <1>1, <1>3
  <2>7. ConnOK(c)'
    <3>1. s \in Ids' /\ sessions'[s].lock = Conn(c)
      BY <1>1, <2>2, <2>5 DEF Ids
    <3> QED BY <1>1, <2>6, <3>1 DEF ConnOK
  <2>8. Len(services) <= Len(services') /\ Len(sessions) <= Len(sessions')
    BY <1>1, <2>5
  <2> QED BY <1>1, <2>5, <2>6, <2>7, <2>8, ConnActs
<1>4. \A s \in Existing(c) : s \in Ids
  BY DEF Existing, SessionsOf
<1> QED BY <1>2, <1>3, <1>4 DEF HandleData

\* What is in the channel is a number.
LEMMA SentIsNat ==
  ASSUME SessionsOK, NEW s \in Ids
  PROVE  sessions[s] \in Session /\ Sent(s) \in Nat
<1>1. sessions[s] \in Session
  BY DEF SessionsOK, Ids
<1>2. sessions[s].input \in Nat
  BY <1>1 DEF Session
<1> QED BY <1>1, <1>2 DEF Sent

\* The channel takes the input.
LEMMA SentKeeps ==
  ASSUME TermIInv, NEW c \in TermConns, DataSent(c)
  PROVE  TermIInv'
<1> DEFINE s == conns[c].session
<1>1. /\ services \in Seq(BOOLEAN) /\ sessions \in Seq(Session) /\ SessionsOK
      /\ UNCHANGED <<registry, services, threads, janitor, stopping>>
      /\ DOMAIN stopping = Agents /\ DOMAIN conns = TermConns /\ s \in Ids
      /\ sessions[s].lock = Conn(c) /\ stopping[Conn(c)] = {}
      /\ sessions' = [sessions EXCEPT ![s].input = Sent(s), ![s].lock = <<Nobody>>]
      /\ conns' = [conns EXCEPT ![c] = [pc |-> "open"]]
  BY DEF TermIInv, SessionsOK, AgentsOK, DataSent, ConnOK
<1> HIDE DEF s
<1> DEFINE new == [sessions[s] EXCEPT !.input = Sent(s), !.lock = <<Nobody>>]
<1>2. sessions[s] \in Session /\ Sent(s) \in Nat
  BY <1>1, SentIsNat
<1>3. /\ new \in Session /\ new.svc = sessions[s].svc /\ new.in_map = sessions[s].in_map
      /\ new.process = sessions[s].process /\ new.child = sessions[s].child
      /\ new.reader = sessions[s].reader /\ new.exiting = sessions[s].exiting
      /\ new.astray = sessions[s].astray
  BY <1>2 DEF Session, Nobody
<1>4. sessions' = [sessions EXCEPT ![s] = new]
  BY <1>1
<1>5. /\ sessions[s].process /\ ~sessions[s].astray =>
           sessions[s].child = "session" /\ sessions[s].reader /\ ~sessions[s].exiting
      /\ \A d \in TermConns : sessions[s].lock = Conn(d) => d = c
      /\ conns'[c] # conns[c]
  <2>1. /\ \A d \in TermConns : sessions[s].lock = Conn(d) => d = c
        /\ Conn(c) \in Agents
    BY <1>1, AgentsDiffer
  <2>2. conns[c].pc = "data" /\ conns'[c].pc = "open"
    BY <1>1 DEF DataSent
  <2> QED BY <1>1, <2>1, <2>2 DEF SessionsOK, Attended, BeingStopped
<1> HIDE DEF new
<1>6. /\ SessionsOK' /\ RegisteredRuns' /\ NoShellIsForgotten'
      /\ Len(sessions') = Len(sessions)
      /\ LocksKept
  <2>1. \A d \in TermConns :
          sessions[s].lock = Conn(d) /\ conns[d].pc = "data" /\ conns'[d] = conns[d]
            => new.lock = Conn(d)
    BY <1>5, Zenon
  <2>2. new.process /\ ~new.astray =>
           /\ new.child = "session"
           /\ new.reader \/ new.exiting
           /\ new.exiting => \E a \in Agents : new.lock = a /\ s \in stopping[a]
    BY <1>3, <1>5
  <2>3. s \in Ids /\ UNCHANGED <<services, registry, stopping>>
    BY <1>1
  <2>4. new \in Session /\ new.svc = sessions[s].svc /\ new.in_map = sessions[s].in_map
    BY <1>3
  <2>5. /\ new.process => sessions[s].process
        /\ sessions[s].astray => new.astray
        /\ new.exiting => sessions[s].exiting \/ \E a \in Agents : s \in stopping[a]
    BY <1>3, Zenon
  <2> QED BY <1>4, <2>1, <2>2, <2>3, <2>4, <2>5, SessionChanges
<1>7. /\ DOMAIN conns' = TermConns /\ \A d \in TermConns : d # c => conns'[d] = conns[d]
      /\ conns'[c].pc = "open"
  BY <1>1
<1>8. ConnOK(c)'
  BY <1>7 DEF ConnOK
<1>9. Len(services) <= Len(services') /\ Len(sessions) <= Len(sessions')
  BY <1>1, <1>6
<1> QED BY <1>1, <1>6, <1>7, <1>8, <1>9, ConnActs

\* A child that is killed has ended, unless the call failed.
LEMMA KilledOnce ==
  ASSUME NEW r \in Session, NEW other \in {"reaper", "dropped"}, NEW k \in Killed(r, other),
         r.process /\ ~r.astray => r.child = "session"
  PROVE  /\ k \in Session /\ k.svc = r.svc /\ k.exiting = r.exiting /\ k.lock = r.lock
         /\ k.in_map = r.in_map /\ k.reader = r.reader
         /\ k.process => r.process /\ k.astray
         /\ r.astray => k.astray
<1>1. CASE r.child # "session" /\ k = r
  BY <1>1 DEF Session
<1>2. CASE k = [r EXCEPT !.child = "reaper", !.process = FALSE]
  BY <1>2 DEF Session
<1>3. CASE k = [r EXCEPT !.child = other, !.astray = TRUE]
  BY <1>3 DEF Session
<1> QED BY <1>1, <1>2, <1>3 DEF Killed

\* A terminal is closed: it leaves the service, and the connection stops its threads.
LEMMA ClosedKeeps ==
  ASSUME TermIInv, NEW c \in TermConns, HandleClose(c)
  PROVE  TermIInv'
<1>1. /\ services \in Seq(BOOLEAN) /\ sessions \in Seq(Session) /\ SessionsOK
      /\ UNCHANGED <<registry, services, threads, janitor>>
      /\ DOMAIN stopping = Agents /\ DOMAIN conns = TermConns /\ stopping[Conn(c)] = {}
      /\ Conn(c) \in Agents
  BY AgentsDiffer DEF TermIInv, SessionsOK, AgentsOK, HandleClose, ConnOK
<1>2. PICK dropped : ActionOver(c, dropped)
                     /\ \/ sessions' = sessions /\ dropped = {}
                        \/ \E s \in Existing(c) :
                             /\ dropped = {s} /\ sessions[s].lock = <<Nobody>>
                             /\ \E k \in Killed(sessions[s], "dropped") :
                                  sessions' = [sessions EXCEPT ![s] = [k EXCEPT !.in_map = FALSE]]
  BY DEF HandleClose
<1>3. /\ DOMAIN conns' = TermConns /\ \A d \in TermConns : d # c => conns'[d] = conns[d]
      /\ conns'[c].pc = "open"
      /\ DOMAIN stopping' = Agents /\ \A b \in Agents : b # Conn(c) => stopping'[b] = stopping[b]
      /\ stopping'[Conn(c)] = dropped
  BY <1>1, <1>2 DEF ActionOver
<1>4. ConnOK(c)'
  BY <1>3 DEF ConnOK
<1>5. CASE sessions' = sessions /\ dropped = {}
  <2>1. \A b \in Agents : stopping'[b] = stopping[b]
    BY <1>1, <1>3, <1>5
  <2> QED BY <1>1, <1>3, <1>4, <1>5, <2>1, QuietStep, ConnActs
<1>6. ASSUME NEW s \in Existing(c), dropped = {s}, sessions[s].lock = <<Nobody>>,
             NEW k \in Killed(sessions[s], "dropped"),
             sessions' = [sessions EXCEPT ![s] = [k EXCEPT !.in_map = FALSE]]
      PROVE  TermIInv'
  <2> DEFINE new == [k EXCEPT !.in_map = FALSE]
  <2>1. sessions[s] \in Session /\ s \in Ids /\ s \in 1 .. Len(sessions) /\ Attended(s)
    BY <1>1 DEF Existing, SessionsOf, Ids, SessionsOK
  <2>2. /\ k \in Session /\ k.svc = sessions[s].svc /\ k.exiting = sessions[s].exiting
        /\ k.lock = sessions[s].lock
        /\ k.process => sessions[s].process /\ k.astray
        /\ sessions[s].astray => k.astray
    <3>1. "dropped" \in {"reaper", "dropped"}
      OBVIOUS
    <3> QED BY <1>6, <2>1, <3>1, KilledOnce DEF Attended
  <2>3. /\ new \in Session /\ new.svc = k.svc /\ ~new.in_map /\ new.process = k.process
        /\ new.exiting = k.exiting /\ new.astray = k.astray /\ new.lock = k.lock
    BY <2>2 DEF Session
  <2> HIDE DEF new
  <2>4. /\ sessions' \in Seq(Session) /\ Len(sessions') = Len(sessions) /\ sessions'[s] = new
        /\ \A x \in 1 .. Len(sessions) : x # s => sessions'[x] = sessions[x]
    BY <1>1, <1>6, <2>1, <2>3, Replaced DEF new
  <2>5. \A x \in Ids : x # s => sessions'[x] = sessions[x]
    BY <2>4 DEF Ids
  <2>6. \A b \in Agents : stopping[b] \subseteq stopping'[b]
    BY <1>1, <1>3
  <2>7. ASSUME NEW x \in Ids
        PROVE  /\ sessions'[x].svc = sessions[x].svc
               /\ sessions'[x].in_map => sessions[x].in_map
               /\ sessions'[x].process => sessions[x].process
               /\ sessions[x].astray => sessions'[x].astray
               /\ Attended(x)'
               /\ sessions'[x].exiting => sessions[x].exiting
               /\ sessions[x].in_map /\ sessions'[x].process /\ ~sessions'[x].astray
                    => sessions'[x].in_map
    <3>1. CASE x = s
      <4>1. sessions'[x].process => sessions'[x].astray
        BY <2>2, <2>3, <2>4, <3>1
      <4>2. Attended(x)'
        BY <4>1 DEF Attended
      <4> QED BY <2>2, <2>3, <2>4, <3>1, <4>1, <4>2
    <3>2. CASE x # s
      <4>1. sessions'[x] = sessions[x]
        BY <2>5, <3>2
      <4>2. Attended(x)'
        BY <1>1, <2>6, <4>1 DEF SessionsOK, Attended, BeingStopped
      <4> QED BY <4>1, <4>2
    <3> QED BY <3>1, <3>2
  <2>8. /\ \A a \in Agents : \A x \in stopping'[a] :
             x \in Ids /\ (x \in stopping[a] \/ ~sessions'[x].in_map)
        /\ \A a \in Agents : \A x \in stopping[a] : x \in stopping'[a]
    BY <1>1, <1>3, <1>6, <2>1, <2>3, <2>4 DEF SessionsOK
  <2>9. SessionsOK' /\ RegisteredRuns' /\ NoShellIsForgotten'
    BY <1>1, <1>3, <2>4, <2>7, <2>8, SessionsStep
  <2>10. Len(services) <= Len(services') /\ Len(sessions) <= Len(sessions')
    BY <1>1, <2>4
  <2>11. LocksKept
    BY <2>2, <2>3, <2>4, <2>5 DEF LocksKept
  <2> QED BY <1>1, <1>3, <1>4, <2>9, <2>10, <2>11, ConnActs
<1> QED BY <1>2, <1>5, <1>6

\* A service thread enters and leaves its loop.
LEMMA RunKeeps ==
  ASSUME TermIInv, NEW c \in TermConns,
         \/ EnterRun(c) \/ ExitRun(c)
         \/ ReadOutputs(c) /\ sessions' = sessions /\ threads' = [threads EXCEPT ![c] = [pc |-> "exit"]]
  PROVE  TermIInv'
<1>1. /\ services \in Seq(BOOLEAN) /\ DOMAIN stopping = Agents /\ DOMAIN threads = TermConns
      /\ UNCHANGED <<registry, services, sessions, conns, janitor, stopping>>
      /\ stopping[Thread(c)] = {} /\ conns[c].pc # "none"
  BY DEF TermIInv, SessionsOK, AgentsOK, ThreadOK, EnterRun, ExitRun, ReadOutputs
<1>2. PICK p \in {"loop", "done", "exit", "remove"} : threads' = [threads EXCEPT ![c] = [pc |-> p]]
  BY DEF EnterRun, ExitRun, SetThread
<1>3. /\ DOMAIN threads' = TermConns /\ \A d \in TermConns : d # c => threads'[d] = threads[d]
      /\ threads'[c].pc = p
  BY <1>1, <1>2
<1>4. ThreadOK(c)'
  BY <1>1, <1>3 DEF ThreadOK
<1> QED BY <1>1, <1>3, <1>4, QuietStep, ThreadActs

\* A turn of the loop finds sessions that have ended.
LEMMA TurnKeeps ==
  ASSUME TermIInv, NEW c \in TermConns, ReadOutputs(c), threads'[c].pc # "exit"
  PROVE  TermIInv'
<1> DEFINE ended == {s \in SessionsOf(registry) : /\ sessions[s].lock = <<Nobody>>
                                                  /\ ~sessions[s].closed_message_sent
                                                  /\ ~sessions[s].reader}
           t == [pc |-> "closing", svc |-> registry,
                 closed |-> {sessions[s].terminal : s \in ended},
                 persistent |-> services[registry]]
<1>1. /\ services \in Seq(BOOLEAN) /\ DOMAIN stopping = Agents /\ DOMAIN threads = TermConns
      /\ sessions \in Seq(Session) /\ SessionsOK /\ RegisteredRuns
      /\ UNCHANGED <<registry, services, conns, janitor, stopping>>
      /\ stopping[Thread(c)] = {} /\ conns[c].pc # "none"
  BY DEF TermIInv, SessionsOK, AgentsOK, ThreadOK, ReadOutputs
<1>2. /\ threads' = [threads EXCEPT ![c] = t]
      /\ sessions' = [s \in Ids |-> IF s \in ended
                                    THEN [sessions[s] EXCEPT !.closed_message_sent = TRUE]
                                    ELSE sessions[s]]
  <2>1. ~SetThread(c, [pc |-> "exit"])
    BY <1>1 DEF SetThread
  <2> QED BY <2>1, Zenon DEF ReadOutputs, SetThread
<1>4. t.pc = "closing"
  OBVIOUS
<1> HIDE DEF ended, t
<1>5. \A s \in Ids : sessions[s] \in Session
                     /\ [sessions[s] EXCEPT !.closed_message_sent = TRUE] \in Session
  <2>1. \A s \in Ids : sessions[s] \in Session
    BY <1>1 DEF Ids
  <2>2. \A r \in Session : [r EXCEPT !.closed_message_sent = TRUE] \in Session
    BY DEF Session
  <2> QED BY <2>1, <2>2
<1>6. sessions' \in [1 .. Len(sessions) -> Session]
  BY <1>2, <1>5 DEF Ids
<1>7. sessions' \in Seq(Session) /\ Len(sessions') = Len(sessions)
  BY <1>1, <1>6, Mapped
<1>8. \A s \in Ids : /\ sessions'[s].svc = sessions[s].svc
                     /\ sessions'[s].in_map = sessions[s].in_map
                     /\ sessions'[s].process = sessions[s].process
                     /\ sessions'[s].child = sessions[s].child
                     /\ sessions'[s].reader = sessions[s].reader
                     /\ sessions'[s].exiting = sessions[s].exiting
                     /\ sessions'[s].astray = sessions[s].astray
                     /\ sessions'[s].lock = sessions[s].lock
  BY <1>2, <1>5 DEF Session
<1>9. SessionsOK' /\ RegisteredRuns' /\ NoShellIsForgotten'
  <2>1. \A s \in Ids : Attended(s)'
    BY <1>1, <1>8 DEF SessionsOK, Attended, BeingStopped
  <2>2. /\ \A a \in Agents : \A x \in stopping'[a] : x \in Ids /\ x \in stopping[a]
        /\ \A a \in Agents : \A x \in stopping[a] : x \in stopping'[a]
    BY <1>1 DEF SessionsOK
  <2> QED BY <1>1, <1>7, <1>8, <2>1, <2>2, SessionsStep
<1>10. /\ DOMAIN threads' = TermConns /\ \A d \in TermConns : d # c => threads'[d] = threads[d]
       /\ threads'[c] = t
  BY <1>1, <1>2
<1>11. ThreadOK(c)'
  BY <1>1, <1>4, <1>10 DEF ThreadOK
<1>12. Len(services) <= Len(services') /\ Len(sessions) <= Len(sessions')
  BY <1>1, <1>7
<1>13. LocksKept
  BY <1>8 DEF LocksKept
<1> QED BY <1>1, <1>9, <1>10, <1>11, <1>12, <1>13, ThreadActs

LEMMA CleaningIs ==
  ASSUME NEW t, NEW found
  PROVE  /\ Cleaning(t, found).pc \in {"loop", "cleaning"}
         /\ Cleaning(t, found).pc = "cleaning" => Cleaning(t, found).found = found
BY DEF Cleaning

\* The map is read again.
LEMMA CloneKeeps ==
  ASSUME TermIInv, NEW c \in TermConns, CloneSessions(c)
  PROVE  TermIInv'
<1> DEFINE t == threads[c]
           found == {s \in SessionsOf(t.svc) : sessions[s].terminal \in t.closed}
<1>1. /\ services \in Seq(BOOLEAN) /\ DOMAIN stopping = Agents /\ DOMAIN threads = TermConns
      /\ UNCHANGED <<registry, services, sessions, conns, janitor, stopping>>
      /\ stopping[Thread(c)] = {} /\ conns[c].pc # "none"
  BY DEF TermIInv, SessionsOK, AgentsOK, ThreadOK, CloneSessions
<1>2. found \subseteq Ids
  BY DEF SessionsOf
<1> DEFINE new == Cleaning(t, found)
<1>3. /\ threads' = [threads EXCEPT ![c] = new]
      /\ new.pc \in {"loop", "cleaning"}
      /\ new.pc = "cleaning" => new.found = found
  BY CleaningIs DEF CloneSessions, SetThread
<1> HIDE DEF new, found
<1>4. /\ DOMAIN threads' = TermConns /\ \A d \in TermConns : d # c => threads'[d] = threads[d]
      /\ threads'[c] = new
  BY <1>1, <1>3
<1>5. ThreadOK(c)'
  BY <1>1, <1>2, <1>3, <1>4 DEF ThreadOK, Ids
<1> QED BY <1>1, <1>4, <1>5, QuietStep, ThreadActs

\* What is found leaves a service that is not persistent, and the thread stops it; a child
\* is taken from a session whose reader has ended, or goes astray.
LEMMA CloseEndedKeeps ==
  ASSUME TermIInv, NEW c \in TermConns, CloseEnded(c)
  PROVE  TermIInv'
<1> DEFINE t == threads[c]
<1>1. /\ services \in Seq(BOOLEAN) /\ DOMAIN stopping = Agents /\ DOMAIN threads = TermConns
      /\ sessions \in Seq(Session) /\ SessionsOK
      /\ UNCHANGED <<registry, services, conns, janitor>>
      /\ stopping[Thread(c)] = {} /\ Thread(c) \in Agents /\ conns[c].pc # "none"
      /\ t.pc = "cleaning" /\ t.found \subseteq Ids
  BY AgentsDiffer DEF TermIInv, SessionsOK, AgentsOK, ThreadOK, CloseEnded
<1>2. PICK s \in t.found :
        LET removed == IF t.persistent THEN {}
                       ELSE {n \in SessionsOf(t.svc) : sessions[n].terminal = sessions[s].terminal}
            taken == sessions[s].child = "session"
        IN  /\ sessions[s].lock = <<Nobody>>
            /\ sessions' = [n \in Ids |->
                 [sessions[n] EXCEPT !.in_map = @ /\ n \notin removed,
                                     !.child = IF n = s /\ taken THEN "reaper" ELSE @,
                                     !.astray = @ \/ (n = s /\ taken /\ sessions[s].reader)]]
            /\ stopping' = [stopping EXCEPT ![Thread(c)] = removed]
            /\ SetThread(c, Cleaning(t, t.found \ {s}))
  BY DEF CloseEnded
<1> DEFINE removed == IF t.persistent THEN {}
                      ELSE {n \in SessionsOf(t.svc) : sessions[n].terminal = sessions[s].terminal}
           taken == sessions[s].child = "session"
           new == Cleaning(t, t.found \ {s})
<1>3. /\ removed \in SUBSET Ids /\ s \in Ids
      /\ new.pc \in {"loop", "cleaning"} /\ (new.pc = "cleaning" => new.found = t.found \ {s})
      /\ threads' = [threads EXCEPT ![c] = new]
  BY <1>1, <1>2, CleaningIs DEF SessionsOf, SetThread
<1> HIDE DEF t, removed, new
<1>4. \A n \in Ids : sessions[n] \in Session
  BY <1>1 DEF Ids
<1>5. ASSUME NEW n \in Ids
      PROVE  /\ sessions'[n] \in Session
             /\ sessions'[n].svc = sessions[n].svc
             /\ sessions'[n].in_map = (sessions[n].in_map /\ n \notin removed)
             /\ sessions'[n].process = sessions[n].process
             /\ sessions'[n].child = IF n = s /\ taken THEN "reaper" ELSE sessions[n].child
             /\ sessions'[n].reader = sessions[n].reader
             /\ sessions'[n].exiting = sessions[n].exiting
             /\ sessions'[n].lock = sessions[n].lock
             /\ sessions'[n].astray = (sessions[n].astray \/ (n = s /\ taken /\ sessions[s].reader))
  <2>1. PICK m \in BOOLEAN : m = (sessions[n].in_map /\ n \notin removed)
    OBVIOUS
  <2>2. PICK y \in BOOLEAN : y = (sessions[n].astray \/ (n = s /\ taken /\ sessions[s].reader))
    OBVIOUS
  <2>3. PICK h \in {"session", "reaper", "dropped"} :
          h = IF n = s /\ taken THEN "reaper" ELSE sessions[n].child
    BY <1>4 DEF Session
  <2>4. sessions'[n] = [sessions[n] EXCEPT !.in_map = m, !.child = h, !.astray = y]
    BY <1>2, <2>1, <2>2, <2>3, Zenon DEF removed
  <2>5. sessions[n] \in Session
    BY <1>4
  <2> DEFINE z == [sessions[n] EXCEPT !.in_map = m, !.child = h, !.astray = y]
  <2>6. /\ z \in Session /\ z.svc = sessions[n].svc /\ z.in_map = m /\ z.process = sessions[n].process
        /\ z.child = h /\ z.reader = sessions[n].reader /\ z.exiting = sessions[n].exiting
        /\ z.lock = sessions[n].lock /\ z.astray = y
    BY <2>5 DEF Session
  <2> HIDE DEF z
  <2>7. sessions'[n] = z
    BY <2>4 DEF z
  <2> QED BY <2>1, <2>2, <2>3, <2>6, <2>7, Zenon
<1>6. sessions' \in Seq(Session) /\ Len(sessions') = Len(sessions)
  <2>1. sessions' \in [1 .. Len(sessions) -> Session]
    BY <1>2, <1>5 DEF Ids
  <2> QED BY <1>1, <2>1, Mapped
<1>7. /\ DOMAIN stopping' = Agents /\ stopping'[Thread(c)] = removed
      /\ \A b \in Agents : b # Thread(c) => stopping'[b] = stopping[b]
      /\ \A b \in Agents : stopping[b] \subseteq stopping'[b]
      /\ DOMAIN threads' = TermConns /\ \A d \in TermConns : d # c => threads'[d] = threads[d]
      /\ threads'[c] = new
  BY <1>1, <1>2, <1>3 DEF removed
<1>8. ASSUME NEW n \in Ids PROVE Attended(n)'
  <2>1. Attended(n)
    BY <1>1 DEF SessionsOK
  <2>2. BeingStopped(n) => BeingStopped(n)'
    BY <1>5, <1>7 DEF BeingStopped
  <2>3. CASE n = s
    <3>1. ~BeingStopped(s)
      BY <1>2, AgentsDiffer DEF BeingStopped
    <3>2. sessions[s].process /\ ~sessions[s].astray => taken /\ sessions[s].reader
      BY <2>1, <2>3, <3>1 DEF Attended
    <3>3. ~(sessions'[s].process /\ ~sessions'[s].astray)
      BY <1>3, <1>5, <3>2
    <3> QED BY <2>3, <3>3 DEF Attended
  <2>4. CASE n # s
    BY <1>5, <2>1, <2>2, <2>4 DEF Attended
  <2> QED BY <2>3, <2>4
<1>9. SessionsOK' /\ RegisteredRuns' /\ NoShellIsForgotten'
  <2>1. \A n \in Ids : sessions[n].in_map => sessions'[n].in_map \/ n \in stopping'[Thread(c)]
    BY <1>5, <1>7
  <2>2. /\ \A a \in Agents : \A x \in stopping'[a] :
             x \in Ids /\ (x \in stopping[a] \/ ~sessions'[x].in_map)
        /\ \A a \in Agents : \A x \in stopping[a] : x \in stopping'[a]
    <3>1. \A x \in removed : x \in Ids /\ ~sessions'[x].in_map
      BY <1>3, <1>5
    <3>2. \A a \in Agents : stopping[a] \subseteq Ids
      BY <1>1 DEF SessionsOK
    <3> QED BY <1>7, <3>1, <3>2
  <2>3. \A n \in Ids :
           /\ sessions'[n].svc = sessions[n].svc
           /\ sessions'[n].in_map => sessions[n].in_map
           /\ sessions'[n].process => sessions[n].process
           /\ sessions[n].astray => sessions'[n].astray
           /\ sessions'[n].exiting => sessions[n].exiting
    BY <1>5
  <2> QED BY <1>1, <1>6, <1>7, <1>8, <2>1, <2>2, <2>3, SessionsStep
<1>10. ThreadOK(c)'
  BY <1>1, <1>3, <1>6, <1>7 DEF ThreadOK, Ids
<1>11. Len(services) <= Len(services') /\ Len(sessions) <= Len(sessions')
  BY <1>1, <1>6
<1>12. LocksKept
  BY <1>5 DEF LocksKept
<1> QED BY <1>1, <1>7, <1>9, <1>10, <1>11, <1>12, ThreadActs

\* remove_service: whoever removes the service takes over all its sessions.
LEMMA RemovalStep ==
  ASSUME TermIInv, NEW a \in Agents, stopping[a] = {}, RemoveService(a)
  PROVE  /\ SessionsOK' /\ RegisteredRuns' /\ NoShellIsForgotten'
         /\ Len(services) <= Len(services') /\ Len(sessions) <= Len(sessions')
         /\ LocksKept
         /\ conns' = conns /\ \A b \in Agents : b # a => stopping'[b] \subseteq stopping[b]
<1>1. /\ services \in Seq(BOOLEAN) /\ DOMAIN stopping = Agents
      /\ sessions \in Seq(Session) /\ SessionsOK /\ NoShellIsForgotten /\ stopping[a] = {}
      /\ UNCHANGED <<services, sessions, conns>>
  BY DEF TermIInv, SessionsOK, RemoveService
<1>2. CASE UNCHANGED <<registry, stopping>>
  BY <1>1, <1>2, QuietStep
<1>3. CASE registry' = 0 /\ stopping' = [stopping EXCEPT ![a] = SessionsOf(registry)]
  <2>1. DOMAIN stopping' = Agents /\ stopping'[a] = SessionsOf(registry)
        /\ \A b \in Agents : b # a => stopping'[b] = stopping[b]
    BY <1>1, <1>3
  <2>2. Ids' = Ids /\ SessionsOf(registry) \subseteq Ids
    BY <1>1 DEF Ids, SessionsOf
  <2>3. SessionsOK'
    <3>1. registry' \in 0 .. Len(services')
      BY <1>1, <1>3
    <3>2. \A s \in Ids : Attended(s)'
      <4>1. \A b \in Agents : stopping[b] \subseteq stopping'[b]
        BY <1>1, <2>1
      <4> QED BY <1>1, <4>1 DEF SessionsOK, Attended, BeingStopped
    <3> QED BY <1>1, <2>1, <2>2, <3>1, <3>2 DEF SessionsOK
  <2>4. RegisteredRuns'
    BY <1>1, <1>3, <2>2 DEF RegisteredRuns, SessionsOK
  <2>5. NoShellIsForgotten'
    <3> SUFFICES ASSUME NEW s \in Ids, sessions[s].process, ~sessions[s].astray
                 PROVE  \E b \in Agents : s \in stopping'[b]
      BY <1>1, <2>2 DEF NoShellIsForgotten, Held
    <3>1. \/ sessions[s].in_map /\ sessions[s].svc = registry
          \/ \E b \in Agents : s \in stopping[b]
      BY <1>1 DEF NoShellIsForgotten, Held
    <3> QED BY <2>1, <3>1 DEF SessionsOf
  <2>6. Len(services) <= Len(services') /\ Len(sessions) <= Len(sessions')
    BY <1>1
  <2> QED BY <1>1, <2>1, <2>3, <2>4, <2>5, <2>6 DEF LocksKept
<1> QED BY <1>2, <1>3 DEF RemoveService

\* A service thread removes the service and waits until its sessions are stopped,
LEMMA RunRemovesKeeps ==
  ASSUME TermIInv, NEW c \in TermConns, RunRemoves(c)
  PROVE  TermIInv'
<1>1. /\ services \in Seq(BOOLEAN) /\ DOMAIN stopping = Agents /\ DOMAIN threads = TermConns
      /\ Thread(c) \in Agents /\ janitor' = janitor /\ ThreadOK(c)
  BY AgentsDiffer DEF TermIInv, SessionsOK, AgentsOK, RunRemoves
<1>2. CASE threads[c].pc = "remove" /\ RemoveService(Thread(c)) /\ SetThread(c, [pc |-> "removing"])
  <2>1. stopping[Thread(c)] = {} /\ conns'[c].pc # "none"
    BY <1>1, <1>2 DEF ThreadOK, RemoveService
  <2>2. /\ DOMAIN threads' = TermConns /\ \A d \in TermConns : d # c => threads'[d] = threads[d]
        /\ threads'[c].pc = "removing"
    BY <1>1, <1>2 DEF SetThread
  <2>3. ThreadOK(c)'
    BY <2>1, <2>2 DEF ThreadOK
  <2> QED BY <1>1, <1>2, <2>1, <2>2, <2>3, RemovalStep, ThreadActs
<1>3. CASE threads[c].pc = "removing" /\ Removed(Thread(c)) /\ SetThread(c, [pc |-> "done"])
  <2>1. /\ stopping[Thread(c)] = {} /\ UNCHANGED <<registry, services, sessions, conns, stopping>>
        /\ conns'[c].pc # "none"
    BY <1>1, <1>3 DEF Removed, ThreadOK
  <2>2. /\ DOMAIN threads' = TermConns /\ \A d \in TermConns : d # c => threads'[d] = threads[d]
        /\ threads'[c].pc = "done"
    BY <1>1, <1>3 DEF SetThread
  <2>3. ThreadOK(c)'
    BY <2>1, <2>2 DEF ThreadOK
  <2> QED BY <1>1, <2>1, <2>2, <2>3, QuietStep, ThreadActs
<1> QED BY <1>2, <1>3 DEF RunRemoves

\* and so does the cleanup task.
LEMMA CleanupKeeps ==
  ASSUME TermIInv, CleanupInactive
  PROVE  TermIInv'
<1>1. /\ services \in Seq(BOOLEAN) /\ DOMAIN stopping = Agents /\ <<Cleanup>> \in Agents
      /\ JanitorOK
  BY AgentsDiffer DEF TermIInv, SessionsOK, AgentsOK
<1>2. CASE CleanupCollects
  <2>1. UNCHANGED <<registry, services, sessions, conns, threads, stopping>> /\ JanitorOK'
    BY <1>1, <1>2 DEF CleanupCollects, JanitorOK
  <2> QED BY <1>1, <2>1, QuietStep, JanitorActs
<1>3. CASE janitor = "collected" /\ RemoveService(<<Cleanup>>) /\ janitor' = "removing" /\ threads' = threads
  <2>1. stopping[<<Cleanup>>] = {} /\ JanitorOK'
    BY <1>1, <1>3 DEF JanitorOK
  <2> QED BY <1>1, <1>3, <2>1, RemovalStep, JanitorActs
<1>4. CASE Removed(<<Cleanup>>) /\ threads' = threads
  <2>1. /\ stopping[<<Cleanup>>] = {} /\ UNCHANGED <<registry, services, sessions, conns, stopping>>
        /\ JanitorOK'
    BY <1>4 DEF Removed, JanitorOK
  <2> QED BY <1>1, <1>4, <2>1, QuietStep, JanitorActs
<1> QED BY <1>2, <1>3, <1>4 DEF CleanupInactive

\* stop: begun, the newline sent, and the threads joined and the child killed.
LEMMA StopKeeps ==
  ASSUME TermIInv, NEW a \in Agents, NEW s \in Ids, StopBegins(a, s) \/ StopSends(a, s)
  PROVE  TermIInv'
<1>1. /\ services \in Seq(BOOLEAN) /\ sessions \in Seq(Session) /\ SessionsOK
      /\ UNCHANGED <<registry, services, conns, threads, janitor, stopping>>
      /\ s \in stopping[a] /\ sessions[s].lock \in {<<Nobody>>, a} /\ AgentsOK
  BY DEF TermIInv, SessionsOK, StopBegins, StopSends
<1>2. sessions[s] \in Session /\ Sent(s) \in Nat
  BY <1>1, SentIsNat
<1>3. PICK new \in Session :
        /\ sessions' = [sessions EXCEPT ![s] = new]
        /\ new.svc = sessions[s].svc /\ new.in_map = sessions[s].in_map
        /\ new.process = sessions[s].process /\ new.child = sessions[s].child
        /\ new.reader = sessions[s].reader /\ (sessions[s].exiting => new.exiting)
        /\ new.astray = sessions[s].astray /\ new.lock = a
  <2>1. CASE StopBegins(a, s)
    <3> DEFINE new == [sessions[s] EXCEPT !.lock = a, !.exiting = TRUE]
    <3>1. /\ new \in Session
          /\ new.svc = sessions[s].svc /\ new.in_map = sessions[s].in_map
          /\ new.process = sessions[s].process /\ new.child = sessions[s].child
          /\ new.reader = sessions[s].reader /\ new.exiting
          /\ new.astray = sessions[s].astray /\ new.lock = a
      BY <1>2 DEF Session
    <3>2. sessions' = [sessions EXCEPT ![s] = new]
      BY <2>1 DEF StopBegins
    <3> HIDE DEF new
    <3> QED BY <3>1, <3>2
  <2>2. CASE StopSends(a, s)
    <3> DEFINE new == [sessions[s] EXCEPT !.input = Sent(s), !.input_tx = FALSE, !.pty_pair = FALSE]
    <3>1. /\ new \in Session
          /\ new.svc = sessions[s].svc /\ new.in_map = sessions[s].in_map
          /\ new.process = sessions[s].process /\ new.child = sessions[s].child
          /\ new.reader = sessions[s].reader /\ new.exiting = sessions[s].exiting
          /\ new.astray = sessions[s].astray /\ new.lock = sessions[s].lock
      BY <1>2 DEF Session
    <3>2. sessions' = [sessions EXCEPT ![s] = new]
      BY <2>2 DEF StopSends
    <3> HIDE DEF new
    <3> QED BY <2>2, <3>1, <3>2 DEF StopSends
  <2> QED BY <2>1, <2>2
<1>4. /\ sessions[s].process /\ ~sessions[s].astray =>
           sessions[s].child = "session" /\ (sessions[s].reader \/ sessions[s].exiting)
      /\ \A d \in TermConns : conns[d].pc = "data" => sessions[s].lock # Conn(d)
  <2>1. \A d \in TermConns : sessions[s].lock = Conn(d) => a = Conn(d)
    BY <1>1, AgentsDiffer
  <2>2. \A d \in TermConns : conns[d].pc = "data" => stopping[Conn(d)] = {}
    BY <1>1 DEF AgentsOK, ConnOK
  <2> QED BY <1>1, <2>1, <2>2 DEF SessionsOK, Attended
<1>5. /\ SessionsOK' /\ RegisteredRuns' /\ NoShellIsForgotten'
      /\ Len(sessions') = Len(sessions)
      /\ LocksKept
  BY <1>1, <1>3, <1>4, SessionChanges
<1>6. Len(services) <= Len(services') /\ Len(sessions) <= Len(sessions')
  BY <1>1, <1>5
<1> QED BY <1>1, <1>5, <1>6, NobodyActs

\* stop ends; the session may be forgotten, for its process has been killed or went astray.
LEMMA JoinKeeps ==
  ASSUME TermIInv, NEW a \in Agents, NEW s \in Ids, StopJoins(a, s)
  PROVE  TermIInv'
<1>1. /\ services \in Seq(BOOLEAN) /\ sessions \in Seq(Session) /\ SessionsOK /\ AgentsOK
      /\ UNCHANGED <<registry, services, conns, threads, janitor>>
      /\ DOMAIN stopping = Agents /\ stopping' = [stopping EXCEPT ![a] = @ \ {s}]
      /\ s \in stopping[a] /\ sessions[s].lock = a
  BY DEF TermIInv, SessionsOK, StopJoins
<1>2. PICK k \in Killed(sessions[s], "reaper") :
        sessions' = [sessions EXCEPT ![s] = [k EXCEPT !.lock = <<Nobody>>]]
  BY DEF StopJoins
<1> DEFINE new == [k EXCEPT !.lock = <<Nobody>>]
<1>3. sessions[s] \in Session /\ s \in 1 .. Len(sessions) /\ Attended(s)
  BY <1>1 DEF Ids, SessionsOK
<1>4. /\ k \in Session /\ k.svc = sessions[s].svc /\ k.exiting = sessions[s].exiting
      /\ k.in_map = sessions[s].in_map
      /\ k.process => sessions[s].process /\ k.astray
      /\ sessions[s].astray => k.astray
  <2>1. "reaper" \in {"reaper", "dropped"}
    OBVIOUS
  <2> QED BY <1>2, <1>3, <2>1, KilledOnce DEF Attended
<1>5. /\ new \in Session /\ new.svc = k.svc /\ new.in_map = k.in_map /\ new.process = k.process
      /\ new.exiting = k.exiting /\ new.astray = k.astray
  BY <1>4 DEF Session, Nobody
<1> HIDE DEF new
<1>6. /\ sessions' \in Seq(Session) /\ Len(sessions') = Len(sessions) /\ sessions'[s] = new
      /\ \A x \in 1 .. Len(sessions) : x # s => sessions'[x] = sessions[x]
  <2>1. sessions \in Seq(Session)
    BY <1>1
  <2> QED BY <2>1, <1>2, <1>3, <1>5, Replaced DEF new
<1>7. \A x \in Ids : x # s => sessions'[x] = sessions[x]
  BY <1>6 DEF Ids
<1>8. /\ DOMAIN stopping' = Agents /\ \A b \in Agents : stopping'[b] \subseteq stopping[b]
      /\ \A b \in Agents : \A x \in stopping[b] : x \in stopping'[b] \/ x = s
  BY <1>1
<1>9. ASSUME NEW x \in Ids
      PROVE  /\ sessions'[x].svc = sessions[x].svc
             /\ sessions'[x].in_map = sessions[x].in_map
             /\ sessions'[x].process => sessions[x].process
             /\ sessions[x].astray => sessions'[x].astray
             /\ Attended(x)'
             /\ sessions'[x].exiting => sessions[x].exiting
             /\ x = s => ~sessions'[x].process \/ sessions'[x].astray
  <2>1. CASE x = s
    <3>1. sessions'[x].process => sessions'[x].astray
      BY <1>4, <1>5, <1>6, <2>1
    <3>2. Attended(x)'
      BY <3>1 DEF Attended
    <3> QED BY <1>4, <1>5, <1>6, <2>1, <3>1, <3>2
  <2>2. CASE x # s
    <3>1. sessions'[x] = sessions[x]
      BY <1>7, <2>2
    <3>2. Attended(x)'
      BY <1>1, <1>8, <2>2, <3>1 DEF SessionsOK, Attended, BeingStopped
    <3> QED BY <2>2, <3>1, <3>2
  <2> QED BY <2>1, <2>2
<1>10. /\ \A b \in Agents : \A x \in stopping'[b] : x \in Ids /\ x \in stopping[b]
       /\ \A b \in Agents : \A x \in stopping[b] :
            x \in stopping'[b] \/ ~sessions'[x].process \/ sessions'[x].astray
  BY <1>1, <1>8, <1>9 DEF SessionsOK
<1>11. SessionsOK' /\ RegisteredRuns' /\ NoShellIsForgotten'
  BY <1>1, <1>6, <1>8, <1>9, <1>10, SessionsStep
<1>12. Len(services) <= Len(services') /\ Len(sessions) <= Len(sessions')
  BY <1>1, <1>6
<1>13. LocksKept
  <2>1. \A d \in TermConns : conns[d].pc = "data" => a # Conn(d)
    BY <1>1 DEF AgentsOK, ConnOK
  <2> QED BY <1>1, <1>7, <2>1 DEF LocksKept
<1> QED BY <1>1, <1>8, <1>11, <1>12, <1>13, NobodyActs

\* The threads of a session and its child.
LEMMA IoKeeps ==
  ASSUME TermIInv, NEW s \in Ids,
         IoStep(s) \/ ChildExits(s) \/ ReaderFails(s) \/ ChildPrints(s)
  PROVE  TermIInv'
<1> DEFINE w == sessions[s]
<1>1. /\ services \in Seq(BOOLEAN) /\ sessions \in Seq(Session) /\ SessionsOK /\ w \in Session
  BY SentIsNat DEF TermIInv, SessionsOK
<1>2. /\ Attended(s) /\ w.input \in Nat /\ w.reader \in BOOLEAN /\ w.exiting \in BOOLEAN
      /\ w.echo \in BOOLEAN
  BY <1>1 DEF SessionsOK, Session
<1> DEFINE Same(new) ==
             /\ new \in Session /\ new.svc = w.svc /\ new.in_map = w.in_map
             /\ new.exiting = w.exiting /\ new.lock = w.lock /\ new.child = w.child
             /\ new.process => w.process
             /\ w.astray => new.astray
             /\ new.process /\ ~new.astray => new.reader \/ new.exiting
<1>3. PICK new : SetSession(s, new) /\ Same(new)
  <2>0. w.process /\ ~w.astray => w.reader \/ w.exiting
    BY <1>2 DEF Attended
  <2> HIDE DEF w
  <2>1. CASE WriterThread(s)
    <3>1. ASSUME w.input > 0, NEW echoed \in BOOLEAN,
                 SetSession(s, [w EXCEPT !.input = @ - 1, !.echo = @ \/ echoed, !.mute = ~echoed])
          PROVE  \E new : SetSession(s, new) /\ Same(new)
      <4>1. PICK i \in Nat : i = w.input - 1
        BY <1>2, <3>1
      <4>2. PICK e \in BOOLEAN : e = (w.echo \/ echoed)
        OBVIOUS
      <4>3. PICK m \in BOOLEAN : m = ~echoed
        OBVIOUS
      <4> DEFINE new == [w EXCEPT !.input = i, !.echo = e, !.mute = m]
      <4>4. SetSession(s, new)
        BY <3>1, <4>1, <4>2, <4>3
      <4>5. /\ new \in Session /\ new.svc = w.svc /\ new.in_map = w.in_map
            /\ new.exiting = w.exiting /\ new.lock = w.lock /\ new.child = w.child
            /\ new.process = w.process /\ new.astray = w.astray /\ new.reader = w.reader
        BY <1>1 DEF Session
      <4> HIDE DEF new
      <4> QED BY <2>0, <4>4, <4>5
    <3>2. CASE SetSession(s, [w EXCEPT !.writer = FALSE])
      <4> DEFINE new == [w EXCEPT !.writer = FALSE]
      <4>1. /\ new \in Session /\ new.svc = w.svc /\ new.in_map = w.in_map
            /\ new.exiting = w.exiting /\ new.lock = w.lock /\ new.child = w.child
            /\ new.process = w.process /\ new.astray = w.astray /\ new.reader = w.reader
        BY <1>1 DEF Session
      <4> HIDE DEF new
      <4> QED BY <2>0, <3>2, <4>1 DEF new
    <3> QED BY <2>1, <3>1, <3>2 DEF WriterThread, w
  <2>2. CASE ReaderThread(s)
    <3>1. CASE SetSession(s, [w EXCEPT !.echo = FALSE, !.reader = ~w.exiting])
      <4> DEFINE new == [w EXCEPT !.echo = FALSE, !.reader = ~w.exiting]
      <4>1. /\ new \in Session /\ new.svc = w.svc /\ new.in_map = w.in_map
            /\ new.exiting = w.exiting /\ new.lock = w.lock /\ new.child = w.child
            /\ new.process = w.process /\ new.astray = w.astray /\ new.reader = ~w.exiting
        BY <1>1 DEF Session
      <4> HIDE DEF new
      <4> QED BY <1>2, <3>1, <4>1 DEF new
    <3>2. CASE ~w.process /\ SetSession(s, [w EXCEPT !.reader = FALSE])
      <4> DEFINE new == [w EXCEPT !.reader = FALSE]
      <4>1. /\ new \in Session /\ new.svc = w.svc /\ new.in_map = w.in_map
            /\ new.exiting = w.exiting /\ new.lock = w.lock /\ new.child = w.child
            /\ new.process = w.process /\ new.astray = w.astray
        BY <1>1 DEF Session
      <4> HIDE DEF new
      <4> QED BY <3>2, <4>1 DEF new
    <3> QED BY <2>2, <3>1, <3>2 DEF ReaderThread, w
  <2>3. CASE ChildExits(s)
    <3>1. PICK b \in BOOLEAN : SetSession(s, [w EXCEPT !.process = FALSE, !.reader = b])
      BY <1>2, <2>3 DEF ChildExits, w
    <3> DEFINE new == [w EXCEPT !.process = FALSE, !.reader = b]
    <3>2. /\ new \in Session /\ new.svc = w.svc /\ new.in_map = w.in_map
          /\ new.exiting = w.exiting /\ new.lock = w.lock /\ new.child = w.child
          /\ ~new.process /\ new.astray = w.astray
      BY <1>1 DEF Session
    <3> HIDE DEF new
    <3> QED BY <3>1, <3>2 DEF new
  <2>4. CASE ReaderFails(s)
    <3>1. SetSession(s, [w EXCEPT !.reader = FALSE, !.astray = TRUE])
      BY <2>4 DEF ReaderFails, w
    <3> DEFINE new == [w EXCEPT !.reader = FALSE, !.astray = TRUE]
    <3>2. /\ new \in Session /\ new.svc = w.svc /\ new.in_map = w.in_map
          /\ new.exiting = w.exiting /\ new.lock = w.lock /\ new.child = w.child
          /\ new.process = w.process /\ new.astray
      BY <1>1 DEF Session
    <3> HIDE DEF new
    <3> QED BY <3>1, <3>2 DEF new
  <2>5. CASE ChildPrints(s)
    <3>1. SetSession(s, [w EXCEPT !.echo = TRUE])
      BY <2>5 DEF ChildPrints, w
    <3> DEFINE new == [w EXCEPT !.echo = TRUE]
    <3>2. /\ new \in Session /\ new.svc = w.svc /\ new.in_map = w.in_map
          /\ new.exiting = w.exiting /\ new.lock = w.lock /\ new.child = w.child
          /\ new.process = w.process /\ new.astray = w.astray /\ new.reader = w.reader
      BY <1>1 DEF Session
    <3> HIDE DEF new
    <3> QED BY <2>0, <3>1, <3>2 DEF new
  <2> QED BY <2>1, <2>2, <2>3, <2>4, <2>5 DEF IoStep
<1>4. /\ sessions' = [sessions EXCEPT ![s] = new]
      /\ UNCHANGED <<registry, services, conns, threads, janitor, stopping>>
  BY <1>3 DEF SetSession
<1>5. /\ SessionsOK' /\ RegisteredRuns' /\ NoShellIsForgotten'
      /\ Len(sessions') = Len(sessions)
      /\ LocksKept
  <2>1. new.process /\ ~new.astray =>
           /\ new.child = "session"
           /\ new.reader \/ new.exiting
           /\ new.exiting => \E a \in Agents : new.lock = a /\ s \in stopping[a]
    BY <1>2, <1>3 DEF Attended, BeingStopped
  <2>2. /\ new \in Session /\ new.svc = w.svc /\ new.in_map = w.in_map
        /\ new.process => w.process
        /\ w.astray => new.astray
        /\ new.exiting => w.exiting
        /\ \A d \in TermConns : w.lock = Conn(d) => new.lock = Conn(d)
    BY <1>3
  <2>3. UNCHANGED <<services, registry, stopping>>
    BY <1>4
  <2> QED BY <1>4, <2>1, <2>2, <2>3, SessionChanges
<1>6. Len(services) <= Len(services') /\ Len(sessions) <= Len(sessions')
  BY <1>1, <1>4, <1>5
<1> QED BY <1>1, <1>4, <1>5, <1>6, NobodyActs

\* A connection gets its service, an existing one or a new one: no session has the new one.
LEMMA InitServiceKeeps ==
  ASSUME TermIInv, NEW c \in TermConns, NEW persistent \in BOOLEAN,
         InitTerminalService(c, persistent)
  PROVE  TermIInv'
<1>1. /\ services \in Seq(BOOLEAN) /\ sessions \in Seq(Session) /\ SessionsOK /\ AgentsOK
      /\ UNCHANGED <<sessions, janitor, stopping>> /\ NoShellIsForgotten
      /\ DOMAIN stopping = Agents /\ DOMAIN conns = TermConns /\ DOMAIN threads = TermConns
      /\ conns' = [conns EXCEPT ![c] = [pc |-> "open"]]
      /\ threads' = [threads EXCEPT ![c] = [pc |-> "idle"]]
  BY DEF TermIInv, SessionsOK, AgentsOK, InitTerminalService
<1>2. /\ SessionsOK' /\ RegisteredRuns' /\ NoShellIsForgotten'
      /\ Len(services) <= Len(services') /\ Len(sessions) <= Len(sessions')
      /\ LocksKept
  <2>1. CASE registry \in 1 .. Len(services) /\ registry' = registry
             /\ services' = [services EXCEPT ![registry] = persistent]
    <3>1. services' \in Seq(BOOLEAN) /\ Len(services') = Len(services)
      BY <1>1, <2>1, Replaced
    <3> QED BY <1>1, <2>1, <3>1, QuietStep
  <2>2. CASE registry = 0 /\ services' = Append(services, persistent) /\ registry' = Len(services')
    <3>1. /\ services' \in Seq(BOOLEAN) /\ Len(services') = Len(services) + 1
          /\ Len(services) \in Nat
      BY <1>1, <2>2, Appended
    <3>2. Ids' = Ids /\ \A s \in Ids : sessions[s].svc \in 1 .. Len(services)
      BY <1>1 DEF Ids, SessionsOK
    <3>3. registry' \in 0 .. Len(services') /\ 1 .. Len(services) \subseteq 1 .. Len(services')
          /\ registry' \notin 1 .. Len(services) /\ registry \notin 1 .. Len(services)
      BY <2>2, <3>1
    <3>4. SessionsOK'
      <4>1. \A s \in Ids : Attended(s)'
        BY <1>1 DEF SessionsOK, Attended, BeingStopped
      <4> QED BY <1>1, <3>1, <3>2, <3>3, <4>1 DEF SessionsOK
    <3>5. RegisteredRuns'
      BY <1>1, <3>2, <3>3 DEF RegisteredRuns
    <3>6. NoShellIsForgotten'
      BY <1>1, <3>2, <3>3 DEF NoShellIsForgotten, Held
    <3>7. Len(services) <= Len(services') /\ Len(sessions) <= Len(sessions')
      BY <1>1, <3>1
    <3> QED BY <1>1, <3>4, <3>5, <3>6, <3>7 DEF LocksKept
  <2>3. registry \in 0 .. Len(services) /\ Len(services) \in Nat
    BY <1>1 DEF SessionsOK
  <2>4. registry # 0 => registry \in 1 .. Len(services)
    BY <2>3
  <2> QED BY <2>1, <2>2, <2>4 DEF InitTerminalService
<1>3. /\ DOMAIN conns' = TermConns /\ \A d \in TermConns : d # c => conns'[d] = conns[d]
      /\ DOMAIN threads' = TermConns /\ \A d \in TermConns : d # c => threads'[d] = threads[d]
      /\ conns'[c].pc = "open" /\ threads'[c].pc = "idle"
  BY <1>1
<1>4. ConnOK(c) /\ ThreadOK(c) /\ conns[c].pc = "none"
  BY <1>1 DEF AgentsOK, InitTerminalService
<1>5. ConnOK(c)' /\ ThreadOK(c)'
  BY <1>1, <1>3, <1>4 DEF ConnOK, ThreadOK
<1>6. AgentsOK'
  <2>1. \A d \in TermConns : d # c => ConnOK(d)' /\ ThreadOK(d)'
    BY <1>1, <1>2, <1>3, AgentsStep
  <2>2. JanitorOK'
    BY <1>1 DEF AgentsOK, JanitorOK
  <2> QED BY <1>3, <1>5, <2>1, <2>2 DEF AgentsOK
<1> QED BY <1>2, <1>6 DEF TermIInv

\* Initially there is nothing.
LEMMA TermStart ==
  ASSUME TermInit
  PROVE  TermIInv
<1>1. /\ services = <<>> /\ sessions = <<>> /\ registry = 0 /\ stopping = [a \in Agents |-> {}]
      /\ conns = [c \in TermConns |-> [pc |-> "none"]]
      /\ threads = [c \in TermConns |-> [pc |-> "none"]]
  BY DEF TermInit
<1>2. /\ services \in Seq(BOOLEAN) /\ sessions \in Seq(Session) /\ Len(services) = 0 /\ Ids = {}
  BY <1>1 DEF Ids
<1>3. /\ DOMAIN stopping = Agents /\ \A a \in Agents : stopping[a] = {}
      /\ DOMAIN conns = TermConns /\ DOMAIN threads = TermConns
      /\ \A c \in TermConns : conns[c].pc = "none" /\ threads[c].pc = "none"
  BY <1>1
<1>4. SessionsOK
  BY <1>1, <1>2, <1>3 DEF SessionsOK
<1>5. AgentsOK
  BY <1>3, AgentsDiffer DEF AgentsOK, ConnOK, ThreadOK, JanitorOK
<1> QED BY <1>2, <1>4, <1>5 DEF TermIInv, RegisteredRuns, NoShellIsForgotten

\* Every step keeps the invariant.
LEMMA TermKeeps ==
  ASSUME TermIInv, [TermNext]_termVars
  PROVE  TermIInv'
<1>1. ASSUME NEW c \in TermConns, UserActs(c) PROVE TermIInv'
  BY <1>1, InitServiceKeeps, PersistentKeeps, GetKeeps, EndKeeps DEF UserActs
<1>2. ASSUME NEW c \in TermConns, ConnStep(c) PROVE TermIInv'
  BY <1>2, OpenedKeeps, DataKeeps, SentKeeps, ClosedKeeps, EndKeeps DEF ConnStep
<1>3. ASSUME NEW c \in TermConns, ThreadStep(c) PROVE TermIInv'
  <2>1. CASE ReadOutputs(c)
    <3>1. threads'[c].pc = "exit" =>
            sessions' = sessions /\ threads' = [threads EXCEPT ![c] = [pc |-> "exit"]]
      <4>1. DOMAIN threads = TermConns
        BY DEF TermIInv, AgentsOK
      <4> QED BY <2>1, <4>1 DEF ReadOutputs, SetThread
    <3> QED BY <2>1, <3>1, RunKeeps, TurnKeeps
  <2>2. CASE ~ReadOutputs(c)
    BY <1>3, <2>2, RunKeeps, CloneKeeps, CloseEndedKeeps, RunRemovesKeeps DEF ThreadStep
  <2> QED BY <2>1, <2>2
<1>4. ASSUME NEW a \in Agents, NEW s \in Ids, StopStep(a, s) PROVE TermIInv'
  BY <1>4, StopKeeps, JoinKeeps DEF StopStep
<1>5. ASSUME NEW s \in Ids, IoStep(s) \/ ChildExits(s) \/ ReaderFails(s) \/ ChildPrints(s)
      PROVE  TermIInv'
  BY <1>5, IoKeeps
<1>6. CASE UNCHANGED termVars
  <2>1. UNCHANGED <<registry, services, sessions, conns, threads, janitor, stopping>>
    BY <1>6 DEF termVars
  <2>2. services \in Seq(BOOLEAN) /\ DOMAIN stopping = Agents
    BY DEF TermIInv, SessionsOK
  <2> QED BY <2>1, <2>2, QuietStep, NobodyActs
<1> QED BY <1>1, <1>2, <1>3, <1>4, <1>5, <1>6, CleanupKeeps DEF TermNext, TermStep

\* A process that runs belongs to a session that has its handle and is in the registered
\* service or about to be stopped by somebody, unless it went astray: a call failed (the
\* writer or the reader of a new terminal, a read, a kill), or read_outputs took it for a
\* session with the same id that had ended.  This is so for any number of connections,
\* services, terminals and actions, however an open, a close, the end of a connection,
\* the service threads and the cleanup task interleave.
THEOREM NoShellIsEverForgotten == TermSpec => []NoShellIsForgotten
<1>1. TermIInv => NoShellIsForgotten
  BY DEF TermIInv
<1> QED BY <1>1, TermStart, TermKeeps, PTL DEF TermSpec
-----------------------------------------------------------------------------
(* Port forwarding: the sockets get the data and nothing else.             *)

PfMsg == [kind : Kinds \cup {"data"}, n : Nat]

\* The types, and which step comes before which.
PfOrder ==
  /\ pf_server \in [raw : BOOLEAN, socket : BOOLEAN, authorized : BOOLEAN,
                    last_test_delay : BOOLEAN]
  /\ pf_client \in [raw : BOOLEAN, hash : BOOLEAN, buffer : Seq(PfMsg)]
  /\ up \in Seq(PfMsg) /\ down \in Seq(PfMsg) /\ target \in Seq(PfMsg) /\ app \in Seq(PfMsg)
  /\ written \in [app : Nat, target : Nat] /\ logins \in Nat
  /\ cm \in [window : {"none", "asks", "shows"}, accepted : BOOLEAN, late : BOOLEAN]
  /\ pf_server.authorized => pf_server.socket
  /\ pf_server.raw => pf_server.authorized
  /\ pf_server.authorized /\ ~pf_server.raw => pf_server.last_test_delay
  /\ pf_client.raw => pf_server.authorized
  /\ cm.accepted => pf_server.raw
  /\ cm.window = "asks" => pf_server.socket
  /\ pf_server.socket => logins >= 1
  /\ ~pf_server.raw => target = <<>> /\ written.target = 0

\* The client's buffer holds all it was given.
BufferOK ==
  /\ pf_client.raw => pf_client.buffer = <<>>
  /\ ~pf_client.raw => /\ Len(pf_client.buffer) = written.app
                       /\ \A i \in 1 .. written.app : pf_client.buffer[i] = PfData(i)

\* The stream to the client: first messages, then PeerInfo, then data, before which only
\* the manager can get a word in.
DownOK ==
  /\ \A i \in 1 .. Len(down) : down[i].kind = "hash" => i = 1 /\ logins = 0 /\ ~pf_client.hash
  /\ pf_client.hash => logins >= 1
  /\ ~pf_server.authorized =>
       /\ app = <<>>
       /\ \A i \in 1 .. Len(down) : down[i].kind \notin {"data", "peer_info"}
  /\ pf_server.authorized /\ ~pf_client.raw =>
       /\ app = <<>>
       /\ \E i \in 1 .. Len(down) :
            /\ down[i].kind = "peer_info"
            /\ \A j \in 1 .. Len(down) : j < i => down[j].kind \notin {"data", "peer_info"}
            /\ \A j \in 1 .. Len(down) : i < j => down[j].kind \in {"misc", "data"}
            /\ ~cm.late => /\ Len(down) = i + written.target
                           /\ \A j \in 1 .. written.target : down[i + j] = PfData(j)
  /\ pf_client.raw =>
       /\ \A j \in 1 .. Len(down) : down[j].kind \in {"misc", "data"}
       /\ ~cm.late => /\ Len(app) + Len(down) = written.target
                      /\ \A i \in 1 .. Len(app) : app[i] = PfData(i)
                      /\ \A j \in 1 .. Len(down) : down[j] = PfData(Len(app) + j)

\* The stream to the server: logins and replies, then data.
UpOK ==
  /\ \A i \in 1 .. Len(up) : up[i].kind \in {"login", "reply", "data"}
  /\ ~pf_client.raw => \A i \in 1 .. Len(up) : up[i].kind # "data"
  /\ \A i, j \in 1 .. Len(up) : i < j /\ up[i].kind = "data" => up[j].kind = "data"

\* A test delay on its way, or its reply.
Tested == \/ \E i \in 1 .. Len(down) : down[i].kind = "test_delay"
          \/ \E i \in 1 .. Len(up) : up[i].kind = "reply"

\* One test at a time; the server knows of it until it reads no more replies.
TestOK ==
  /\ \A i, j \in 1 .. Len(down) :
       down[i].kind = "test_delay" /\ down[j].kind = "test_delay" => i = j
  /\ \A i, j \in 1 .. Len(up) : up[i].kind = "reply" /\ up[j].kind = "reply" => i = j
  /\ \A i \in 1 .. Len(down), j \in 1 .. Len(up) :
       ~(down[i].kind = "test_delay" /\ up[j].kind = "reply")
  /\ ~pf_server.raw => (Tested <=> pf_server.last_test_delay)
  /\ pf_server.raw /\ ~cm.accepted => ~Tested

\* A single login is gone once the server has opened the socket for it.
LoginOK ==
  /\ logins = 0 => \A i \in 1 .. Len(up) : up[i].kind # "login"
  /\ logins <= 1 => /\ \A i, j \in 1 .. Len(up) :
                         up[i].kind = "login" /\ up[j].kind = "login" => i = j
                    /\ pf_server.socket => \A i \in 1 .. Len(up) : up[i].kind # "login"

\* The data to the server, when the one login was accepted at once.
DataOK ==
  logins <= 1 /\ ~cm.accepted =>
    /\ pf_client.raw /\ ~pf_server.raw =>
         Len(up) = written.app + 1 /\ \A i \in 1 .. written.app : up[i + 1] = PfData(i)
    /\ pf_server.raw =>
         /\ Len(target) + Len(up) + Len(pf_client.buffer) = written.app
         /\ \A i \in 1 .. Len(target) : target[i] = PfData(i)
         /\ \A i \in 1 .. Len(up) : up[i] = PfData(Len(target) + i)

PfIInv == PfOrder /\ BufferOK /\ DownOK /\ UpOK /\ TestOK /\ LoginOK /\ DataOK

\* Messages and their kinds.
LEMMA MessageKinds ==
  /\ \A k \in Kinds \cup {"data"} : Msg(k) \in PfMsg /\ Msg(k).kind = k
  /\ \A n \in Nat : PfData(n) \in PfMsg /\ PfData(n).kind = "data"
BY DEF Msg, PfData, PfMsg

\* A sequence without its first element.
LEMMA Popped ==
  ASSUME NEW S, NEW q \in Seq(S), q # <<>>
  PROVE  LET r == Tail(q)
         IN  /\ r \in Seq(S) /\ Len(q) = Len(r) + 1 /\ Len(r) \in Nat
             /\ Head(q) = q[1] /\ q[1] \in S
             /\ \A i \in 1 .. Len(r) : r[i] = q[i + 1]
OBVIOUS

\* Two sequences, one after the other.
LEMMA Joined2 ==
  ASSUME NEW S, NEW p \in Seq(S), NEW q \in Seq(S)
  PROVE  LET r == p \o q
         IN  /\ r \in Seq(S) /\ Len(r) = Len(p) + Len(q) /\ Len(p) \in Nat /\ Len(q) \in Nat
             /\ \A i \in 1 .. Len(p) : r[i] = p[i]
             /\ \A i \in 1 .. Len(q) : r[Len(p) + i] = q[i]
OBVIOUS

\* The first pieces of data, and a sequence of some of them.
LEMMA DataPrefix ==
  ASSUME NEW q \in Seq(PfMsg), NEW n \in Nat, Len(q) <= n,
         \A i \in 1 .. Len(q) : q[i] = PfData(i)
  PROVE  IsPrefix(q, FirstData(n))
<1> DEFINE f == FirstData(n)
<1>1. f \in Seq(PfMsg) /\ Len(f) = n /\ \A i \in 1 .. n : f[i] = PfData(i)
  <2>1. f \in [1 .. n -> PfMsg] /\ \A i \in 1 .. n : f[i] = PfData(i)
    BY MessageKinds DEF FirstData
  <2> HIDE DEF f
  <2>2. f \in Seq(PfMsg) /\ DOMAIN f = 1 .. n
    BY <2>1, SeqDef
  <2>3. Len(f) \in Nat /\ DOMAIN f = 1 .. Len(f)
    BY <2>2
  <2> QED BY <2>1, <2>2, <2>3
<1> HIDE DEF f
<1>2. Len(q) \in Nat
  OBVIOUS
<1>3. SubSeq(q, 1, Len(q)) = SubSeq(f, 1, Len(q))
  <2>1. SubSeq(q, 1, Len(q)) = [i \in 1 .. Len(q) |-> q[i]]
    BY <1>2
  <2>2. SubSeq(f, 1, Len(q)) = [i \in 1 .. Len(q) |-> f[i]]
    BY <1>1, <1>2
  <2>3. \A i \in 1 .. Len(q) : q[i] = f[i]
    BY <1>1, <1>2
  <2> QED BY <2>1, <2>2, <2>3
<1> QED BY <1>1, <1>3 DEF IsPrefix, f

\* The invariant has what is wanted: data at the head of the stream to a server that still
\* reads messages would have left no reply behind, and it waits for one.
LEMMA CleanEnough ==
  ASSUME PfIInv, ~refused
  PROVE  ForwardsCleanly
<1>1. PfOrder /\ DownOK /\ UpOK /\ TestOK /\ DataOK /\ BufferOK
  BY DEF PfIInv
<1>2. /\ up \in Seq(PfMsg) /\ down \in Seq(PfMsg) /\ target \in Seq(PfMsg) /\ app \in Seq(PfMsg)
      /\ written.app \in Nat /\ written.target \in Nat
      /\ pf_client.buffer \in Seq(PfMsg)
  BY <1>1 DEF PfOrder
<1>3. ASSUME ~pf_server.raw, up # <<>>, Head(up).kind = "data" PROVE FALSE
  <2>1. 1 \in 1 .. Len(up) /\ up[1].kind = "data"
    BY <1>2, <1>3, Popped
  <2>2. \A i \in 1 .. Len(up) : up[i].kind = "data"
    <3> SUFFICES ASSUME NEW i \in 1 .. Len(up) PROVE up[i].kind = "data"
      OBVIOUS
    <3>1. i = 1 \/ 1 < i
      BY <1>2
    <3> QED BY <1>1, <2>1, <3>1 DEF UpOK
  <2>3. pf_client.raw
    BY <1>1, <2>1 DEF UpOK, PfOrder
  <2>4. pf_server.last_test_delay
    BY <1>1, <1>3, <2>3 DEF PfOrder
  <2>5. \A i \in 1 .. Len(down) : down[i].kind # "test_delay"
    BY <1>1, <2>3 DEF DownOK
  <2> QED BY <1>1, <1>3, <2>2, <2>4, <2>5 DEF TestOK, Tested
<1>4. ASSUME ~pf_client.raw, down # <<>>, Head(down).kind = "data" PROVE FALSE
  <2>1. 1 \in 1 .. Len(down) /\ down[1].kind = "data" /\ Len(down) \in Nat
    BY <1>2, <1>4, Popped
  <2>2. CASE ~pf_server.authorized
    BY <1>1, <2>1, <2>2 DEF DownOK
  <2>3. CASE pf_server.authorized
    <3>1. PICK i \in 1 .. Len(down) :
            /\ down[i].kind = "peer_info"
            /\ \A j \in 1 .. Len(down) : j < i => down[j].kind \notin {"data", "peer_info"}
      BY <1>1, <1>4, <2>3 DEF DownOK
    <3>2. i = 1 \/ 1 < i
      BY <2>1
    <3> QED BY <2>1, <3>1, <3>2
  <2> QED BY <2>2, <2>3
<1>5. ASSUME ~cm.accepted, logins <= 1 PROVE IsPrefix(target, FirstData(written.app))
  <2>1. CASE pf_server.raw
    <3>1. /\ Len(target) + Len(up) + Len(pf_client.buffer) = written.app
          /\ \A i \in 1 .. Len(target) : target[i] = PfData(i)
      BY <1>1, <1>5, <2>1 DEF DataOK
    <3>2. Len(target) \in Nat /\ Len(up) \in Nat /\ Len(pf_client.buffer) \in Nat
      BY <1>2
    <3>3. Len(target) <= written.app
      <4>1. \A a, b, c \in Nat : a <= a + b + c
        OBVIOUS
      <4> QED BY <3>1, <3>2, <4>1
    <3> QED BY <1>2, <3>1, <3>3, DataPrefix
  <2>2. CASE ~pf_server.raw
    <3>1. Len(target) = 0
      BY <1>1, <2>2 DEF PfOrder
    <3>2. Len(target) <= written.app /\ \A i \in 1 .. Len(target) : target[i] = PfData(i)
      BY <1>2, <3>1
    <3> QED BY <1>2, <3>2, DataPrefix
  <2> QED BY <2>1, <2>2
<1>6. ASSUME ~cm.late PROVE IsPrefix(app, FirstData(written.target))
  <2>1. CASE pf_client.raw
    <3>1. /\ Len(app) + Len(down) = written.target
          /\ \A i \in 1 .. Len(app) : app[i] = PfData(i)
      BY <1>1, <1>6, <2>1 DEF DownOK
    <3>2. Len(app) \in Nat /\ Len(down) \in Nat
      BY <1>2
    <3>3. Len(app) <= written.target
      BY <1>2, <3>1, <3>2
    <3> QED BY <1>2, <3>1, <3>3, DataPrefix
  <2>2. CASE ~pf_client.raw
    <3>1. Len(app) = 0
      BY <1>1, <2>2 DEF DownOK
    <3>2. Len(app) <= written.target /\ \A i \in 1 .. Len(app) : app[i] = PfData(i)
      BY <1>2, <3>1
    <3> QED BY <1>2, <3>2, DataPrefix
  <2> QED BY <2>1, <2>2
<1> QED BY <1>3, <1>4, <1>5, <1>6 DEF ForwardsCleanly

\* At first only Hash is on its way.
LEMMA PfStart ==
  ASSUME PfInit
  PROVE  PfIInv
<1>1. /\ down = <<Msg("hash")>> /\ up = <<>> /\ target = <<>> /\ app = <<>> /\ logins = 0
      /\ pf_server = [raw |-> FALSE, socket |-> FALSE, authorized |-> FALSE, last_test_delay |-> FALSE]
      /\ pf_client = [raw |-> FALSE, hash |-> FALSE, buffer |-> <<>>]
      /\ written = [app |-> 0, target |-> 0]
      /\ cm = [window |-> "none", accepted |-> FALSE, late |-> FALSE]
  BY DEF PfInit
<1>2. "hash" \in Kinds \cup {"data"}
  BY DEF Kinds
<1>3. Msg("hash") \in PfMsg /\ Msg("hash").kind = "hash"
  BY <1>2, MessageKinds
<1>4. /\ down \in Seq(PfMsg) /\ Len(down) = 1 /\ down[1].kind = "hash"
  BY <1>1, <1>3
<1>5. /\ up \in Seq(PfMsg) /\ Len(up) = 0 /\ target \in Seq(PfMsg) /\ app \in Seq(PfMsg)
      /\ pf_client.buffer \in Seq(PfMsg) /\ Len(pf_client.buffer) = 0
  BY <1>1
<1>6. PfOrder
  BY <1>1, <1>4, <1>5 DEF PfOrder
<1>7. BufferOK /\ UpOK /\ LoginOK /\ DataOK
  BY <1>1, <1>5 DEF BufferOK, UpOK, LoginOK, DataOK
<1>8. DownOK
  BY <1>1, <1>4 DEF DownOK
<1>9. TestOK
  BY <1>1, <1>4, <1>5 DEF TestOK, Tested
<1> QED BY <1>6, <1>7, <1>8, <1>9 DEF PfIInv

\* The types, for use in steps.
LEMMA PfTypes ==
  ASSUME PfIInv
  PROVE  /\ PfOrder /\ BufferOK /\ DownOK /\ UpOK /\ TestOK /\ LoginOK /\ DataOK
         /\ up \in Seq(PfMsg) /\ down \in Seq(PfMsg) /\ target \in Seq(PfMsg) /\ app \in Seq(PfMsg)
         /\ pf_client.buffer \in Seq(PfMsg)
         /\ written.app \in Nat /\ written.target \in Nat /\ logins \in Nat
         /\ Len(up) \in Nat /\ Len(down) \in Nat /\ Len(target) \in Nat /\ Len(app) \in Nat
         /\ Len(pf_client.buffer) \in Nat
BY DEF PfIInv, PfOrder

\* A test delay is sent: nobody is authorized, and no test is under way.
LEMMA TickKeeps ==
  ASSUME PfIInv, TestDelayTick
  PROVE  PfIInv'
<1> USE PfTypes
<1>1. PICK m \in PfMsg : m.kind = "test_delay" /\ down' = Append(down, m)
  <2>1. "test_delay" \in Kinds \cup {"data"}
    BY DEF Kinds
  <2> QED BY <2>1, MessageKinds DEF TestDelayTick
<1>2. /\ UNCHANGED <<pf_client, up, target, app, written, logins, cm>>
      /\ pf_server' = [pf_server EXCEPT !.last_test_delay = TRUE]
      /\ ~pf_server.raw /\ ~pf_server.last_test_delay
      /\ ~(pf_server.socket /\ pf_server.authorized)
  BY DEF TestDelayTick
<1>3. /\ pf_server' \in [raw : BOOLEAN, socket : BOOLEAN, authorized : BOOLEAN,
                         last_test_delay : BOOLEAN]
      /\ ~pf_server'.raw /\ pf_server'.last_test_delay /\ pf_server'.socket = pf_server.socket
      /\ ~pf_server'.authorized /\ ~pf_server.authorized /\ ~pf_client.raw
  BY <1>2 DEF PfOrder
<1>4. /\ down' \in Seq(PfMsg) /\ Len(down') = Len(down) + 1 /\ down'[Len(down) + 1] = m
      /\ \A j \in 1 .. Len(down) : down'[j] = down[j]
  BY <1>1, Appended
<1>5. \A j \in 1 .. Len(down') : j \in 1 .. Len(down) \/ j = Len(down) + 1
  BY <1>4
<1>6. PfOrder'
  BY <1>2, <1>3, <1>4 DEF PfOrder
<1>7. BufferOK' /\ UpOK' /\ LoginOK' /\ DataOK'
  BY <1>2, <1>3 DEF BufferOK, UpOK, LoginOK, DataOK
<1>8. DownOK'
  BY <1>1, <1>2, <1>3, <1>4, <1>5 DEF DownOK
<1>9. TestOK'
  <2>1. ~Tested
    BY <1>2 DEF TestOK
  <2>2. /\ \A j \in 1 .. Len(down) : down'[j].kind # "test_delay"
        /\ \A j \in 1 .. Len(up) : up[j].kind # "reply"
    BY <1>4, <2>1 DEF Tested
  <2>3. \A j \in 1 .. Len(down') : down'[j].kind = "test_delay" => j = Len(down) + 1
    BY <1>5, <2>2
  <2>4. Tested'
    <3>1. Len(down) + 1 \in 1 .. Len(down') /\ down'[Len(down) + 1].kind = "test_delay"
      BY <1>1, <1>4
    <3> QED BY <3>1 DEF Tested
  <2> QED BY <1>2, <1>3, <2>2, <2>3, <2>4 DEF TestOK
<1> QED BY <1>6, <1>7, <1>8, <1>9 DEF PfIInv

\* The user types a password.
LEMMA LoginFromUiKeeps ==
  ASSUME PfIInv, LoginFromUi
  PROVE  PfIInv'
<1> USE PfTypes
<1>1. PICK m \in PfMsg : m.kind = "login" /\ up' = Append(up, m)
  <2>1. "login" \in Kinds \cup {"data"}
    BY DEF Kinds
  <2> QED BY <2>1, MessageKinds DEF LoginFromUi
<1>2. /\ UNCHANGED <<pf_server, pf_client, down, target, app, written, cm>>
      /\ logins' = logins + 1 /\ ~pf_client.raw /\ pf_client.hash
  BY DEF LoginFromUi
<1>3. logins >= 1 /\ logins' >= 2
  BY <1>2 DEF DownOK
<1>4. /\ up' \in Seq(PfMsg) /\ Len(up') = Len(up) + 1 /\ up'[Len(up) + 1] = m
      /\ \A j \in 1 .. Len(up) : up'[j] = up[j]
  BY <1>1, Appended
<1>5. \A j \in 1 .. Len(up') : j \in 1 .. Len(up) \/ j = Len(up) + 1
  BY <1>4
<1>6. PfOrder'
  BY <1>2, <1>3, <1>4 DEF PfOrder
<1>7. BufferOK' /\ LoginOK' /\ DataOK'
  <2>1. logins' # 0 /\ ~(logins' <= 1)
    BY <1>2, <1>3
  <2>2. BufferOK'
    BY <1>2 DEF BufferOK
  <2> QED BY <2>1, <2>2 DEF LoginOK, DataOK
<1>8. DownOK'
  BY <1>2, <1>3 DEF DownOK
<1>9. UpOK'
  <2>1. \A j \in 1 .. Len(up') : up'[j].kind \in {"login", "reply"}
    BY <1>1, <1>2, <1>4, <1>5 DEF UpOK
  <2> QED BY <2>1 DEF UpOK
<1>10. TestOK'
  <2>1. \A j \in 1 .. Len(up') : up'[j].kind = "reply" => j \in 1 .. Len(up) /\ up[j].kind = "reply"
    BY <1>1, <1>4, <1>5
  <2>2. \A j \in 1 .. Len(up) : up[j].kind = "reply" => j \in 1 .. Len(up') /\ up'[j].kind = "reply"
    BY <1>4
  <2>3. Tested' <=> Tested
    BY <1>2, <2>1, <2>2 DEF Tested
  <2> QED BY <1>2, <2>1, <2>3 DEF TestOK
<1> QED BY <1>6, <1>7, <1>8, <1>9, <1>10 DEF PfIInv

\* The manager sends something, late if the server has authorized.
LEMMA CmKeeps ==
  ASSUME PfIInv, CmSpeaks
  PROVE  PfIInv'
<1> USE PfTypes
<1>1. PICK m \in PfMsg : m.kind = "misc" /\ down' = Append(down, m)
  <2>1. "misc" \in Kinds \cup {"data"}
    BY DEF Kinds
  <2> QED BY <2>1, MessageKinds DEF CmSpeaks
<1>2. /\ UNCHANGED <<pf_server, pf_client, up, target, app, written, logins>>
      /\ cm' = [cm EXCEPT !.late = pf_server.authorized] /\ ~pf_server.raw
  BY DEF CmSpeaks
<1>3. /\ cm' \in [window : {"none", "asks", "shows"}, accepted : BOOLEAN, late : BOOLEAN]
      /\ cm'.window = cm.window /\ cm'.accepted = cm.accepted /\ cm'.late = pf_server.authorized
  BY <1>2 DEF PfOrder
<1>4. /\ down' \in Seq(PfMsg) /\ Len(down') = Len(down) + 1 /\ down'[Len(down) + 1] = m
      /\ \A j \in 1 .. Len(down) : down'[j] = down[j]
  BY <1>1, Appended
<1>5. /\ \A j \in 1 .. Len(down') : j \in 1 .. Len(down) \/ j = Len(down) + 1
      /\ \A j \in 1 .. Len(down) : j \in 1 .. Len(down')
  BY <1>4
<1>6. PfOrder'
  BY <1>2, <1>3, <1>4 DEF PfOrder
<1>7. BufferOK' /\ UpOK' /\ LoginOK' /\ DataOK'
  BY <1>2, <1>3 DEF BufferOK, UpOK, LoginOK, DataOK
<1>8. DownOK'
  <2>1. CASE ~pf_server.authorized
    <3>1. ~pf_client.raw
      BY <2>1 DEF PfOrder
    <3> QED BY <1>1, <1>2, <1>4, <1>5, <2>1, <3>1 DEF DownOK
  <2>2. CASE pf_server.authorized /\ ~pf_client.raw
    <3>1. PICK i \in 1 .. Len(down) :
            /\ down[i].kind = "peer_info"
            /\ \A j \in 1 .. Len(down) : j < i => down[j].kind \notin {"data", "peer_info"}
            /\ \A j \in 1 .. Len(down) : i < j => down[j].kind \in {"misc", "data"}
      BY <2>2 DEF DownOK
    <3>2. /\ i \in 1 .. Len(down') /\ down'[i].kind = "peer_info"
          /\ \A j \in 1 .. Len(down') : j < i => down'[j].kind \notin {"data", "peer_info"}
          /\ \A j \in 1 .. Len(down') : i < j => down'[j].kind \in {"misc", "data"}
      BY <1>1, <1>4, <1>5, <3>1
    <3>3. \A j \in 1 .. Len(down') : down'[j].kind = "hash" => j = 1 /\ logins = 0 /\ ~pf_client.hash
      BY <1>1, <1>4, <1>5 DEF DownOK
    <3>4. cm'.late
      BY <1>3, <2>2
    <3> QED BY <1>2, <2>2, <3>2, <3>3, <3>4 DEF DownOK
  <2>3. CASE pf_client.raw
    <3>1. pf_server.authorized
      BY <2>3 DEF PfOrder
    <3> QED BY <1>1, <1>2, <1>3, <1>4, <1>5, <2>3, <3>1 DEF DownOK
  <2> QED BY <2>1, <2>2, <2>3
<1>9. TestOK'
  <2>1. \A j \in 1 .. Len(down') :
          down'[j].kind = "test_delay" => j \in 1 .. Len(down) /\ down[j].kind = "test_delay"
    BY <1>1, <1>4, <1>5
  <2>2. \A j \in 1 .. Len(down) :
          down[j].kind = "test_delay" => j \in 1 .. Len(down') /\ down'[j].kind = "test_delay"
    BY <1>4, <1>5
  <2>3. Tested' <=> Tested
    BY <1>2, <2>1, <2>2 DEF Tested
  <2> QED BY <1>2, <1>3, <2>1, <2>3 DEF TestOK
<1> QED BY <1>6, <1>7, <1>8, <1>9 DEF PfIInv

\* A step that takes nothing out of the stream to the client and puts PeerInfo at its end
\* when it authorizes.
LEMMA PeerInfoSent ==
  ASSUME PfIInv, ~pf_server.authorized, NEW m \in PfMsg, m.kind = "peer_info",
         down' = Append(down, m), pf_server'.authorized,
         UNCHANGED <<pf_client, app, written, logins>>
  PROVE  /\ DownOK' /\ down' \in Seq(PfMsg)
         /\ \A j \in 1 .. Len(down') : down'[j].kind = "test_delay"
                                         => j \in 1 .. Len(down) /\ down[j].kind = "test_delay"
         /\ \A j \in 1 .. Len(down) : down[j].kind = "test_delay"
                                        => j \in 1 .. Len(down') /\ down'[j].kind = "test_delay"
<1> USE PfTypes
<1>1. /\ down' \in Seq(PfMsg) /\ Len(down') = Len(down) + 1 /\ down'[Len(down) + 1] = m
      /\ \A j \in 1 .. Len(down) : down'[j] = down[j]
  BY Appended
<1>2. /\ \A j \in 1 .. Len(down') : j \in 1 .. Len(down) \/ j = Len(down) + 1
      /\ \A j \in 1 .. Len(down) : j \in 1 .. Len(down') /\ j # Len(down) + 1
      /\ Len(down) + 1 \in 1 .. Len(down')
  BY <1>1
<1>3. ~pf_client.raw /\ ~pf_server.raw /\ written.target = 0
  BY DEF PfOrder
<1>4. \A j \in 1 .. Len(down) : down[j].kind \notin {"data", "peer_info"}
  BY DEF DownOK
<1>5. \A j \in 1 .. Len(down') : down'[j].kind = "hash" => j = 1 /\ logins = 0 /\ ~pf_client.hash
  BY <1>1, <1>2 DEF DownOK
<1>6. /\ \A j \in 1 .. Len(down') : j < Len(down) + 1 => down'[j].kind \notin {"data", "peer_info"}
      /\ \A j \in 1 .. Len(down') : ~(Len(down) + 1 < j)
      /\ down'[Len(down) + 1].kind = "peer_info"
  BY <1>1, <1>2, <1>4
<1>7. Len(down') = Len(down) + 1 + written'.target /\ \A j \in 1 .. written'.target : FALSE
  BY <1>1, <1>3
<1>8. app = <<>> /\ (pf_client.hash => logins >= 1)
  BY DEF DownOK
<1>9. DownOK'
  BY <1>2, <1>3, <1>5, <1>6, <1>7, <1>8 DEF DownOK
<1>10. /\ \A j \in 1 .. Len(down') : down'[j].kind = "test_delay"
                                      => j \in 1 .. Len(down) /\ down[j].kind = "test_delay"
       /\ \A j \in 1 .. Len(down) : down[j].kind = "test_delay"
                                      => j \in 1 .. Len(down') /\ down'[j].kind = "test_delay"
  BY <1>1, <1>2
<1> QED BY <1>1, <1>9, <1>10

\* The user accepts in the manager's window; the loop is left at once.
LEMMA AuthorizeKeeps ==
  ASSUME PfIInv, AuthorizeForward
  PROVE  PfIInv'
<1> USE PfTypes
<1>1. /\ UNCHANGED <<pf_client, up, target, app, written, logins>>
      /\ pf_server' = [pf_server EXCEPT !.authorized = TRUE, !.raw = TRUE]
      /\ cm' = [cm EXCEPT !.window = "shows", !.accepted = TRUE]
      /\ ~pf_server.raw /\ cm.window = "asks"
      /\ down' = IF pf_server.authorized THEN down ELSE Append(down, Msg("peer_info"))
  BY DEF AuthorizeForward
<1>2. /\ pf_server' \in [raw : BOOLEAN, socket : BOOLEAN, authorized : BOOLEAN,
                         last_test_delay : BOOLEAN]
      /\ pf_server'.raw /\ pf_server'.authorized /\ pf_server'.socket = pf_server.socket
      /\ cm' \in [window : {"none", "asks", "shows"}, accepted : BOOLEAN, late : BOOLEAN]
      /\ cm'.window = "shows" /\ cm'.accepted /\ cm'.late = cm.late
      /\ pf_server.socket
  BY <1>1 DEF PfOrder
<1>3. /\ DownOK' /\ down' \in Seq(PfMsg)
      /\ \A j \in 1 .. Len(down') : down'[j].kind = "test_delay"
                                      => j \in 1 .. Len(down) /\ down[j].kind = "test_delay"
  <2>1. CASE pf_server.authorized
    <3>1. down' = down
      BY <1>1, <2>1
    <3> QED BY <1>1, <1>2, <2>1, <3>1 DEF DownOK
  <2>2. CASE ~pf_server.authorized
    <3>1. "peer_info" \in Kinds \cup {"data"}
      BY DEF Kinds
    <3>2. Msg("peer_info") \in PfMsg /\ Msg("peer_info").kind = "peer_info"
      BY <3>1, MessageKinds
    <3> QED BY <1>1, <1>2, <2>2, <3>2, PeerInfoSent
  <2> QED BY <2>1, <2>2
<1>4. PfOrder'
  BY <1>1, <1>2, <1>3 DEF PfOrder
<1>5. BufferOK' /\ UpOK' /\ LoginOK' /\ DataOK'
  BY <1>1, <1>2 DEF BufferOK, UpOK, LoginOK, DataOK
<1>6. TestOK'
  BY <1>1, <1>2, <1>3 DEF TestOK
<1> QED BY <1>3, <1>4, <1>5, <1>6 DEF PfIInv

\* The server takes the first message out of the stream.
LEMMA UpPopped ==
  ASSUME PfIInv, up # <<>>, up' = Tail(up), UNCHANGED <<pf_client, logins>>
  PROVE  /\ up' \in Seq(PfMsg) /\ Len(up) = Len(up') + 1 /\ Len(up') \in Nat
         /\ Head(up) = up[1] /\ up[1] \in PfMsg
         /\ \A i \in 1 .. Len(up') : i + 1 \in 1 .. Len(up) /\ up'[i] = up[i + 1]
         /\ UpOK'
         /\ \A i, j \in 1 .. Len(up') : up'[i].kind = "reply" /\ up'[j].kind = "reply" => i = j
         /\ up[1].kind = "reply" => \A i \in 1 .. Len(up') : up'[i].kind # "reply"
         /\ logins = 0 => \A i \in 1 .. Len(up') : up'[i].kind # "login"
         /\ logins <= 1 =>
              /\ \A i, j \in 1 .. Len(up') : up'[i].kind = "login" /\ up'[j].kind = "login" => i = j
              /\ up[1].kind = "login" \/ pf_server.socket
                    => \A i \in 1 .. Len(up') : up'[i].kind # "login"
<1>1. /\ up' \in Seq(PfMsg) /\ Len(up) = Len(up') + 1 /\ Len(up') \in Nat
      /\ Head(up) = up[1] /\ up[1] \in PfMsg
      /\ \A i \in 1 .. Len(up') : up'[i] = up[i + 1]
  BY PfTypes, Popped
<1>2. \A a, b \in Nat : b = a + 1 =>
        /\ 1 \in 1 .. b
        /\ \A i \in 1 .. a : i + 1 \in 1 .. b /\ i + 1 # 1
        /\ \A i, j \in 1 .. a : (i < j => i + 1 < j + 1) /\ (i + 1 = j + 1 => i = j)
  OBVIOUS
<1>3. /\ 1 \in 1 .. Len(up)
      /\ \A i \in 1 .. Len(up') : i + 1 \in 1 .. Len(up) /\ i + 1 # 1
      /\ \A i, j \in 1 .. Len(up') : (i < j => i + 1 < j + 1) /\ (i + 1 = j + 1 => i = j)
  BY <1>1, <1>2, PfTypes
<1>4. UpOK /\ TestOK /\ LoginOK
  BY PfTypes
<1>5. UpOK'
  <2>1. \A i \in 1 .. Len(up') : up'[i].kind \in {"login", "reply", "data"}
    BY ONLY <1>1, <1>3, <1>4 DEF UpOK
  <2>2. ~pf_client.raw => \A i \in 1 .. Len(up') : up'[i].kind # "data"
    BY ONLY <1>1, <1>3, <1>4 DEF UpOK
  <2>3. \A i, j \in 1 .. Len(up') : i < j /\ up'[i].kind = "data" => up'[j].kind = "data"
    BY ONLY <1>1, <1>3, <1>4 DEF UpOK
  <2> QED BY <2>1, <2>2, <2>3 DEF UpOK
<1>6. \A i, j \in 1 .. Len(up') : up'[i].kind = "reply" /\ up'[j].kind = "reply" => i = j
  BY ONLY <1>1, <1>3, <1>4 DEF TestOK
<1>7. up[1].kind = "reply" => \A i \in 1 .. Len(up') : up'[i].kind # "reply"
  BY ONLY <1>1, <1>3, <1>4 DEF TestOK
<1>8. logins = 0 => \A i \in 1 .. Len(up') : up'[i].kind # "login"
  BY ONLY <1>1, <1>3, <1>4 DEF LoginOK
<1>9. ASSUME logins <= 1
      PROVE  /\ \A i, j \in 1 .. Len(up') : up'[i].kind = "login" /\ up'[j].kind = "login" => i = j
             /\ up[1].kind = "login" \/ pf_server.socket
                   => \A i \in 1 .. Len(up') : up'[i].kind # "login"
  BY ONLY <1>1, <1>3, <1>4, <1>9 DEF LoginOK
<1> QED BY ONLY <1>1, <1>3, <1>5, <1>6, <1>7, <1>8, <1>9

\* The server forwards what comes from the client,
LEMMA ForwardUpKeeps ==
  ASSUME PfIInv, pf_server.raw, up # <<>>, target' = Append(target, Head(up)), up' = Tail(up),
         UNCHANGED <<pf_server, pf_client, down, app, written, logins, cm>>
  PROVE  PfIInv'
<1> USE PfTypes
<1>1. /\ up' \in Seq(PfMsg) /\ Len(up) = Len(up') + 1 /\ Len(up') \in Nat
      /\ Head(up) = up[1] /\ up[1] \in PfMsg
      /\ \A i \in 1 .. Len(up') : up'[i] = up[i + 1]
  BY UpPopped
<1>2. /\ target' \in Seq(PfMsg) /\ Len(target') = Len(target) + 1
      /\ target'[Len(target) + 1] = up[1]
      /\ \A j \in 1 .. Len(target) : target'[j] = target[j]
  BY <1>1, Appended
<1>3. \A i \in 1 .. Len(up') : i + 1 \in 1 .. Len(up)
  BY UpPopped
<1>4. PfOrder'
  BY <1>1, <1>2 DEF PfOrder
<1>5. BufferOK' /\ DownOK'
  BY DEF BufferOK, DownOK
<1>6. UpOK'
  BY UpPopped
<1>7. TestOK'
  <2>1. \A i, j \in 1 .. Len(up') : up'[i].kind = "reply" /\ up'[j].kind = "reply" => i = j
    BY UpPopped
  <2>2. Tested' => Tested
    BY <1>1, <1>3 DEF Tested
  <2>3. \A i \in 1 .. Len(down), j \in 1 .. Len(up') :
          ~(down[i].kind = "test_delay" /\ up'[j].kind = "reply")
    BY <1>1, <1>3 DEF TestOK
  <2> QED BY <2>1, <2>2, <2>3 DEF TestOK
<1>8. LoginOK'
  BY UpPopped DEF LoginOK
<1>9. DataOK'
  <2> SUFFICES ASSUME logins <= 1, ~cm.accepted
               PROVE  /\ Len(target') + Len(up') + Len(pf_client.buffer) = written.app
                      /\ \A i \in 1 .. Len(target') : target'[i] = PfData(i)
                      /\ \A i \in 1 .. Len(up') : up'[i] = PfData(Len(target') + i)
    BY DEF DataOK
  <2>1. /\ Len(target) + Len(up) + Len(pf_client.buffer) = written.app
        /\ \A i \in 1 .. Len(target) : target[i] = PfData(i)
        /\ \A i \in 1 .. Len(up) : up[i] = PfData(Len(target) + i)
    BY DEF DataOK
  <2>2. Len(target') + Len(up') + Len(pf_client.buffer) = written.app
    <3>1. /\ Len(target') \in Nat /\ Len(up') \in Nat /\ Len(target) \in Nat /\ Len(up) \in Nat
          /\ Len(pf_client.buffer) \in Nat /\ written.app \in Nat
      BY <1>1, <1>2
    <3>2. Len(target') = Len(target) + 1 /\ Len(up) = Len(up') + 1
      BY <1>1, <1>2
    <3>3. Len(target) + Len(up) + Len(pf_client.buffer) = written.app
      BY <2>1
    <3>4. \A a, b, d, e \in Nat : d = a + 1 /\ b = e + 1 => d + e = a + b
      OBVIOUS
    <3>5. Len(target') + Len(up') = Len(target) + Len(up)
      BY ONLY <3>1, <3>2, <3>4
    <3> QED BY ONLY <3>3, <3>5
  <2>3. up[1] = PfData(Len(target) + 1)
    <3>1. 1 \in 1 .. Len(up)
      BY <1>1
    <3> QED BY <2>1, <3>1
  <2>4. \A i \in 1 .. Len(target') : target'[i] = PfData(i)
    <3>1. \A i \in 1 .. Len(target') : i \in 1 .. Len(target) \/ i = Len(target) + 1
      BY <1>2
    <3> QED BY <1>2, <2>1, <2>3, <3>1
  <2>5. \A i \in 1 .. Len(up') : up'[i] = PfData(Len(target') + i)
    <3>1. \A i \in 1 .. Len(up') : Len(target) + (i + 1) = Len(target') + i
      BY <1>1, <1>2
    <3> QED BY <1>1, <1>3, <2>1, <3>1
  <2> QED BY <2>2, <2>4, <2>5
<1> QED BY <1>4, <1>5, <1>6, <1>7, <1>8, <1>9 DEF PfIInv

\* and what comes from the socket.
LEMMA ForwardDownKeeps ==
  ASSUME PfIInv, pf_server.raw, written' = [written EXCEPT !.target = @ + 1],
         down' = Append(down, PfData(written.target + 1)),
         UNCHANGED <<pf_server, pf_client, up, target, app, logins, cm>>
  PROVE  PfIInv'
<1> USE PfTypes
<1>0. PICK k \in Nat : k = written.target + 1
  OBVIOUS
<1>1. /\ written' \in [app : Nat, target : Nat] /\ written'.app = written.app
      /\ written'.target = k
  <2>1. written' = [written EXCEPT !.target = k]
    BY <1>0
  <2>2. written \in [app : Nat, target : Nat]
    BY DEF PfOrder
  <2> QED BY ONLY <2>1, <2>2, k \in Nat
<1> DEFINE m == PfData(k)
<1>2. m \in PfMsg /\ m.kind = "data"
  BY ONLY MessageKinds, k \in Nat
<1>3. /\ down' \in Seq(PfMsg) /\ Len(down') = Len(down) + 1 /\ down'[Len(down) + 1] = m
      /\ \A j \in 1 .. Len(down) : down'[j] = down[j]
  <2>1. down' = Append(down, m)
    BY <1>0
  <2> HIDE DEF m
  <2> QED BY <2>1, <1>2, Appended
<1> HIDE DEF m
<1>4. /\ \A j \in 1 .. Len(down') : j \in 1 .. Len(down) \/ j = Len(down) + 1
      /\ \A j \in 1 .. Len(down) : j \in 1 .. Len(down') /\ j # Len(down) + 1
      /\ Len(down) + 1 \in 1 .. Len(down')
  BY <1>3
<1>5. PfOrder'
  BY <1>1, <1>3 DEF PfOrder
<1>6. BufferOK' /\ UpOK' /\ LoginOK' /\ DataOK'
  BY <1>1 DEF BufferOK, UpOK, LoginOK, DataOK
<1>7. TestOK'
  <2>1. \A j \in 1 .. Len(down') :
          down'[j].kind = "test_delay" => j \in 1 .. Len(down) /\ down[j].kind = "test_delay"
    BY <1>2, <1>3, <1>4
  <2>2. Tested' => Tested
    BY <2>1 DEF Tested
  <2> QED BY <2>1, <2>2 DEF TestOK
<1>8. \A j \in 1 .. Len(down') : down'[j].kind = "hash" => j = 1 /\ logins = 0 /\ ~pf_client.hash
  BY <1>2, <1>3, <1>4 DEF DownOK
<1>9. pf_server.authorized
  BY DEF PfOrder
<1>10. CASE ~pf_client.raw
  <2>1. PICK i \in 1 .. Len(down) :
          /\ down[i].kind = "peer_info"
          /\ \A j \in 1 .. Len(down) : j < i => down[j].kind \notin {"data", "peer_info"}
          /\ \A j \in 1 .. Len(down) : i < j => down[j].kind \in {"misc", "data"}
          /\ ~cm.late => /\ Len(down) = i + written.target
                         /\ \A j \in 1 .. written.target : down[i + j] = PfData(j)
    BY <1>9, <1>10 DEF DownOK
  <2>2. /\ i \in 1 .. Len(down') /\ down'[i].kind = "peer_info"
        /\ \A j \in 1 .. Len(down') : j < i => down'[j].kind \notin {"data", "peer_info"}
        /\ \A j \in 1 .. Len(down') : i < j => down'[j].kind \in {"misc", "data"}
    BY <1>2, <1>3, <1>4, <2>1
  <2>3. ASSUME ~cm.late
        PROVE  /\ Len(down') = i + written'.target
               /\ \A j \in 1 .. written'.target : down'[i + j] = PfData(j)
    <3>1. Len(down') = i + written'.target
      <4>1. Len(down') \in Nat /\ i \in Nat /\ Len(down) \in Nat /\ written.target \in Nat
        BY <1>3
      <4>2. Len(down) = i + written.target
        BY ONLY <2>1, <2>3
      <4> QED BY ONLY <1>0, <1>1, <1>3, <4>1, <4>2
    <3>2. ASSUME NEW j \in 1 .. written'.target PROVE down'[i + j] = PfData(j)
      <4>1. CASE j = k
        <5>1. i \in Nat /\ Len(down) \in Nat /\ written.target \in Nat
          OBVIOUS
        <5>2. i + j = Len(down) + 1
          <6>1. Len(down) = i + written.target
            BY ONLY <2>1, <2>3
          <6> QED BY ONLY <1>0, <4>1, <5>1, <6>1
        <5> QED BY <1>3, <4>1, <5>2 DEF m
      <4>2. CASE j \in 1 .. written.target
        <5>1. i + j \in 1 .. Len(down)
          <6>1. i \in Nat /\ Len(down) \in Nat /\ written.target \in Nat
            OBVIOUS
          <6>2. Len(down) = i + written.target
            BY ONLY <2>1, <2>3
          <6> QED BY ONLY <4>2, <6>1, <6>2
        <5> QED BY <1>3, <2>1, <2>3, <4>2, <5>1
      <4>3. \A c, d \in Nat : d = c + 1 => \A e \in 1 .. d : e = d \/ e \in 1 .. c
        OBVIOUS
      <4> QED BY <1>0, <1>1, <4>1, <4>2, <4>3
    <3> QED BY <3>1, <3>2
  <2>4. app = <<>> /\ (pf_client.hash => logins >= 1)
    BY <1>9, <1>10 DEF DownOK
  <2>5. DownOK'
    BY <1>8, <1>9, <1>10, <2>2, <2>3, <2>4 DEF DownOK
  <2> QED BY <1>5, <1>6, <1>7, <2>5 DEF PfIInv
<1>11. CASE pf_client.raw
  <2>1. \A j \in 1 .. Len(down') : down'[j].kind \in {"misc", "data"}
    BY <1>2, <1>3, <1>4, <1>11 DEF DownOK
  <2>2. ASSUME ~cm.late
        PROVE  /\ Len(app) + Len(down') = written'.target
               /\ \A i \in 1 .. Len(app) : app[i] = PfData(i)
               /\ \A j \in 1 .. Len(down') : down'[j] = PfData(Len(app) + j)
    <3>1. /\ Len(app) + Len(down) = written.target
          /\ \A i \in 1 .. Len(app) : app[i] = PfData(i)
          /\ \A j \in 1 .. Len(down) : down[j] = PfData(Len(app) + j)
      BY <1>11, <2>2 DEF DownOK
    <3>2. Len(app) + Len(down') = written'.target /\ k = Len(app) + (Len(down) + 1)
      <4>1. \A a, b, c, d, e \in Nat :
              a + b = c /\ d = b + 1 /\ e = c + 1 => a + d = e /\ e = a + (b + 1)
        BY SMTT(30)
      <4>2. Len(down') \in Nat
        BY <1>3
      <4> QED BY <1>0, <1>1, <1>3, <3>1, <4>1, <4>2
    <3>3. \A j \in 1 .. Len(down') : down'[j] = PfData(Len(app) + j)
      BY <1>3, <1>4, <3>1, <3>2 DEF m
    <3> QED BY <3>1, <3>2, <3>3
  <2>3. pf_client.hash => logins >= 1
    BY DEF DownOK
  <2>4. DownOK'
    BY <1>8, <1>9, <1>11, <2>1, <2>2, <2>3 DEF DownOK
  <2> QED BY <1>5, <1>6, <1>7, <2>4 DEF PfIInv
<1> QED BY <1>10, <1>11

\* The client takes the first message out of the stream.
LEMMA DownPopped ==
  ASSUME PfIInv, down # <<>>, down' = Tail(down)
  PROVE  /\ down' \in Seq(PfMsg) /\ Len(down) = Len(down') + 1 /\ Len(down') \in Nat
         /\ Head(down) = down[1] /\ down[1] \in PfMsg /\ 1 \in 1 .. Len(down)
         /\ \A i \in 1 .. Len(down') : i + 1 \in 1 .. Len(down) /\ down'[i] = down[i + 1]
         /\ \A i \in 1 .. Len(down') : down'[i].kind # "hash"
         /\ \A i, j \in 1 .. Len(down') :
              down'[i].kind = "test_delay" /\ down'[j].kind = "test_delay" => i = j
         /\ down[1].kind = "test_delay" => \A i \in 1 .. Len(down') : down'[i].kind # "test_delay"
         /\ down[1].kind # "test_delay" =>
              ((\E i \in 1 .. Len(down) : down[i].kind = "test_delay")
                 => \E i \in 1 .. Len(down') : down'[i].kind = "test_delay")
<1>1. /\ down' \in Seq(PfMsg) /\ Len(down) = Len(down') + 1 /\ Len(down') \in Nat
      /\ Head(down) = down[1] /\ down[1] \in PfMsg
      /\ \A i \in 1 .. Len(down') : down'[i] = down[i + 1]
  BY PfTypes, Popped
<1>2. \A a, b \in Nat : b = a + 1 =>
        /\ 1 \in 1 .. b
        /\ \A i \in 1 .. a : i + 1 \in 1 .. b /\ i + 1 # 1
        /\ \A i, j \in 1 .. a : i + 1 = j + 1 => i = j
        /\ \A i \in 1 .. b : i # 1 => \E j \in 1 .. a : i = j + 1
  <2> TAKE a, b \in Nat
  <2> HAVE b = a + 1
  <2>1. ASSUME NEW i \in 1 .. b, i # 1 PROVE \E j \in 1 .. a : i = j + 1
    <3>1. i - 1 \in 1 .. a /\ i = (i - 1) + 1
      BY <2>1
    <3> QED BY <3>1
  <2> QED BY <2>1
<1>3. /\ 1 \in 1 .. Len(down)
      /\ \A i \in 1 .. Len(down') : i + 1 \in 1 .. Len(down) /\ i + 1 # 1
      /\ \A i, j \in 1 .. Len(down') : i + 1 = j + 1 => i = j
      /\ \A i \in 1 .. Len(down) : i # 1 => \E j \in 1 .. Len(down') : i = j + 1
  BY <1>1, <1>2, PfTypes
<1>4. DownOK /\ TestOK
  BY PfTypes
<1>5. \A i \in 1 .. Len(down') : down'[i].kind # "hash"
  BY ONLY <1>1, <1>3, <1>4 DEF DownOK
<1>6. /\ \A i, j \in 1 .. Len(down') :
           down'[i].kind = "test_delay" /\ down'[j].kind = "test_delay" => i = j
      /\ down[1].kind = "test_delay" => \A i \in 1 .. Len(down') : down'[i].kind # "test_delay"
  BY ONLY <1>1, <1>3, <1>4, SMTT(20) DEF TestOK
<1>7. ASSUME down[1].kind # "test_delay", NEW i \in 1 .. Len(down), down[i].kind = "test_delay"
      PROVE  \E j \in 1 .. Len(down') : down'[j].kind = "test_delay"
  <2>1. PICK j \in 1 .. Len(down') : i = j + 1
    BY ONLY <1>3, <1>7
  <2> QED BY ONLY <1>1, <1>7, <2>1
<1> QED BY ONLY <1>1, <1>3, <1>5, <1>6, <1>7

\* The client forwards what comes from the server.
LEMMA ClientForwardsKeeps ==
  ASSUME PfIInv, ClientForwards
  PROVE  PfIInv'
<1> USE PfTypes
<1>1. /\ UNCHANGED <<pf_server, pf_client, up, target, written, logins, cm>>
      /\ pf_client.raw /\ down # <<>> /\ down' = Tail(down) /\ app' = Append(app, Head(down))
  BY DEF ClientForwards
<1>2. /\ down' \in Seq(PfMsg) /\ Len(down) = Len(down') + 1 /\ Len(down') \in Nat
      /\ Head(down) = down[1] /\ down[1] \in PfMsg /\ 1 \in 1 .. Len(down)
      /\ \A i \in 1 .. Len(down') : i + 1 \in 1 .. Len(down) /\ down'[i] = down[i + 1]
      /\ \A i \in 1 .. Len(down') : down'[i].kind # "hash"
  BY <1>1, DownPopped
<1>3. /\ app' \in Seq(PfMsg) /\ Len(app') = Len(app) + 1 /\ app'[Len(app) + 1] = down[1]
      /\ \A j \in 1 .. Len(app) : app'[j] = app[j]
  BY <1>1, <1>2, Appended
<1>4. /\ pf_server.authorized
      /\ \A j \in 1 .. Len(down) : down[j].kind \in {"misc", "data"}
  BY <1>1 DEF PfOrder, DownOK
<1>5. \A j \in 1 .. Len(down') : down'[j].kind \in {"misc", "data"}
  BY ONLY <1>2, <1>4
<1>6. PfOrder'
  BY <1>1, <1>2, <1>3 DEF PfOrder
<1>7. BufferOK' /\ UpOK' /\ LoginOK' /\ DataOK'
  BY <1>1 DEF BufferOK, UpOK, LoginOK, DataOK
<1>8. TestOK'
  <2>1. /\ \A i \in 1 .. Len(down') : down'[i].kind # "test_delay"
        /\ \A i \in 1 .. Len(down) : down[i].kind # "test_delay"
    BY ONLY <1>4, <1>5
  <2>2. Tested' <=> Tested
    BY <1>1, <2>1 DEF Tested
  <2> QED BY <1>1, <2>1, <2>2 DEF TestOK
<1>9. ASSUME ~cm.late
      PROVE  /\ Len(app') + Len(down') = written.target
             /\ \A i \in 1 .. Len(app') : app'[i] = PfData(i)
             /\ \A j \in 1 .. Len(down') : down'[j] = PfData(Len(app') + j)
  <2>1. /\ Len(app) + Len(down) = written.target
        /\ \A i \in 1 .. Len(app) : app[i] = PfData(i)
        /\ \A j \in 1 .. Len(down) : down[j] = PfData(Len(app) + j)
    BY <1>1, <1>9 DEF DownOK
  <2>2. Len(app) \in Nat /\ Len(app') \in Nat /\ Len(down) \in Nat /\ Len(down') \in Nat
    BY <1>2, <1>3
  <2>3. \A a, b, d, e \in Nat : d = a + 1 /\ b = e + 1 =>
          /\ d + e = a + b
          /\ \A i \in 1 .. d : i \in 1 .. a \/ i = a + 1
          /\ \A i \in 1 .. e : a + (i + 1) = d + i
    OBVIOUS
  <2>4. /\ Len(app') + Len(down') = Len(app) + Len(down)
        /\ \A i \in 1 .. Len(app') : i \in 1 .. Len(app) \/ i = Len(app) + 1
        /\ \A i \in 1 .. Len(down') : Len(app) + (i + 1) = Len(app') + i
    BY ONLY <1>2, <1>3, <2>2, <2>3
  <2>5. \A i \in 1 .. Len(app') : app'[i] = PfData(i)
    BY ONLY <1>2, <1>3, <2>1, <2>4
  <2>6. \A j \in 1 .. Len(down') : down'[j] = PfData(Len(app') + j)
    BY ONLY <1>2, <2>1, <2>4
  <2> QED BY ONLY <2>1, <2>4, <2>5, <2>6
<1>10. DownOK'
  <2>1. pf_client.hash => logins >= 1
    BY DEF DownOK
  <2> QED BY <1>1, <1>2, <1>4, <1>5, <1>9, <2>1 DEF DownOK
<1> QED BY <1>6, <1>7, <1>8, <1>10 DEF PfIInv

\* The application writes: into the stream once the client is raw, into the buffer before.
LEMMA AppWritesKeeps ==
  ASSUME PfIInv, AppWrites
  PROVE  PfIInv'
<1> USE PfTypes
<1>1. PICK k \in Nat : k = written.app + 1
  OBVIOUS
<1>2. /\ UNCHANGED <<pf_server, down, target, app, logins, cm>>
      /\ written' = [written EXCEPT !.app = k]
      /\ \/ pf_client.raw /\ up' = Append(up, PfData(k)) /\ pf_client' = pf_client
         \/ /\ ~pf_client.raw /\ up' = up
            /\ pf_client' = [pf_client EXCEPT !.buffer = Append(@, PfData(k))]
  BY <1>1 DEF AppWrites
<1>3. /\ written' \in [app : Nat, target : Nat] /\ written'.app = k
      /\ written'.target = written.target
  <2>1. written \in [app : Nat, target : Nat]
    BY DEF PfOrder
  <2> QED BY ONLY <1>2, <2>1, k \in Nat
<1>4. PfData(k) \in PfMsg /\ PfData(k).kind = "data"
  BY ONLY MessageKinds, k \in Nat
<1>5. \A a, d \in Nat : d = a + 1 =>
        /\ \A i \in 1 .. d : i \in 1 .. a \/ i = a + 1
        /\ \A i \in 1 .. a : i \in 1 .. d
  OBVIOUS
<1>6. CASE pf_client.raw
  <2>1. up' = Append(up, PfData(k)) /\ pf_client' = pf_client
    BY ONLY <1>2, <1>6
  <2>2. /\ up' \in Seq(PfMsg) /\ Len(up') = Len(up) + 1 /\ up'[Len(up) + 1] = PfData(k)
        /\ \A j \in 1 .. Len(up) : up'[j] = up[j]
    BY <1>4, <2>1, Appended
  <2>3. /\ \A j \in 1 .. Len(up') : j \in 1 .. Len(up) \/ j = Len(up) + 1
        /\ \A j \in 1 .. Len(up) : j \in 1 .. Len(up')
    BY <1>5, <2>2
  <2>4. PfOrder'
    BY <1>2, <1>3, <2>1, <2>2 DEF PfOrder
  <2>5. BufferOK'
    BY <1>6, <2>1 DEF BufferOK
  <2>6. DownOK'
    BY <1>2, <1>3, <2>1 DEF DownOK
  <2>7. UpOK'
    <3>1. \A j \in 1 .. Len(up') : up'[j].kind \in {"login", "reply", "data"}
      BY <1>4, <2>2, <2>3 DEF UpOK
    <3>2. ASSUME NEW i \in 1 .. Len(up'), NEW j \in 1 .. Len(up'), i < j, up'[i].kind = "data"
          PROVE  up'[j].kind = "data"
      <4>1. CASE j = Len(up) + 1
        BY ONLY <1>4, <2>2, <4>1
      <4>2. CASE j \in 1 .. Len(up)
        <5>1. i \in 1 .. Len(up)
          BY <3>2, <4>2
        <5> QED BY <2>2, <3>2, <4>2, <5>1 DEF UpOK
      <4> QED BY ONLY <2>3, <4>1, <4>2
    <3> QED BY <1>6, <2>1, <3>1, <3>2 DEF UpOK
  <2>8. \A j \in 1 .. Len(up') :
          up'[j].kind # "data" => j \in 1 .. Len(up) /\ up[j].kind = up'[j].kind
    BY ONLY <1>4, <2>2, <2>3
  <2>9. TestOK'
    <3>1. \A j \in 1 .. Len(up') : up'[j].kind = "reply" => j \in 1 .. Len(up) /\ up[j].kind = "reply"
      BY ONLY <2>8
    <3>2. \A j \in 1 .. Len(up) : up[j].kind = "reply" => j \in 1 .. Len(up') /\ up'[j].kind = "reply"
      BY ONLY <2>2, <2>3
    <3>3. Tested' <=> Tested
      BY <1>2, <3>1, <3>2 DEF Tested
    <3> QED BY <1>2, <3>1, <3>3 DEF TestOK
  <2>10. LoginOK'
    <3>1. \A j \in 1 .. Len(up') : up'[j].kind = "login" => j \in 1 .. Len(up) /\ up[j].kind = "login"
      BY ONLY <2>8
    <3> QED BY <1>2, <3>1 DEF LoginOK
  <2>11. DataOK'
    <3>1. ASSUME logins <= 1, ~cm.accepted, ~pf_server.raw
          PROVE  Len(up') = k + 1 /\ \A i \in 1 .. k : up'[i + 1] = PfData(i)
      <4>1. Len(up) = written.app + 1 /\ \A i \in 1 .. written.app : up[i + 1] = PfData(i)
        BY <1>6, <3>1 DEF DataOK
      <4>2. \A a, b \in Nat : b = a + 1 =>
              /\ \A i \in 1 .. b : i \in 1 .. a \/ i = b
              /\ \A i \in 1 .. a : i + 1 \in 1 .. b
        OBVIOUS
      <4>3. Len(up) = k
        BY ONLY <1>1, <4>1
      <4>4. /\ \A i \in 1 .. k : i \in 1 .. written.app \/ i = k
            /\ \A i \in 1 .. written.app : i + 1 \in 1 .. Len(up)
        BY <1>1, <4>2, <4>3
      <4> QED BY ONLY <2>2, <4>1, <4>3, <4>4
    <3>2. ASSUME logins <= 1, ~cm.accepted, pf_server.raw
          PROVE  /\ Len(target) + Len(up') + Len(pf_client.buffer) = k
                 /\ \A i \in 1 .. Len(target) : target[i] = PfData(i)
                 /\ \A i \in 1 .. Len(up') : up'[i] = PfData(Len(target) + i)
      <4>1. /\ Len(target) + Len(up) + Len(pf_client.buffer) = written.app
            /\ \A i \in 1 .. Len(target) : target[i] = PfData(i)
            /\ \A i \in 1 .. Len(up) : up[i] = PfData(Len(target) + i)
        BY <3>2 DEF DataOK
      <4>2. Len(pf_client.buffer) = 0
        BY <1>6 DEF BufferOK
      <4>3. \A a, b, d, n, m \in Nat : d = b + 1 /\ a + b + 0 = n /\ m = n + 1
                                        => a + d + 0 = m /\ a + (b + 1) = m
        OBVIOUS
      <4>4. /\ Len(target) \in Nat /\ Len(up) \in Nat /\ Len(up') \in Nat /\ written.app \in Nat
        BY <2>2
      <4>5. Len(target) + Len(up') + 0 = k /\ Len(target) + (Len(up) + 1) = k
        BY ONLY <1>1, <2>2, <4>1, <4>2, <4>3, <4>4
      <4>6. \A i \in 1 .. Len(up') : up'[i] = PfData(Len(target) + i)
        BY ONLY <2>2, <2>3, <4>1, <4>5
      <4> QED BY ONLY <4>1, <4>2, <4>5, <4>6
    <3> QED BY <1>2, <1>3, <2>1, <3>1, <3>2 DEF DataOK
  <2> QED BY <2>4, <2>5, <2>6, <2>7, <2>9, <2>10, <2>11 DEF PfIInv
<1>7. CASE ~pf_client.raw
  <2>1. up' = up /\ pf_client' = [pf_client EXCEPT !.buffer = Append(@, PfData(k))]
    BY ONLY <1>2, <1>7
  <2> DEFINE b == Append(pf_client.buffer, PfData(k))
  <2>2. /\ b \in Seq(PfMsg) /\ Len(b) = Len(pf_client.buffer) + 1
        /\ b[Len(pf_client.buffer) + 1] = PfData(k)
        /\ \A j \in 1 .. Len(pf_client.buffer) : b[j] = pf_client.buffer[j]
    BY <1>4, Appended
  <2> HIDE DEF b
  <2>3. /\ pf_client' \in [raw : BOOLEAN, hash : BOOLEAN, buffer : Seq(PfMsg)]
        /\ pf_client'.raw = pf_client.raw /\ pf_client'.hash = pf_client.hash
        /\ pf_client'.buffer = b
    <3>1. pf_client \in [raw : BOOLEAN, hash : BOOLEAN, buffer : Seq(PfMsg)]
      BY DEF PfOrder
    <3>2. pf_client' = [pf_client EXCEPT !.buffer = b]
      BY ONLY <2>1 DEF b
    <3> QED BY ONLY <2>2, <3>1, <3>2
  <2>4. PfOrder'
    BY <1>2, <1>3, <2>1, <2>3 DEF PfOrder
  <2>5. BufferOK'
    <3>1. /\ Len(pf_client.buffer) = written.app
          /\ \A i \in 1 .. written.app : pf_client.buffer[i] = PfData(i)
      BY <1>7 DEF BufferOK
    <3>2. \A i \in 1 .. k : i \in 1 .. written.app \/ i = k
      BY <1>1, <1>5
    <3>3. Len(b) = k /\ \A i \in 1 .. k : b[i] = PfData(i)
      BY ONLY <1>1, <2>2, <3>1, <3>2
    <3> QED BY <1>3, <1>7, <2>3, <3>3 DEF BufferOK
  <2>6. DownOK'
    BY <1>2, <1>3, <2>1, <2>3 DEF DownOK
  <2>7. UpOK'
    BY <2>1, <2>3 DEF UpOK
  <2>8. TestOK' /\ LoginOK'
    BY <1>2, <2>1 DEF TestOK, Tested, LoginOK
  <2>9. DataOK'
    <3>1. ASSUME logins <= 1, ~cm.accepted, pf_server.raw
          PROVE  Len(target) + Len(up) + Len(b) = k
      <4>1. Len(target) + Len(up) + Len(pf_client.buffer) = written.app
        BY <3>1 DEF DataOK
      <4>2. \A a, c, d, n, m \in Nat : d = c + 1 /\ a + c = n /\ m = n + 1 => a + d = m
        OBVIOUS
      <4>3. /\ Len(target) + Len(up) \in Nat /\ Len(pf_client.buffer) \in Nat /\ Len(b) \in Nat
            /\ written.app \in Nat
        BY <2>2
      <4>4. PICK t \in Nat : t = Len(target) + Len(up)
        BY ONLY <4>3
      <4>5. t + Len(b) = k
        <5>1. t + Len(pf_client.buffer) = written.app /\ k \in Nat /\ t \in Nat
          BY <4>1, <4>4
        <5> QED BY ONLY <1>1, <2>2, <4>2, <4>3, <5>1
      <4> QED BY ONLY <4>4, <4>5
    <3> QED BY <1>2, <1>3, <1>7, <2>1, <2>3, <3>1 DEF DataOK
  <2> QED BY <2>4, <2>5, <2>6, <2>7, <2>8, <2>9 DEF PfIInv
<1> QED BY <1>6, <1>7

\* The server has read a message: what the cases of ServerGets have in common.  It goes
\* raw only when no test is under way, so nothing but data is left of the stream then.
LEMMA ServerTakes ==
  ASSUME PfIInv, ~pf_server.raw, up # <<>>, up' = Tail(up),
         UNCHANGED <<pf_client, target, app, written, logins>>,
         PfOrder', DownOK', cm'.accepted = cm.accepted,
         \A j \in 1 .. Len(down') : down'[j].kind = "test_delay"
                                      => j \in 1 .. Len(down) /\ down[j].kind = "test_delay",
         \A j \in 1 .. Len(down) : down[j].kind = "test_delay"
                                     => j \in 1 .. Len(down') /\ down'[j].kind = "test_delay",
         up[1].kind = "reply" => ~pf_server'.last_test_delay,
         up[1].kind # "reply" => pf_server'.last_test_delay = pf_server.last_test_delay,
         pf_server'.raw => ~pf_server'.last_test_delay,
         pf_server'.socket => up[1].kind = "login" \/ pf_server.socket,
         pf_client.raw => pf_server'.raw \/ logins > 1
  PROVE  PfIInv'
<1>1. /\ PfOrder /\ BufferOK /\ DownOK /\ UpOK /\ TestOK /\ LoginOK /\ DataOK
      /\ Len(target) \in Nat /\ Len(pf_client.buffer) \in Nat /\ written.app \in Nat /\ logins \in Nat
      /\ Len(up) \in Nat
  BY PfTypes
<1>2. /\ Len(up) = Len(up') + 1 /\ Len(up') \in Nat /\ UpOK'
      /\ \A i \in 1 .. Len(up') : i + 1 \in 1 .. Len(up) /\ up'[i] = up[i + 1]
  BY UpPopped
<1>3. /\ \A i, j \in 1 .. Len(up') : up'[i].kind = "reply" /\ up'[j].kind = "reply" => i = j
      /\ up[1].kind = "reply" => \A i \in 1 .. Len(up') : up'[i].kind # "reply"
      /\ logins = 0 => \A i \in 1 .. Len(up') : up'[i].kind # "login"
      /\ logins <= 1 =>
           /\ \A i, j \in 1 .. Len(up') : up'[i].kind = "login" /\ up'[j].kind = "login" => i = j
           /\ up[1].kind = "login" \/ pf_server.socket
                 => \A i \in 1 .. Len(up') : up'[i].kind # "login"
  BY UpPopped
<1>4. BufferOK'
  BY <1>1 DEF BufferOK
<1>5. LoginOK'
  BY ONLY <1>3, pf_server'.socket => up[1].kind = "login" \/ pf_server.socket, logins' = logins
     DEF LoginOK
<1>6. Tested' <=> pf_server'.last_test_delay
  <2>1. Tested <=> pf_server.last_test_delay
    BY <1>1 DEF TestOK
  <2>2. CASE up[1].kind = "reply"
    <3>1. 1 \in 1 .. Len(up)
      BY <1>1, <1>2
    <3>2. \A i \in 1 .. Len(down) : down[i].kind # "test_delay"
      BY ONLY <1>1, <2>2, <3>1 DEF TestOK
    <3> QED BY <1>3, <2>2, <3>2 DEF Tested
  <2>3. CASE up[1].kind # "reply"
    <3>1. ASSUME NEW i \in 1 .. Len(up), up[i].kind = "reply"
          PROVE  \E j \in 1 .. Len(up') : up'[j].kind = "reply"
      <4>1. i # 1 /\ i \in Nat
        BY <1>1, <2>3, <3>1
      <4>2. i - 1 \in 1 .. Len(up') /\ (i - 1) + 1 = i
        BY <1>1, <1>2, <4>1
      <4>3. up'[i - 1] = up[(i - 1) + 1]
        BY ONLY <1>2, <4>2
      <4> QED BY ONLY <3>1, <4>2, <4>3
    <3>2. Tested' <=> Tested
      BY <1>2, <3>1 DEF Tested
    <3> QED BY <2>1, <2>3, <3>2
  <2> QED BY <2>2, <2>3
<1>7. TestOK'
  <2>1. \A i \in 1 .. Len(down'), j \in 1 .. Len(up') :
          ~(down'[i].kind = "test_delay" /\ up'[j].kind = "reply")
    BY <1>1, <1>2 DEF TestOK
  <2>2. \A i, j \in 1 .. Len(down') :
          down'[i].kind = "test_delay" /\ down'[j].kind = "test_delay" => i = j
    BY <1>1 DEF TestOK
  <2> QED BY <1>3, <1>6, <2>1, <2>2 DEF TestOK
<1>8. DataOK'
  <2> SUFFICES ASSUME logins <= 1, pf_server'.raw
               PROVE  /\ Len(target) + Len(up') + Len(pf_client.buffer) = written.app
                      /\ \A i \in 1 .. Len(target) : target[i] = PfData(i)
                      /\ \A i \in 1 .. Len(up') : up'[i] = PfData(Len(target) + i)
    <3>1. pf_client.raw /\ logins <= 1 => pf_server'.raw
      BY <1>1
    <3> QED BY <3>1 DEF DataOK
  <2>1. Len(target) = 0 /\ \A i \in 1 .. Len(target) : target[i] = PfData(i)
    <3>1. target = <<>>
      BY <1>1 DEF PfOrder
    <3> QED BY ONLY <3>1
  <2>2. CASE pf_client.raw
    <3>1. ~cm.accepted
      BY <1>1 DEF PfOrder
    <3>2. Len(up) = written.app + 1 /\ \A i \in 1 .. written.app : up[i + 1] = PfData(i)
      BY <1>1, <2>2, <3>1 DEF DataOK
    <3>3. Len(pf_client.buffer) = 0
      BY <1>1, <2>2 DEF BufferOK
    <3>4. Len(up') = written.app
      BY ONLY <1>1, <1>2, <3>2
    <3>5. \A i \in 1 .. Len(up') : up'[i] = PfData(0 + i)
      BY ONLY <1>1, <1>2, <3>2, <3>4
    <3> QED BY ONLY <1>1, <2>1, <3>3, <3>4, <3>5
  <2>3. CASE ~pf_client.raw
    <3>1. \A i \in 1 .. Len(up') : up'[i].kind \in {"login", "reply"}
      BY <1>2, <2>3 DEF UpOK
    <3>2. \A i \in 1 .. Len(up') : up'[i].kind # "reply"
      BY <1>6 DEF Tested
    <3>3. pf_server'.socket
      BY DEF PfOrder
    <3>4. \A i \in 1 .. Len(up') : up'[i].kind # "login"
      BY <1>3, <3>3
    <3>5. Len(up') = 0
      <4>1. ASSUME 1 \in 1 .. Len(up') PROVE FALSE
        BY ONLY <3>1, <3>2, <3>4, <4>1
      <4> QED BY <1>2, <4>1
    <3>6. Len(pf_client.buffer) = written.app
      BY <1>1, <2>3 DEF BufferOK
    <3>7. \A i \in 1 .. Len(up') : up'[i] = PfData(Len(target) + i)
      BY ONLY <3>5
    <3> QED BY ONLY <1>1, <2>1, <3>5, <3>6, <3>7
  <2> QED BY <2>2, <2>3
<1> QED BY <1>2, <1>4, <1>5, <1>7, <1>8 DEF PfIInv

\* The server reads a login, or the reply to its test.
LEMMA ServerGetsKeeps ==
  ASSUME PfIInv, ServerGets, ~refused'
  PROVE  PfIInv'
<1> DEFINE Server == [raw : BOOLEAN, socket : BOOLEAN, authorized : BOOLEAN,
                      last_test_delay : BOOLEAN]
           Manager == [window : {"none", "asks", "shows"}, accepted : BOOLEAN, late : BOOLEAN]
<1>1. /\ ~pf_server.raw /\ up # <<>> /\ up' = Tail(up)
      /\ UNCHANGED <<pf_client, target, app, written, logins>>
  BY DEF ServerGets
<1>2. PfOrder /\ BufferOK /\ DownOK /\ UpOK /\ TestOK /\ LoginOK /\ DataOK
  BY PfTypes
<1>3. pf_server \in Server /\ cm \in Manager
  BY <1>2 DEF PfOrder
<1>4. up' \in Seq(PfMsg) /\ Head(up) = up[1] /\ 1 \in 1 .. Len(up)
  <2>1. /\ up' \in Seq(PfMsg) /\ Head(up) = up[1] /\ Len(up) = Len(up') + 1 /\ Len(up') \in Nat
    BY <1>1, UpPopped
  <2> QED BY <2>1
<1>5. ~cm.accepted
  BY <1>1, <1>2 DEF PfOrder
<1>6. /\ pf_server.authorized => pf_server.socket /\ pf_server.last_test_delay
      /\ pf_client.raw => pf_server.authorized
      /\ target = <<>> /\ written.target = 0
      /\ pf_server.socket => logins >= 1
  BY <1>1, <1>2 DEF PfOrder
<1>7. /\ \A j \in 1 .. Len(down) : down[j].kind = "test_delay" => j \in 1 .. Len(down)
      /\ down \in Seq(PfMsg)
  BY <1>2 DEF PfOrder
<1>8. CASE Head(up).kind = "login" /\ GetsLogin
  <2>1. up[1].kind = "login" /\ logins >= 1
    <3>1. up[1].kind = "login" /\ logins # 0
      BY <1>2, <1>4, <1>8 DEF LoginOK
    <3>2. logins \in Nat
      BY PfTypes
    <3> QED BY ONLY <3>1, <3>2
  <2>2. CASE /\ ~pf_server.authorized
             /\ pf_server' = AfterMessage([[pf_server EXCEPT !.socket = TRUE] EXCEPT !.authorized = TRUE])
             /\ down' = Append(down, Msg("peer_info"))
             /\ cm' = IF cm.window = "none" THEN [cm EXCEPT !.window = "shows"] ELSE cm
    <3>1. /\ pf_server' \in Server /\ pf_server'.socket /\ pf_server'.authorized
          /\ pf_server'.last_test_delay = pf_server.last_test_delay
          /\ pf_server'.raw = ~pf_server.last_test_delay
      BY ONLY <1>3, <2>2 DEF AfterMessage
    <3>2. cm' \in Manager /\ cm'.accepted = cm.accepted /\ cm'.late = cm.late
      BY ONLY <1>3, <2>2
    <3>3. Msg("peer_info") \in PfMsg /\ Msg("peer_info").kind = "peer_info"
      <4>1. "peer_info" \in Kinds \cup {"data"}
        BY DEF Kinds
      <4> QED BY <4>1, MessageKinds
    <3>4. /\ DownOK' /\ down' \in Seq(PfMsg)
          /\ \A j \in 1 .. Len(down') : down'[j].kind = "test_delay"
                                          => j \in 1 .. Len(down) /\ down[j].kind = "test_delay"
          /\ \A j \in 1 .. Len(down) : down[j].kind = "test_delay"
                                         => j \in 1 .. Len(down') /\ down'[j].kind = "test_delay"
      BY <1>1, <2>2, <3>1, <3>3, PeerInfoSent
    <3>5. PfOrder'
      BY <1>1, <1>2, <1>4, <1>5, <1>6, <2>1, <3>1, <3>2, <3>4 DEF PfOrder
    <3>6. ~pf_client.raw /\ (pf_server'.raw => ~pf_server'.last_test_delay)
      BY <1>3, <1>6, <2>2, <3>1
    <3> QED BY <1>1, <2>1, <3>1, <3>2, <3>4, <3>5, <3>6, ServerTakes
  <2>3. CASE /\ ~pf_server.authorized
             /\ pf_server' = AfterMessage([pf_server EXCEPT !.socket = TRUE])
             /\ down' \in {down, Append(down, Msg("error"))}
             /\ cm' \in {cm, [cm EXCEPT !.window = "asks"]}
    <3>1. /\ pf_server' \in Server /\ pf_server'.socket /\ ~pf_server'.authorized
          /\ pf_server'.last_test_delay = pf_server.last_test_delay /\ ~pf_server'.raw
      BY ONLY <1>3, <2>3 DEF AfterMessage
    <3>2. cm' \in Manager /\ cm'.accepted = cm.accepted /\ cm'.late = cm.late
      BY ONLY <1>3, <2>3
    <3>3. Msg("error") \in PfMsg /\ Msg("error").kind = "error"
      <4>1. "error" \in Kinds \cup {"data"}
        BY DEF Kinds
      <4> QED BY <4>1, MessageKinds
    <3>4. ~pf_client.raw
      BY <1>6, <2>3
    <3>5. /\ DownOK' /\ down' \in Seq(PfMsg)
          /\ \A j \in 1 .. Len(down') : down'[j].kind = "test_delay"
                                          => j \in 1 .. Len(down) /\ down[j].kind = "test_delay"
          /\ \A j \in 1 .. Len(down) : down[j].kind = "test_delay"
                                         => j \in 1 .. Len(down') /\ down'[j].kind = "test_delay"
      <4>1. CASE down' = down
        <5>1. DownOK'
          BY <1>1, <1>2, <2>3, <3>1, <3>4, <4>1 DEF DownOK
        <5> QED BY <1>7, <4>1, <5>1
      <4>2. CASE down' = Append(down, Msg("error"))
        <5>1. /\ down' \in Seq(PfMsg) /\ Len(down') = Len(down) + 1
              /\ down'[Len(down) + 1] = Msg("error")
              /\ \A j \in 1 .. Len(down) : down'[j] = down[j]
          BY <1>7, <3>3, <4>2, Appended
        <5>2. /\ \A j \in 1 .. Len(down') : j \in 1 .. Len(down) \/ j = Len(down) + 1
              /\ \A j \in 1 .. Len(down) : j \in 1 .. Len(down')
          <6>1. Len(down) \in Nat
            BY <1>7
          <6> QED BY ONLY <5>1, <6>1
        <5>3. \A j \in 1 .. Len(down') :
                down'[j].kind = "error" \/ (j \in 1 .. Len(down) /\ down'[j] = down[j])
          BY ONLY <3>3, <5>1, <5>2
        <5>4. /\ \A j \in 1 .. Len(down') : down'[j].kind \notin {"data", "peer_info"}
              /\ \A j \in 1 .. Len(down') :
                   down'[j].kind = "hash" => j = 1 /\ logins = 0 /\ ~pf_client.hash
              /\ app = <<>> /\ (pf_client.hash => logins >= 1)
          BY <1>2, <2>3, <5>3 DEF DownOK
        <5>5. DownOK'
          BY <1>1, <3>1, <3>4, <5>4 DEF DownOK
        <5>6. /\ \A j \in 1 .. Len(down') : down'[j].kind = "test_delay"
                                              => j \in 1 .. Len(down) /\ down[j].kind = "test_delay"
              /\ \A j \in 1 .. Len(down) : down[j].kind = "test_delay"
                                             => j \in 1 .. Len(down') /\ down'[j].kind = "test_delay"
          BY ONLY <5>1, <5>2, <5>3
        <5> QED BY <5>1, <5>5, <5>6
      <4> QED BY <2>3, <4>1, <4>2
    <3>6. PfOrder'
      BY <1>1, <1>2, <1>4, <1>5, <1>6, <2>1, <3>1, <3>2, <3>4, <3>5 DEF PfOrder
    <3> QED BY <1>1, <2>1, <3>1, <3>2, <3>4, <3>5, <3>6, ServerTakes
  <2>4. CASE /\ pf_server.authorized
             /\ pf_server' = AfterMessage(pf_server)
             /\ UNCHANGED <<down, cm>>
    <3>1. /\ pf_server' \in Server /\ pf_server'.socket = pf_server.socket
          /\ pf_server'.authorized = pf_server.authorized
          /\ pf_server'.last_test_delay = pf_server.last_test_delay
          /\ pf_server'.raw = (pf_server.socket /\ pf_server.authorized /\ ~pf_server.last_test_delay)
      BY ONLY <1>3, <2>4 DEF AfterMessage
    <3>2. pf_server.socket /\ pf_server.last_test_delay /\ ~pf_server'.raw
      BY <1>6, <2>4, <3>1
    <3>3. logins > 1
      <4>1. ~(logins <= 1) /\ logins \in Nat
        BY <1>2, <1>4, <2>1, <3>2, PfTypes DEF LoginOK
      <4> QED BY ONLY <4>1
    <3>4. PfOrder'
      BY <1>1, <1>2, <1>4, <2>4, <3>1, <3>2 DEF PfOrder
    <3>5. DownOK'
      BY <1>1, <1>2, <2>4, <3>1 DEF DownOK
    <3> QED BY <1>1, <1>7, <2>1, <2>4, <3>1, <3>2, <3>3, <3>4, <3>5, ServerTakes
  <2> QED BY <1>8, <2>2, <2>3, <2>4 DEF GetsLogin
<1>9. CASE /\ Head(up).kind = "reply"
           /\ pf_server' = AfterMessage([pf_server EXCEPT !.last_test_delay = FALSE])
           /\ UNCHANGED <<down, cm>>
  <2>1. /\ pf_server' \in Server /\ pf_server'.socket = pf_server.socket
        /\ pf_server'.authorized = pf_server.authorized /\ ~pf_server'.last_test_delay
        /\ pf_server'.raw = (pf_server.socket /\ pf_server.authorized)
    BY ONLY <1>3, <1>9 DEF AfterMessage
  <2>2. /\ pf_server'.raw = pf_server.authorized
        /\ pf_client.raw => pf_server'.raw
    BY <1>3, <1>6, <2>1
  <2>3. up[1].kind = "reply"
    BY <1>4, <1>9
  <2>4. PfOrder'
    BY <1>1, <1>2, <1>4, <1>5, <1>6, <1>9, <2>1, <2>2 DEF PfOrder
  <2>5. DownOK'
    BY <1>1, <1>2, <1>9, <2>1 DEF DownOK
  <2> QED BY <1>1, <1>7, <1>9, <2>1, <2>2, <2>3, <2>4, <2>5, ServerTakes
<1> QED BY <1>8, <1>9 DEF ServerGets

\* The client reads a message that is not PeerInfo: the rest of the stream is as it was.
LEMMA DownShifts ==
  ASSUME PfIInv, ~pf_client.raw, down # <<>>, down' = Tail(down), down[1].kind # "peer_info",
         UNCHANGED <<pf_server, app, written, cm>>, ~pf_client'.raw,
         pf_client'.hash => logins' >= 1
  PROVE  DownOK'
<1>1. /\ Len(down) = Len(down') + 1 /\ Len(down') \in Nat /\ 1 \in 1 .. Len(down)
      /\ \A i \in 1 .. Len(down') : i + 1 \in 1 .. Len(down) /\ down'[i] = down[i + 1]
      /\ \A i \in 1 .. Len(down') : down'[i].kind # "hash"
  BY DownPopped
<1>2. DownOK /\ Len(down) \in Nat /\ written.target \in Nat
  BY PfTypes
<1>3. CASE ~pf_server.authorized
  <2>1. app = <<>> /\ \A i \in 1 .. Len(down') : down'[i].kind \notin {"data", "peer_info"}
    BY <1>1, <1>2, <1>3 DEF DownOK
  <2> QED BY <1>1, <1>3, <2>1 DEF DownOK
<1>4. CASE pf_server.authorized
  <2>1. PICK i \in 1 .. Len(down) :
          /\ down[i].kind = "peer_info"
          /\ \A j \in 1 .. Len(down) : j < i => down[j].kind \notin {"data", "peer_info"}
          /\ \A j \in 1 .. Len(down) : i < j => down[j].kind \in {"misc", "data"}
          /\ ~cm.late => /\ Len(down) = i + written.target
                         /\ \A j \in 1 .. written.target : down[i + j] = PfData(j)
    BY <1>2, <1>4 DEF DownOK
  <2>2. PICK k \in 1 .. Len(down') : i = k + 1
    <3>1. i # 1 /\ i \in 1 .. Len(down)
      BY <2>1
    <3>2. i - 1 \in 1 .. Len(down') /\ i = (i - 1) + 1
      BY ONLY <1>1, <1>2, <3>1
    <3> QED BY ONLY <3>2
  <2>3. k \in Nat /\ k \in 1 .. Len(down') /\ down'[k].kind = "peer_info"
    BY <1>1, <2>1, <2>2
  <2>4. \A a \in Nat, j \in 1 .. Len(down') : (j < a => j + 1 < a + 1) /\ (a < j => a + 1 < j + 1)
    BY <1>1
  <2>5. /\ \A j \in 1 .. Len(down') : j < k => down'[j].kind \notin {"data", "peer_info"}
        /\ \A j \in 1 .. Len(down') : k < j => down'[j].kind \in {"misc", "data"}
    BY ONLY <1>1, <2>1, <2>2, <2>3, <2>4
  <2>6. ASSUME ~cm.late
        PROVE  /\ Len(down') = k + written.target
               /\ \A j \in 1 .. written.target : down'[k + j] = PfData(j)
    <3>1. Len(down) = i + written.target /\ \A j \in 1 .. written.target : down[i + j] = PfData(j)
      BY <2>1, <2>6
    <3>2. Len(down') = k + written.target
      <4>1. \A a, b, c, n \in Nat : a = b + 1 /\ a = (c + 1) + n => b = c + n
        OBVIOUS
      <4>2. Len(down) = (k + 1) + written.target /\ Len(down) = Len(down') + 1
        BY ONLY <1>1, <2>2, <3>1
      <4> QED BY ONLY <1>1, <1>2, <2>3, <4>1, <4>2
    <3>3. ASSUME NEW j \in 1 .. written.target PROVE down'[k + j] = PfData(j)
      <4>1. j \in Nat /\ j \in 1 .. written.target
        BY <1>2
      <4>2. k + j \in 1 .. Len(down') /\ (k + j) + 1 = i + j
        BY ONLY <1>1, <1>2, <2>2, <2>3, <3>2, <4>1
      <4>3. down'[k + j] = down[(k + j) + 1]
        BY ONLY <1>1, <4>2
      <4> QED BY ONLY <3>1, <4>1, <4>2, <4>3
    <3> QED BY <3>2, <3>3
  <2>7. app = <<>>
    BY <1>2, <1>4 DEF DownOK
  <2> QED BY <1>1, <1>4, <2>3, <2>5, <2>6, <2>7 DEF DownOK
<1> QED BY <1>3, <1>4

\* Hash is answered by the first login.
LEMMA GetsHashKeeps ==
  ASSUME PfIInv, ~pf_client.raw, down # <<>>, down' = Tail(down), down[1].kind = "hash",
         pf_client' = [pf_client EXCEPT !.hash = TRUE], up' = Append(up, Msg("login")),
         logins' = logins + 1, UNCHANGED <<pf_server, target, app, written, cm>>
  PROVE  PfIInv'
<1>1. /\ PfOrder /\ BufferOK /\ DownOK /\ UpOK /\ TestOK /\ LoginOK /\ DataOK
      /\ up \in Seq(PfMsg) /\ Len(up) \in Nat
  BY PfTypes
<1>2. /\ down' \in Seq(PfMsg) /\ 1 \in 1 .. Len(down)
      /\ \A i \in 1 .. Len(down') : i + 1 \in 1 .. Len(down) /\ down'[i] = down[i + 1]
      /\ \A i, j \in 1 .. Len(down') :
           down'[i].kind = "test_delay" /\ down'[j].kind = "test_delay" => i = j
      /\ (\E i \in 1 .. Len(down) : down[i].kind = "test_delay")
           => \E i \in 1 .. Len(down') : down'[i].kind = "test_delay"
  BY DownPopped
<1>3. logins = 0 /\ logins' = 1
  BY <1>1, <1>2 DEF DownOK
<1>4. ~pf_server.socket /\ ~pf_server.authorized /\ ~pf_server.raw
  BY <1>1, <1>3 DEF PfOrder
<1>5. /\ pf_client' \in [raw : BOOLEAN, hash : BOOLEAN, buffer : Seq(PfMsg)]
      /\ ~pf_client'.raw /\ pf_client'.hash /\ pf_client'.buffer = pf_client.buffer
  <2>1. pf_client \in [raw : BOOLEAN, hash : BOOLEAN, buffer : Seq(PfMsg)]
    BY <1>1 DEF PfOrder
  <2> QED BY <2>1
<1>6. Msg("login") \in PfMsg /\ Msg("login").kind = "login"
  <2>1. "login" \in Kinds \cup {"data"}
    BY DEF Kinds
  <2> QED BY <2>1, MessageKinds
<1>7. /\ up' \in Seq(PfMsg) /\ Len(up') = Len(up) + 1 /\ up'[Len(up) + 1] = Msg("login")
      /\ \A j \in 1 .. Len(up) : up'[j] = up[j]
  BY <1>1, <1>6, Appended
<1>8. /\ \A j \in 1 .. Len(up') : j \in 1 .. Len(up) \/ j = Len(up) + 1
      /\ \A j \in 1 .. Len(up) : j \in 1 .. Len(up')
  BY ONLY <1>1, <1>7
<1>9. \A j \in 1 .. Len(up') :
        (j = Len(up) + 1 /\ up'[j].kind = "login") \/ (j \in 1 .. Len(up) /\ up'[j] = up[j])
  BY ONLY <1>6, <1>7, <1>8
<1>10. PfOrder'
  BY <1>1, <1>2, <1>3, <1>4, <1>5, <1>7 DEF PfOrder
<1>11. BufferOK'
  BY <1>1, <1>5 DEF BufferOK
<1>12. DownOK'
  BY <1>2, <1>3, <1>5, DownShifts
<1>13. UpOK'
  <2>1. \A j \in 1 .. Len(up') : up'[j].kind \in {"login", "reply"}
    BY <1>1, <1>9 DEF UpOK
  <2> QED BY <2>1 DEF UpOK
<1>14. TestOK'
  <2>1. \A j \in 1 .. Len(up') : up'[j].kind = "reply" => j \in 1 .. Len(up) /\ up[j].kind = "reply"
    BY ONLY <1>9
  <2>2. \A j \in 1 .. Len(up) : up[j].kind = "reply" => j \in 1 .. Len(up') /\ up'[j].kind = "reply"
    BY ONLY <1>7, <1>8
  <2>3. Tested' <=> Tested
    BY <1>2, <2>1, <2>2 DEF Tested
  <2>4. \A i, j \in 1 .. Len(up') : up'[i].kind = "reply" /\ up'[j].kind = "reply" => i = j
    BY <1>1, <2>1 DEF TestOK
  <2>5. \A i \in 1 .. Len(down'), j \in 1 .. Len(up') :
          ~(down'[i].kind = "test_delay" /\ up'[j].kind = "reply")
    BY <1>1, <1>2, <2>1 DEF TestOK
  <2> QED BY <1>1, <1>2, <1>4, <2>3, <2>4, <2>5 DEF TestOK
<1>15. LoginOK'
  <2>1. \A j \in 1 .. Len(up') : up'[j].kind = "login" => j = Len(up) + 1
    BY <1>1, <1>3, <1>9 DEF LoginOK
  <2> QED BY <1>3, <1>4, <2>1 DEF LoginOK
<1>16. DataOK'
  BY <1>4, <1>5 DEF DataOK
<1> QED BY <1>10, <1>11, <1>12, <1>13, <1>14, <1>15, <1>16 DEF PfIInv

\* A test delay is answered, and so is on its way back.
LEMMA GetsTestDelayKeeps ==
  ASSUME PfIInv, ~pf_client.raw, down # <<>>, down' = Tail(down), down[1].kind = "test_delay",
         up' = Append(up, Msg("reply")),
         UNCHANGED <<pf_client, logins, pf_server, target, app, written, cm>>
  PROVE  PfIInv'
<1>1. /\ PfOrder /\ BufferOK /\ DownOK /\ UpOK /\ TestOK /\ LoginOK /\ DataOK
      /\ up \in Seq(PfMsg) /\ Len(up) \in Nat
  BY PfTypes
<1>2. /\ down' \in Seq(PfMsg) /\ 1 \in 1 .. Len(down)
      /\ \A i \in 1 .. Len(down') : down'[i].kind # "test_delay"
  BY DownPopped
<1>3. Tested /\ \A i \in 1 .. Len(up) : up[i].kind # "reply"
  BY <1>1, <1>2 DEF Tested, TestOK
<1>4. Msg("reply") \in PfMsg /\ Msg("reply").kind = "reply"
  <2>1. "reply" \in Kinds \cup {"data"}
    BY DEF Kinds
  <2> QED BY <2>1, MessageKinds
<1>5. /\ up' \in Seq(PfMsg) /\ Len(up') = Len(up) + 1 /\ up'[Len(up) + 1] = Msg("reply")
      /\ \A j \in 1 .. Len(up) : up'[j] = up[j]
  BY <1>1, <1>4, Appended
<1>6. /\ \A j \in 1 .. Len(up') : j \in 1 .. Len(up) \/ j = Len(up) + 1
      /\ Len(up) + 1 \in 1 .. Len(up')
  BY ONLY <1>1, <1>5
<1>7. \A j \in 1 .. Len(up') :
        (j = Len(up) + 1 /\ up'[j].kind = "reply") \/ (j \in 1 .. Len(up) /\ up'[j] = up[j])
  BY ONLY <1>4, <1>5, <1>6
<1>8. PfOrder'
  BY <1>1, <1>2, <1>5 DEF PfOrder
<1>9. BufferOK'
  BY <1>1 DEF BufferOK
<1>10. DownOK'
  <2>1. pf_client.hash => logins >= 1
    BY <1>1 DEF DownOK
  <2> QED BY <2>1, DownShifts
<1>11. UpOK'
  <2>1. \A j \in 1 .. Len(up') : up'[j].kind \in {"login", "reply"}
    BY <1>1, <1>7 DEF UpOK
  <2> QED BY <2>1 DEF UpOK
<1>12. TestOK'
  <2>1. \A j \in 1 .. Len(up') : up'[j].kind = "reply" => j = Len(up) + 1
    BY ONLY <1>3, <1>7
  <2>2. Tested'
    BY <1>4, <1>5, <1>6 DEF Tested
  <2> QED BY <1>1, <1>2, <1>3, <2>1, <2>2 DEF TestOK
<1>13. LoginOK'
  <2>1. \A j \in 1 .. Len(up') : up'[j].kind = "login" => j \in 1 .. Len(up) /\ up[j].kind = "login"
    BY ONLY <1>7
  <2> QED BY <1>1, <2>1 DEF LoginOK
<1>14. DataOK'
  BY <1>1, <1>3 DEF DataOK, TestOK
<1> QED BY <1>8, <1>9, <1>10, <1>11, <1>12, <1>13, <1>14 DEF PfIInv

\* Other messages change nothing.
LEMMA GetsOtherKeeps ==
  ASSUME PfIInv, ~pf_client.raw, down # <<>>, down' = Tail(down),
         down[1].kind \notin {"peer_info", "test_delay"},
         UNCHANGED <<up, pf_client, logins, pf_server, target, app, written, cm>>
  PROVE  PfIInv'
<1>1. PfOrder /\ BufferOK /\ DownOK /\ UpOK /\ TestOK /\ LoginOK /\ DataOK
  BY PfTypes
<1>2. /\ down' \in Seq(PfMsg)
      /\ \A i \in 1 .. Len(down') : i + 1 \in 1 .. Len(down) /\ down'[i] = down[i + 1]
      /\ \A i, j \in 1 .. Len(down') :
           down'[i].kind = "test_delay" /\ down'[j].kind = "test_delay" => i = j
      /\ (\E i \in 1 .. Len(down) : down[i].kind = "test_delay")
           => \E i \in 1 .. Len(down') : down'[i].kind = "test_delay"
  BY DownPopped
<1>3. PfOrder'
  BY <1>1, <1>2 DEF PfOrder
<1>4. BufferOK' /\ UpOK' /\ LoginOK' /\ DataOK'
  BY <1>1 DEF BufferOK, UpOK, LoginOK, DataOK
<1>5. DownOK'
  <2>1. pf_client.hash => logins >= 1
    BY <1>1 DEF DownOK
  <2> QED BY <2>1, DownShifts
<1>6. TestOK'
  <2>1. Tested' <=> Tested
    BY <1>2 DEF Tested
  <2>2. \A i \in 1 .. Len(down'), j \in 1 .. Len(up) :
          ~(down'[i].kind = "test_delay" /\ up[j].kind = "reply")
    BY <1>1, <1>2 DEF TestOK
  <2> QED BY <1>1, <1>2, <2>1, <2>2 DEF TestOK
<1> QED BY <1>3, <1>4, <1>5, <1>6 DEF PfIInv

\* PeerInfo: the client goes raw and sends its buffer.  The server is raw already and has
\* nothing left to read, or waits for the reply, which is then all that is before the data.
LEMMA GetsPeerInfoKeeps ==
  ASSUME PfIInv, ~pf_client.raw, down # <<>>, down' = Tail(down), down[1].kind = "peer_info",
         pf_client' = [pf_client EXCEPT !.raw = TRUE, !.buffer = <<>>],
         up' = up \o pf_client.buffer,
         UNCHANGED <<logins, pf_server, target, app, written, cm>>
  PROVE  PfIInv'
<1>1. /\ PfOrder /\ BufferOK /\ DownOK /\ UpOK /\ TestOK /\ LoginOK /\ DataOK
      /\ up \in Seq(PfMsg) /\ Len(up) \in Nat /\ pf_client.buffer \in Seq(PfMsg)
      /\ Len(down) \in Nat /\ Len(target) \in Nat /\ written.app \in Nat /\ written.target \in Nat
      /\ Len(pf_client.buffer) \in Nat
  BY PfTypes
<1>2. /\ down' \in Seq(PfMsg) /\ Len(down) = Len(down') + 1 /\ Len(down') \in Nat
      /\ 1 \in 1 .. Len(down)
      /\ \A i \in 1 .. Len(down') : i + 1 \in 1 .. Len(down) /\ down'[i] = down[i + 1]
      /\ \A i \in 1 .. Len(down') : down'[i].kind # "hash"
  BY DownPopped
<1>3. /\ pf_client' \in [raw : BOOLEAN, hash : BOOLEAN, buffer : Seq(PfMsg)]
      /\ pf_client'.raw /\ pf_client'.hash = pf_client.hash /\ pf_client'.buffer = <<>>
  <2>1. pf_client \in [raw : BOOLEAN, hash : BOOLEAN, buffer : Seq(PfMsg)]
    BY <1>1 DEF PfOrder
  <2>2. pf_client' = [pf_client EXCEPT !.raw = TRUE, !.buffer = <<>>] /\ <<>> \in Seq(PfMsg)
    OBVIOUS
  <2>3. PICK e \in Seq(PfMsg) : e = <<>>
    BY <2>2
  <2>4. pf_client' = [pf_client EXCEPT !.raw = TRUE, !.buffer = e] /\ e \in Seq(PfMsg)
    BY <2>2, <2>3
  <2>5. /\ pf_client' \in [raw : BOOLEAN, hash : BOOLEAN, buffer : Seq(PfMsg)]
        /\ pf_client'.raw /\ pf_client'.hash = pf_client.hash /\ pf_client'.buffer = e
    BY ONLY <2>1, <2>4
  <2> QED BY <2>3, <2>5
<1>4. /\ up' \in Seq(PfMsg) /\ Len(up') = Len(up) + Len(pf_client.buffer)
      /\ \A i \in 1 .. Len(up) : up'[i] = up[i]
      /\ \A i \in 1 .. Len(pf_client.buffer) : up'[Len(up) + i] = pf_client.buffer[i]
  BY <1>1, Joined2
<1>5. Len(pf_client.buffer) = written.app /\ \A i \in 1 .. written.app : pf_client.buffer[i] = PfData(i)
  BY <1>1 DEF BufferOK
<1>6. /\ \A i \in 1 .. Len(up) : i \in 1 .. Len(up')
      /\ \A i \in 1 .. Len(up') :
           i \in 1 .. Len(up) \/ \E j \in 1 .. written.app : i = Len(up) + j
  <2>1. \A a, b, c \in Nat : c = a + b =>
          /\ \A i \in 1 .. a : i \in 1 .. c
          /\ \A i \in 1 .. c : i \in 1 .. a \/ (i - a \in 1 .. b /\ i = a + (i - a))
    OBVIOUS
  <2>2. /\ \A i \in 1 .. Len(up) : i \in 1 .. Len(up')
        /\ \A i \in 1 .. Len(up') : \/ i \in 1 .. Len(up)
                                    \/ /\ i - Len(up) \in 1 .. written.app
                                       /\ i = Len(up) + (i - Len(up))
    <3>1. Len(up') = Len(up) + written.app /\ Len(up') \in Nat
      BY <1>4, <1>5
    <3> QED BY ONLY <1>1, <2>1, <3>1
  <2> QED BY ONLY <2>2
<1>7. \A j \in 1 .. written.app : up'[Len(up) + j] = PfData(j) /\ PfData(j).kind = "data"
  <2>1. \A j \in 1 .. written.app : j \in Nat
    BY <1>1
  <2> QED BY ONLY <1>4, <1>5, <2>1, MessageKinds
<1>8. \A i \in 1 .. Len(up') : up'[i].kind # "data" => i \in 1 .. Len(up) /\ up'[i] = up[i]
  BY ONLY <1>4, <1>6, <1>7
<1>9. pf_server.authorized /\ pf_server.socket
  BY <1>1, <1>2 DEF DownOK, PfOrder
<1>10. /\ \A j \in 1 .. Len(down) : 1 < j => down[j].kind \in {"misc", "data"}
       /\ ~cm.late => /\ Len(down) = 1 + written.target
                      /\ \A j \in 1 .. written.target : down[1 + j] = PfData(j)
  <2>1. PICK i \in 1 .. Len(down) :
          /\ down[i].kind = "peer_info"
          /\ \A j \in 1 .. Len(down) : j < i => down[j].kind \notin {"data", "peer_info"}
          /\ \A j \in 1 .. Len(down) : i < j => down[j].kind \in {"misc", "data"}
          /\ ~cm.late => /\ Len(down) = i + written.target
                         /\ \A j \in 1 .. written.target : down[i + j] = PfData(j)
    BY <1>1, <1>9 DEF DownOK
  <2>2. i = 1
    <3>1. ~(1 < i)
      BY <1>2, <2>1
    <3> QED BY <1>1, <3>1
  <2> QED BY <2>1, <2>2
<1>11. \A j \in 1 .. Len(down') : down'[j].kind \in {"misc", "data"}
  <2>1. \A j \in 1 .. Len(down') : 1 < j + 1
    BY <1>2
  <2> QED BY ONLY <1>2, <1>10, <2>1
<1>12. PfOrder'
  BY <1>1, <1>2, <1>3, <1>4, <1>9 DEF PfOrder
<1>13. BufferOK'
  BY <1>3 DEF BufferOK
<1>14. DownOK'
  <2>1. app = <<>> /\ (pf_client.hash => logins >= 1)
    BY <1>1, <1>9 DEF DownOK
  <2>2. Len(app) = 0
    BY ONLY <2>1
  <2>3. ASSUME ~cm.late
        PROVE  /\ Len(app) + Len(down') = written.target
               /\ \A i \in 1 .. Len(app) : app[i] = PfData(i)
               /\ \A j \in 1 .. Len(down') : down'[j] = PfData(Len(app) + j)
    <3>1. Len(down) = 1 + written.target /\ \A j \in 1 .. written.target : down[1 + j] = PfData(j)
      BY <1>10, <2>3
    <3>2. Len(down') = written.target
      BY ONLY <1>1, <1>2, <3>1
    <3>3. \A j \in 1 .. Len(down') : 1 + j = j + 1 /\ 0 + j = j
      BY <1>2
    <3>4. \A j \in 1 .. Len(down') : down'[j] = PfData(0 + j)
      BY ONLY <1>2, <3>1, <3>2, <3>3
    <3> QED BY ONLY <1>1, <2>2, <3>2, <3>4
  <2> QED BY <1>2, <1>3, <1>9, <1>11, <2>1, <2>3 DEF DownOK
<1>15. UpOK'
  <2>1. \A i \in 1 .. Len(up) : up[i].kind \in {"login", "reply"}
    BY <1>1 DEF UpOK
  <2>2. \A i \in 1 .. Len(up') : up'[i].kind \in {"login", "reply", "data"}
    BY ONLY <1>8, <2>1
  <2>3. ASSUME NEW i \in 1 .. Len(up'), NEW j \in 1 .. Len(up'), i < j, up'[i].kind = "data"
        PROVE  up'[j].kind = "data"
    <3>1. i \notin 1 .. Len(up)
      BY ONLY <1>4, <2>1, <2>3
    <3>2. j \notin 1 .. Len(up)
      <4>1. i \in Nat /\ j \in Nat /\ i >= 1
        BY <1>4
      <4> QED BY ONLY <1>1, <2>3, <3>1, <4>1
    <3> QED BY <1>8, <3>2
  <2> QED BY <1>3, <2>2, <2>3 DEF UpOK
<1>16. \A i \in 1 .. Len(up) : i \in 1 .. Len(up') /\ up'[i] = up[i]
  BY ONLY <1>4, <1>6
<1>17. /\ \A i \in 1 .. Len(down') : down'[i].kind # "test_delay"
       /\ \A i \in 1 .. Len(down) : down[i].kind # "test_delay"
  <2>1. \A i \in 1 .. Len(down) : i = 1 \/ 1 < i
    BY <1>1
  <2> QED BY <1>10, <1>11, <2>1
<1>18. TestOK'
  <2>1. \A i \in 1 .. Len(up') : up'[i].kind = "reply" => i \in 1 .. Len(up) /\ up[i].kind = "reply"
    BY ONLY <1>8
  <2>2. Tested' <=> Tested
    BY <1>16, <1>17, <2>1 DEF Tested
  <2>3. \A i, j \in 1 .. Len(up') : up'[i].kind = "reply" /\ up'[j].kind = "reply" => i = j
    BY <1>1, <2>1 DEF TestOK
  <2> QED BY <1>1, <1>17, <2>2, <2>3 DEF TestOK
<1>19. LoginOK'
  <2>1. \A i \in 1 .. Len(up') : up'[i].kind = "login" => i \in 1 .. Len(up) /\ up[i].kind = "login"
    BY ONLY <1>8
  <2> QED BY <1>1, <2>1 DEF LoginOK
<1>20. ASSUME logins <= 1, ~cm.accepted, ~pf_server.raw
       PROVE  Len(up') = written.app + 1 /\ \A i \in 1 .. written.app : up'[i + 1] = PfData(i)
  <2>1. PICK r \in 1 .. Len(up) : up[r].kind = "reply"
    BY <1>1, <1>9, <1>17, <1>20 DEF PfOrder, TestOK, Tested
  <2>2. \A i \in 1 .. Len(up) : up[i].kind = "reply"
    BY <1>1, <1>9, <1>20 DEF UpOK, LoginOK
  <2>3. \A i \in 1 .. Len(up) : i = r
    BY <1>1, <2>1, <2>2 DEF TestOK
  <2>4. Len(up) = 1
    <3>1. 1 \in 1 .. Len(up) /\ Len(up) \in 1 .. Len(up)
      BY <1>1, <2>1
    <3> QED BY ONLY <2>3, <3>1
  <2>5. \A i \in 1 .. written.app : 1 + i = i + 1
    BY <1>1
  <2> QED BY ONLY <1>1, <1>4, <1>5, <1>7, <2>4, <2>5
<1>21. ASSUME logins <= 1, ~cm.accepted, pf_server.raw
       PROVE  /\ Len(target) + Len(up') + 0 = written.app
              /\ \A i \in 1 .. Len(target) : target[i] = PfData(i)
              /\ \A i \in 1 .. Len(up') : up'[i] = PfData(Len(target) + i)
  <2>1. /\ Len(target) + Len(up) + Len(pf_client.buffer) = written.app
        /\ \A i \in 1 .. Len(target) : target[i] = PfData(i)
    BY <1>1, <1>21 DEF DataOK
  <2>2. \A a, b, c \in Nat : a + b + c = c => a = 0 /\ b = 0
    OBVIOUS
  <2>3. Len(target) = 0 /\ Len(up) = 0
    BY ONLY <1>1, <1>5, <2>1, <2>2
  <2>4. Len(up') = written.app
    BY ONLY <1>1, <1>4, <1>5, <2>3
  <2>5. \A i \in 1 .. written.app : 0 + i = i
    BY <1>1
  <2>6. \A i \in 1 .. Len(up') : up'[i] = PfData(0 + i)
    BY ONLY <1>7, <2>3, <2>4, <2>5
  <2> QED BY ONLY <1>1, <2>1, <2>3, <2>4, <2>6
<1>22. DataOK'
  <2>1. Len(pf_client'.buffer) = 0
    BY <1>3
  <2> QED BY <1>20, <1>21, <2>1 DEF DataOK
<1> QED BY <1>12, <1>13, <1>14, <1>15, <1>18, <1>19, <1>22 DEF PfIInv

\* The client reads a message.
LEMMA ClientGetsKeeps ==
  ASSUME PfIInv, ClientGets
  PROVE  PfIInv'
<1>1. /\ ~pf_client.raw /\ down # <<>> /\ down' = Tail(down)
      /\ UNCHANGED <<pf_server, target, app, written, cm>>
  BY DEF ClientGets
<1>2. Head(down) = down[1]
  BY <1>1, DownPopped
<1>3. up \in Seq(PfMsg)
  BY PfTypes
<1>4. \A m : up \o <<m>> = Append(up, m)
  BY <1>3
<1>k. PICK k : k = down[1].kind
  OBVIOUS
<1>9. /\ pf_client' = CASE k = "hash" -> [pf_client EXCEPT !.hash = TRUE]
                        [] k = "peer_info" -> [pf_client EXCEPT !.raw = TRUE, !.buffer = <<>>]
                        [] k \notin {"hash", "peer_info"} -> pf_client
      /\ up' = up \o CASE k = "hash" -> <<Msg("login")>>
                       [] k = "test_delay" -> <<Msg("reply")>>
                       [] k = "peer_info" -> pf_client.buffer
                       [] k \notin {"hash", "test_delay", "peer_info"} -> <<>>
      /\ logins' = IF k = "hash" THEN logins + 1 ELSE logins
  BY <1>2, <1>k, Zenon DEF ClientGets
<1>5. CASE down[1].kind = "hash"
  <2>1. /\ pf_client' = [pf_client EXCEPT !.hash = TRUE] /\ up' = up \o <<Msg("login")>>
        /\ logins' = logins + 1
    BY ONLY <1>k, <1>9, <1>5
  <2> QED BY <1>1, <1>4, <1>5, <2>1, GetsHashKeeps
<1>6. CASE down[1].kind = "test_delay"
  <2>1. pf_client' = pf_client /\ up' = up \o <<Msg("reply")>> /\ logins' = logins
    BY ONLY <1>k, <1>9, <1>6
  <2> QED BY <1>1, <1>4, <1>6, <2>1, GetsTestDelayKeeps
<1>7. CASE down[1].kind = "peer_info"
  <2>1. /\ pf_client' = [pf_client EXCEPT !.raw = TRUE, !.buffer = <<>>]
        /\ up' = up \o pf_client.buffer /\ logins' = logins
    BY ONLY <1>k, <1>9, <1>7
  <2> QED BY <1>1, <1>7, <2>1, GetsPeerInfoKeeps
<1>8. CASE down[1].kind \notin {"hash", "test_delay", "peer_info"}
  <2>1. pf_client' = pf_client /\ up' = up \o <<>> /\ logins' = logins
    BY ONLY <1>k, <1>9, <1>8
  <2>2. up' = up
    BY ONLY <1>3, <2>1
  <2> QED BY <1>1, <1>8, <2>1, <2>2, GetsOtherKeeps
<1> QED BY <1>5, <1>6, <1>7, <1>8

\* Every step keeps the invariant.
LEMMA PfKeeps ==
  ASSUME PfIInv, [PfNext]_pfVars, ~refused'
  PROVE  PfIInv'
<1>1. CASE ServerForwards
  BY <1>1, ForwardUpKeeps, ForwardDownKeeps DEF ServerForwards
<1>2. CASE UNCHANGED pfVars
  <2>1. UNCHANGED <<pf_server, pf_client, up, down, target, app, written, logins, cm>>
    BY <1>2 DEF pfVars
  <2>2. PfOrder /\ BufferOK /\ DownOK /\ UpOK /\ TestOK /\ LoginOK /\ DataOK
    BY DEF PfIInv
  <2>3. PfOrder'
    BY ONLY <2>1, <2>2 DEF PfOrder
  <2>4. BufferOK' /\ LoginOK' /\ DataOK'
    BY ONLY <2>1, <2>2 DEF BufferOK, LoginOK, DataOK
  <2>5. DownOK'
    BY ONLY <2>1, <2>2 DEF DownOK
  <2>6. UpOK' /\ TestOK'
    BY ONLY <2>1, <2>2 DEF UpOK, TestOK, Tested
  <2> QED BY ONLY <2>3, <2>4, <2>5, <2>6 DEF PfIInv
<1> QED BY <1>1, <1>2, TickKeeps, ServerGetsKeeps, AuthorizeKeeps, CmKeeps, ClientGetsKeeps,
           LoginFromUiKeeps, AppWritesKeeps, ClientForwardsKeeps DEF PfNext

\* What is left once a login was refused with the socket open: the client goes on
\* reading messages, for no PeerInfo is on its way, and the application gets nothing.
PfRefused ==
  /\ refused /\ pf_server.raw /\ ~pf_client.raw
  /\ pf_client \in [raw : BOOLEAN, hash : BOOLEAN, buffer : Seq(PfMsg)]
  /\ app = <<>> /\ written \in [app : Nat, target : Nat]
  /\ down \in Seq(PfMsg)
  /\ \A i \in 1 .. Len(down) : down[i].kind # "peer_info"

\* The inductive invariant: PfIInv until then.
PfInv == (~refused /\ PfIInv) \/ PfRefused

\* A login is refused: the client has been sent no PeerInfo.
LEMMA RefusalStep ==
  ASSUME PfIInv, ~refused, ServerGets, refused' # refused
  PROVE  PfRefused'
<1>1. /\ ~pf_server.authorized /\ pf_server' = [[pf_server EXCEPT !.socket = TRUE] EXCEPT !.raw = TRUE]
      /\ down' = Append(down, Msg("error")) /\ refused' = TRUE
      /\ UNCHANGED <<pf_client, app, written>>
  BY DEF ServerGets, GetsLogin
<1>2. PfOrder /\ DownOK /\ down \in Seq(PfMsg)
  BY PfTypes
<1>3. /\ pf_server'.raw /\ ~pf_client'.raw /\ app' = <<>>
      /\ pf_client' \in [raw : BOOLEAN, hash : BOOLEAN, buffer : Seq(PfMsg)]
      /\ written' \in [app : Nat, target : Nat]
      /\ \A i \in 1 .. Len(down) : down[i].kind # "peer_info"
  BY <1>1, <1>2 DEF PfOrder, DownOK
<1>4. Msg("error") \in PfMsg /\ Msg("error").kind = "error"
  <2>1. "error" \in Kinds \cup {"data"}
    BY DEF Kinds
  <2> QED BY <2>1, MessageKinds
<1>5. /\ down' \in Seq(PfMsg) /\ Len(down') = Len(down) + 1
      /\ down'[Len(down) + 1] = Msg("error")
      /\ \A j \in 1 .. Len(down) : down'[j] = down[j]
  BY <1>1, <1>2, <1>4, Appended
<1>6. \A j \in 1 .. Len(down') : j \in 1 .. Len(down) \/ j = Len(down) + 1
  <2>1. Len(down) \in Nat
    BY <1>2
  <2> QED BY ONLY <1>5, <2>1
<1>7. \A j \in 1 .. Len(down') : down'[j].kind # "peer_info"
  BY ONLY <1>3, <1>4, <1>5, <1>6
<1> QED BY <1>1, <1>3, <1>5, <1>7 DEF PfRefused

\* From then on the server hands on bytes, and the client reads on until it meets them.
LEMMA RefusedKeeps ==
  ASSUME PfRefused, [PfNext]_pfVars
  PROVE  PfRefused'
<1>1. /\ refused /\ pf_server.raw /\ ~pf_client.raw /\ app = <<>> /\ down \in Seq(PfMsg)
      /\ pf_client \in [raw : BOOLEAN, hash : BOOLEAN, buffer : Seq(PfMsg)]
      /\ written \in [app : Nat, target : Nat] /\ written.target \in Nat /\ written.app \in Nat
      /\ \A i \in 1 .. Len(down) : down[i].kind # "peer_info"
  BY DEF PfRefused
<1>2. CASE ClientGets
  <2>1. down # <<>> /\ down' = Tail(down) /\ UNCHANGED <<pf_server, app, written, refused>>
    BY <1>2 DEF ClientGets
  <2>2. /\ down' \in Seq(PfMsg) /\ Head(down) = down[1] /\ Len(down) = Len(down') + 1
        /\ Len(down') \in Nat /\ \A i \in 1 .. Len(down') : down'[i] = down[i + 1]
    BY <1>1, <2>1, Popped
  <2>3. /\ 1 \in 1 .. Len(down)
        /\ \A i \in 1 .. Len(down') : i + 1 \in 1 .. Len(down)
    BY ONLY <2>2
  <2>4. Head(down).kind # "peer_info"
    BY <1>1, <2>2, <2>3
  <2>k. PICK k : k = Head(down).kind
    OBVIOUS
  <2>5. pf_client' = CASE k = "hash" -> [pf_client EXCEPT !.hash = TRUE]
                       [] k = "peer_info" -> [pf_client EXCEPT !.raw = TRUE, !.buffer = <<>>]
                       [] k \notin {"hash", "peer_info"} -> pf_client
    BY <1>2, <2>k, Zenon DEF ClientGets
  <2>6. pf_client' = [pf_client EXCEPT !.hash = TRUE] \/ pf_client' = pf_client
    BY ONLY <2>4, <2>k, <2>5
  <2>7. ~pf_client'.raw /\ pf_client' \in [raw : BOOLEAN, hash : BOOLEAN, buffer : Seq(PfMsg)]
    BY <1>1, <2>6
  <2> QED BY <1>1, <2>1, <2>2, <2>3, <2>7 DEF PfRefused
<1>3. CASE ServerForwards
  <2>1. UNCHANGED <<pf_server, pf_client, app, refused>>
    BY <1>3 DEF ServerForwards
  <2>2. CASE UNCHANGED <<down, written>>
    BY <1>1, <2>1, <2>2 DEF PfRefused
  <2>3. CASE /\ written' = [written EXCEPT !.target = @ + 1]
             /\ down' = Append(down, PfData(written.target + 1))
    <3>1. PfData(written.target + 1) \in PfMsg /\ PfData(written.target + 1).kind = "data"
      BY <1>1 DEF PfData, PfMsg
    <3>2. /\ down' \in Seq(PfMsg) /\ Len(down') = Len(down) + 1
          /\ down'[Len(down) + 1] = PfData(written.target + 1)
          /\ \A j \in 1 .. Len(down) : down'[j] = down[j]
      BY <1>1, <2>3, <3>1, Appended
    <3>3. \A j \in 1 .. Len(down') : j \in 1 .. Len(down) \/ j = Len(down) + 1
      <4>1. Len(down) \in Nat
        BY <1>1
      <4> QED BY ONLY <3>2, <4>1
    <3>4. \A j \in 1 .. Len(down') : down'[j].kind # "peer_info"
      BY ONLY <1>1, <3>1, <3>2, <3>3
    <3>5. written' \in [app : Nat, target : Nat]
      BY <1>1, <2>3
    <3> QED BY <1>1, <2>1, <3>2, <3>4, <3>5 DEF PfRefused
  <2> QED BY <1>3, <2>2, <2>3 DEF ServerForwards
<1>4. CASE AppWrites
  <2>1. /\ UNCHANGED <<pf_server, down, app, refused>>
        /\ written' = [written EXCEPT !.app = @ + 1]
        /\ pf_client' = [pf_client EXCEPT !.buffer = Append(@, PfData(written.app + 1))]
    BY <1>1, <1>4 DEF AppWrites
  <2>2. PfData(written.app + 1) \in PfMsg
    BY <1>1 DEF PfData, PfMsg
  <2>3. Append(pf_client.buffer, PfData(written.app + 1)) \in Seq(PfMsg)
    BY <1>1, <2>2
  <2>4. written' \in [app : Nat, target : Nat]
    BY <1>1, <2>1
  <2>5. PICK b \in Seq(PfMsg) : pf_client' = [pf_client EXCEPT !.buffer = b]
    BY <2>1, <2>3
  <2>6. ~pf_client'.raw /\ pf_client' \in [raw : BOOLEAN, hash : BOOLEAN, buffer : Seq(PfMsg)]
    BY <1>1, <2>5
  <2> QED BY <1>1, <2>1, <2>4, <2>6 DEF PfRefused
<1>5. CASE LoginFromUi
  BY <1>1, <1>5 DEF LoginFromUi, PfRefused
<1>6. CASE UNCHANGED pfVars
  BY <1>1, <1>6 DEF pfVars, PfRefused
<1>7. ~(TestDelayTick \/ ServerGets \/ AuthorizeForward \/ CmSpeaks \/ ClientForwards)
  BY <1>1 DEF TestDelayTick, ServerGets, AuthorizeForward, CmSpeaks, ClientForwards
<1> QED BY <1>2, <1>3, <1>4, <1>5, <1>6, <1>7 DEF PfNext

\* Either way every step keeps the invariant.
LEMMA PfInvKeeps ==
  ASSUME PfInv, [PfNext]_pfVars
  PROVE  PfInv'
<1>1. CASE PfRefused
  BY <1>1, RefusedKeeps DEF PfInv
<1>2. CASE PfIInv /\ ~refused /\ refused' = refused
  BY <1>2, PfKeeps DEF PfInv
<1>3. CASE PfIInv /\ ~refused /\ refused' # refused
  <2>1. ServerGets
    BY <1>3 DEF PfNext, pfVars, TestDelayTick, AuthorizeForward, CmSpeaks, ServerForwards,
                ClientGets, LoginFromUi, AppWrites, ClientForwards
  <2> QED BY <1>3, <2>1, RefusalStep DEF PfInv
<1> QED BY <1>1, <1>2, <1>3 DEF PfInv

\* After a refusal the application has nothing, and the server reads raw bytes.
LEMMA RefusedClean == PfRefused => ForwardsCleanly
<1> SUFFICES ASSUME PfRefused PROVE ForwardsCleanly
  OBVIOUS
<1>1. app \in Seq(PfMsg) /\ Len(app) = 0 /\ written.target \in Nat
  BY DEF PfRefused
<1>2. Len(app) <= written.target /\ \A i \in 1 .. Len(app) : app[i] = PfData(i)
  BY <1>1
<1>3. IsPrefix(app, FirstData(written.target))
  BY <1>1, <1>2, DataPrefix
<1> QED BY <1>3 DEF PfRefused, ForwardsCleanly

\* Each socket gets the data written at the other end, in order and nothing else, and data
\* never reach an end that still reads messages, for any number of logins and data and
\* wherever the two calls of set_raw fall among the messages on their way, in the cases
\* the property names.
THEOREM ForwardsAlwaysCleanly == PfSpec => []ForwardsCleanly
<1>1. PfInit => PfInv
  BY PfStart DEF PfInit, PfInv
<1>2. PfInv /\ [PfNext]_pfVars => PfInv'
  BY PfInvKeeps
<1>3. PfInv => ForwardsCleanly
  BY CleanEnough, RefusedClean DEF PfInv
<1> QED BY <1>1, <1>2, <1>3, PTL DEF PfSpec
=============================================================================
