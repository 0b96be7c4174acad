--------------------------- MODULE SessionProofs ---------------------------
(***************************************************************************)
(* What the user is told.  What the state of a session's connection says   *)
(* is true of its newest round, for any number of rounds; what is shown of *)
(* a rendezvous server can be set right, for any number of answers.        *)
(* The mediators that register with those servers keep their types.        *)
(*                                                                         *)
(* StateOfNewestRound is not inductive.  set_connected takes no round, so  *)
(* it needs that no loop but the newest can still connect (OldAreOver);    *)
(* that holds because a round is begun only when the one before it is      *)
(* over, which the first reconnect has from the error that offered it      *)
(* (FirstReconnect) and later ones from the state itself.                  *)
(*                                                                         *)
(* RzTypeOK bounds the messages under way with each server.  A mediator    *)
(* that was told to change its id sends its key afterwards, whatever else  *)
(* is under way: the message that told it leaves the room (RoomToAnswer).  *)
(***************************************************************************)
EXTENDS ClientSession, RendezvousLatency, Rendezvous, SequenceTheorems, TLAPS

(* ClientSession.                                                          *)

LoopStates == {"none", "spawned", "connecting", "connected", "failed", "done"}
CallStates == [at : {"idle", "offered", "begun", "decided"}, round : 0..MaxRounds]

SessionTypeOK ==
  /\ round \in 0..MaxRounds
  /\ round_state \in {"Connecting", "Connected", "Disconnected"}
  /\ thread \in BOOLEAN
  /\ sender \in 0..MaxRounds
  /\ closes \subseteq Rounds
  /\ loop \in [Rounds -> LoopStates]
  /\ call \in [Calls -> CallStates]
  /\ page \in {"new", "open", "removed", "closed"}
  /\ overlapped \in BOOLEAN
  /\ unheard \in BOOLEAN

\* The session has its first round from session_start_ on, and the interface offers
\* nothing before.
Started ==
  IF page = "new" THEN round = 0 /\ \A u \in Calls : call[u].at = "idle" ELSE round > 0

\* No round has a loop before it is begun, nor before its thread is spawned.
NotYet ==
  /\ \A r \in Rounds : r > round => loop[r] = "none"
  /\ \A u \in Calls : call[u].at = "decided" =>
       /\ call[u].round \in 1..round
       /\ loop[call[u].round] = "none"
       /\ \A v \in Calls \ {u} : call[v].at = "decided" => call[v].round # call[u].round

Over == {"connected", "failed", "done"}

\* The loop of an older round has connected or failed.
OldAreOver == ~overlapped => \A r \in Rounds : r < round => loop[r] \in Over

Decided == \E u \in Calls : call[u].at = "decided"

\* A reconnect that finds no thread was offered by the first round's error, unless
\* another one is about to set the thread.
FirstReconnect ==
  ~thread /\ ~Decided =>
    /\ round <= 1
    /\ (\E u \in Calls : call[u].at # "idle") => loop[round] \in {"failed", "done"}

\* The inductive invariant.
IInv == SessionTypeOK /\ Started /\ NotYet /\ OldAreOver /\ FirstReconnect /\ StateOfNewestRound

\* The interface's calls keep their type: msgbox and the dialogs' dismissal only
\* offer or withdraw.
LEMMA OfferedType ==
  ASSUME SessionTypeOK, NEW retry \in BOOLEAN
  PROVE  /\ Offered(retry) \in [Calls -> CallStates]
         /\ \A u \in Calls :
              /\ Offered(retry)[u].at = "decided" <=> call[u].at = "decided"
              /\ call[u].at = "decided" => Offered(retry)[u] = call[u]
              /\ page # "open" /\ call[u].at = "idle" => Offered(retry)[u].at = "idle"
<1>1. Idle \in CallStates /\ [at |-> "offered", round |-> 0] \in CallStates
  BY MaxRoundsAssumption DEF Idle, CallStates
<1>2. \A u \in Calls : call[u] \in CallStates
  BY DEF SessionTypeOK
<1> QED BY <1>1, <1>2 DEF Offered, Idle

\* Types are kept.
LEMMA TypeStep == IInv /\ [SessionNext]_sessionVars => SessionTypeOK'
<1> SUFFICES ASSUME IInv, [SessionNext]_sessionVars PROVE SessionTypeOK'
  OBVIOUS
<1> USE MaxRoundsAssumption
<1>0. SessionTypeOK /\ Idle \in CallStates
  BY DEF IInv, Idle, CallStates
<1>1. CASE StartSession
  BY <1>0, <1>1 DEF SessionTypeOK, StartSession, new_round, Rounds, LoopStates
<1>2. CASE RemoveSession
  BY <1>0, <1>2 DEF SessionTypeOK, RemoveSession
<1>3. CASE CloseSession
  BY <1>0, <1>3 DEF SessionTypeOK, CloseSession, SendClose, Rounds
<1>4. ASSUME NEW u \in Calls, BeginReconnect(u) PROVE SessionTypeOK'
  <2>1. [at |-> "begun", round |-> 0] \in CallStates
    BY DEF CallStates
  <2>2. call' \in [Calls -> CallStates]
    BY <1>0, <1>4, <2>1 DEF BeginReconnect, SessionTypeOK, Calls
  <2> QED BY <1>0, <1>4, <2>2 DEF SessionTypeOK, BeginReconnect
<1>5. ASSUME NEW u \in Calls, DecideReconnect(u) PROVE SessionTypeOK'
  <2>1. CASE thread /\ round_state = "Connecting"
    BY <1>0, <1>5, <2>1 DEF SessionTypeOK, DecideReconnect
  <2>2. CASE ~(thread /\ round_state = "Connecting")
    <3>1. CloseConnected /\ new_round
          /\ call' = [call EXCEPT ![u] = [at |-> "decided", round |-> round']]
      BY <1>5, <2>2 DEF DecideReconnect
    <3>2. round' \in 0..MaxRounds /\ round_state' = "Connecting"
      BY <1>0, <3>1 DEF new_round, SessionTypeOK
    <3>3. [at |-> "decided", round |-> round'] \in CallStates
      BY <3>2 DEF CallStates
    <3>4. call' \in [Calls -> CallStates]
      BY <1>0, <3>1, <3>3 DEF SessionTypeOK
    <3>5. closes' \subseteq Rounds
      <4>1. sender # 0 => sender \in Rounds
        BY <1>0 DEF SessionTypeOK, Rounds
      <4>2. closes' = closes \/ (sender # 0 /\ closes' = closes \cup {sender})
        BY <3>1 DEF CloseConnected, SendClose
      <4> QED BY <1>0, <4>1, <4>2 DEF SessionTypeOK
    <3>6. overlapped' \in BOOLEAN
      BY <1>0, <1>5, <2>2 DEF DecideReconnect, SessionTypeOK
    <3> QED BY <1>0, <1>5, <2>2, <3>2, <3>4, <3>5, <3>6 DEF SessionTypeOK, DecideReconnect
  <2> QED BY <2>1, <2>2
<1>6. ASSUME NEW u \in Calls, SpawnRound(u) PROVE SessionTypeOK'
  BY <1>0, <1>6 DEF SessionTypeOK, SpawnRound, LoopStates
<1>7. ASSUME NEW r \in Rounds, Loop(r) PROVE SessionTypeOK'
  <2>1. CASE InstallSender(r)
    BY <1>0, <2>1 DEF SessionTypeOK, InstallSender, LoopStates, Rounds
  <2>2. CASE SetConnected(r)
    BY <1>0, <2>2 DEF SessionTypeOK, SetConnected, LoopStates
  <2>3. CASE ReportError(r)
    BY <1>0, <2>3, OfferedType DEF SessionTypeOK, ReportError, LoopStates
  <2>4. CASE HearClose(r)
    BY <1>0, <2>4 DEF SessionTypeOK, HearClose, LoopStates
  <2>5. CASE EndLoop(r)
    BY <1>0, <2>5 DEF SessionTypeOK, EndLoop, set_disconnected, LoopStates
  <2> QED BY <1>7, <2>1, <2>2, <2>3, <2>4, <2>5 DEF Loop
<1>8. CASE UNCHANGED sessionVars
  BY <1>0, <1>8 DEF SessionTypeOK, sessionVars
<1> QED BY <1>1, <1>2, <1>3, <1>4, <1>5, <1>6, <1>7, <1>8 DEF SessionNext

\* Started and NotYet are kept.
LEMMA NotYetStep == IInv /\ [SessionNext]_sessionVars => Started' /\ NotYet'
<1> SUFFICES ASSUME IInv, [SessionNext]_sessionVars PROVE Started' /\ NotYet'
  OBVIOUS
<1> USE MaxRoundsAssumption
<1>0. SessionTypeOK /\ Started /\ NotYet
  BY DEF IInv
<1>1. CASE StartSession
  <2>1. round = 0 /\ (\A u \in Calls : call[u].at = "idle") /\ round' = 1
    BY <1>0, <1>1 DEF StartSession, new_round, Started
  <2> QED BY <1>0, <1>1, <2>1 DEF SessionTypeOK, Started, NotYet, StartSession, Rounds
<1>2. CASE RemoveSession
  BY <1>0, <1>2 DEF Started, NotYet, RemoveSession, Idle
<1>3. CASE CloseSession
  BY <1>0, <1>3 DEF Started, NotYet, CloseSession
<1>4. ASSUME NEW u \in Calls, BeginReconnect(u) PROVE Started' /\ NotYet'
  <2>1. \A v \in Calls : call'[v].at = "decided" => call[v].at = "decided" /\ call'[v] = call[v]
    BY <1>0, <1>4 DEF BeginReconnect, SessionTypeOK, Calls, Idle
  <2>2. page' = page /\ page # "new" /\ round' = round /\ loop' = loop
    BY <1>4 DEF BeginReconnect
  <2> QED BY <1>0, <2>1, <2>2 DEF Started, NotYet
<1>5. ASSUME NEW u \in Calls, DecideReconnect(u) PROVE Started' /\ NotYet'
  <2>1. page' = page /\ page # "new" /\ loop' = loop
    BY <1>0, <1>5 DEF DecideReconnect, Started
  <2>2. CASE thread /\ round_state = "Connecting"
    <3>1. round' = round /\ call' = [call EXCEPT ![u] = Idle]
      BY <1>5, <2>2 DEF DecideReconnect
    <3>2. \A v \in Calls : call'[v].at = "decided" => call'[v] = call[v]
      BY <1>0, <3>1 DEF SessionTypeOK, Idle
    <3> QED BY <1>0, <2>1, <3>1, <3>2 DEF Started, NotYet
  <2>3. CASE ~(thread /\ round_state = "Connecting")
    <3>1. round < MaxRounds /\ round' = round + 1
          /\ call' = [call EXCEPT ![u] = [at |-> "decided", round |-> round']]
      BY <1>5, <2>3 DEF DecideReconnect, new_round
    <3>2. round \in Nat /\ round + 1 \in Rounds
      BY <1>0, <3>1 DEF SessionTypeOK, Rounds
    <3>3. \A v \in Calls \ {u} : call'[v] = call[v]
      BY <1>0, <3>1 DEF SessionTypeOK
    <3>4. call'[u].at = "decided" /\ call'[u].round = round + 1
      BY <1>0, <3>1 DEF SessionTypeOK
    <3>5. Started'
      BY <1>0, <2>1, <3>1, <3>2 DEF Started
    <3>6. \A r \in Rounds : r > round' => loop'[r] = "none"
      BY <1>0, <2>1, <3>1, <3>2 DEF NotYet, Rounds
    <3>7. loop'[round + 1] = "none"
      BY <1>0, <2>1, <3>2 DEF NotYet
    <3>8. \A v \in Calls \ {u} : call'[v].at = "decided" =>
             call'[v].round \in 1..round /\ loop'[call'[v].round] = "none"
      BY <1>0, <2>1, <3>3 DEF NotYet
    <3>9. ASSUME NEW v \in Calls, call'[v].at = "decided"
          PROVE  /\ call'[v].round \in 1..round'
                 /\ loop'[call'[v].round] = "none"
                 /\ \A w \in Calls \ {v} : call'[w].at = "decided" => call'[w].round # call'[v].round
      <4>1. CASE v = u
        BY <3>1, <3>2, <3>4, <3>7, <3>8, <4>1
      <4>2. CASE v # u
        <5>1. call'[v].round \in 1..round /\ loop'[call'[v].round] = "none"
          BY <3>8, <3>9, <4>2
        <5>2. ASSUME NEW w \in Calls \ {v}, call'[w].at = "decided"
              PROVE  call'[w].round # call'[v].round
          <6>1. CASE w = u
            BY <3>2, <3>4, <5>1, <6>1
          <6>2. CASE w # u
            BY <1>0, <3>3, <3>9, <4>2, <5>2, <6>2 DEF NotYet
          <6> QED BY <6>1, <6>2
        <5> QED BY <3>1, <3>2, <5>1, <5>2
      <4> QED BY <4>1, <4>2
    <3> QED BY <3>5, <3>6, <3>9 DEF NotYet
  <2> QED BY <2>2, <2>3
<1>6. ASSUME NEW u \in Calls, SpawnRound(u) PROVE Started' /\ NotYet'
  <2>1. call[u].at = "decided" /\ call[u].round \in 1..round /\ page # "new" /\ round \in Nat
    BY <1>0, <1>6 DEF SpawnRound, NotYet, Started, SessionTypeOK
  <2>2. round' = round /\ page' = page /\ \A r \in Rounds : r # call[u].round => loop'[r] = loop[r]
    BY <1>0, <1>6 DEF SpawnRound, SessionTypeOK
  <2>3. \A v \in Calls : call'[v].at = "decided" => v # u /\ call'[v] = call[v]
    BY <1>0, <1>6 DEF SpawnRound, SessionTypeOK, Idle
  <2>4. \A v \in Calls : call'[v].at = "decided" => call[v].round \in Rounds
    BY <1>0, <2>3 DEF NotYet, SessionTypeOK, Rounds
  <2>5. \A r \in Rounds : r > round' => loop'[r] = "none"
    BY <1>0, <2>1, <2>2 DEF NotYet, Rounds
  <2>6. Started'
    BY <1>0, <2>1, <2>2 DEF Started
  <2>7. ASSUME NEW v \in Calls, call'[v].at = "decided"
        PROVE  /\ call'[v].round \in 1..round'
               /\ loop'[call'[v].round] = "none"
               /\ \A w \in Calls \ {v} : call'[w].at = "decided" => call'[w].round # call'[v].round
    BY <1>0, <2>1, <2>2, <2>3, <2>4, <2>7 DEF NotYet
  <2> QED BY <2>5, <2>6, <2>7 DEF NotYet
<1>7. ASSUME NEW r \in Rounds, Loop(r) PROVE Started' /\ NotYet'
  <2>1. round' = round /\ page' = page /\ loop[r] # "none" /\ loop'[r] # "none"
        /\ \A q \in Rounds : q # r => loop'[q] = loop[q]
    BY <1>0, <1>7 DEF Loop, InstallSender, SetConnected, ReportError, HearClose, EndLoop, SessionTypeOK
  <2>2. r \in 1..round /\ round \in Nat
    BY <1>0, <2>1 DEF NotYet, Rounds, SessionTypeOK
  <2>3. page # "new"
    BY <1>0, <2>2 DEF Started
  <2>4. \A u \in Calls : call'[u].at = "decided" => call[u].at = "decided" /\ call'[u] = call[u]
    BY <1>0, <1>7, OfferedType DEF Loop, InstallSender, SetConnected, ReportError, HearClose, EndLoop
  <2>5. \A u \in Calls : call[u].at = "decided" => call[u].round \in Rounds \ {r}
    BY <1>0, <2>1 DEF NotYet, SessionTypeOK, Rounds
  <2>6. \A q \in Rounds : q > round' => loop'[q] = "none"
    BY <1>0, <2>1, <2>2 DEF NotYet
  <2>7. Started'
    BY <1>0, <2>1, <2>3 DEF Started
  <2>8. ASSUME NEW v \in Calls, call'[v].at = "decided"
        PROVE  /\ call'[v].round \in 1..round'
               /\ loop'[call'[v].round] = "none"
               /\ \A w \in Calls \ {v} : call'[w].at = "decided" => call'[w].round # call'[v].round
    BY <1>0, <2>1, <2>4, <2>5, <2>8 DEF NotYet
  <2> QED BY <2>6, <2>7, <2>8 DEF NotYet
<1>8. CASE UNCHANGED sessionVars
  BY <1>0, <1>8 DEF Started, NotYet, sessionVars
<1> QED BY <1>1, <1>2, <1>3, <1>4, <1>5, <1>6, <1>7, <1>8 DEF SessionNext

\* A round is begun only when the one before it is over, or with an overlap.
LEMMA DecideEndsRound ==
  ASSUME IInv, NEW u \in Calls, DecideReconnect(u), ~overlapped',
         ~(thread /\ round_state = "Connecting")
  PROVE  loop[round] \in Over
<1>1. SessionTypeOK /\ FirstReconnect /\ StateOfNewestRound
  BY DEF IInv
<1>2. overlapped' = (overlapped \/ (~thread /\ \E v \in Calls \ {u} : call[v].at = "decided"))
  BY DEF DecideReconnect
<1>3. ~overlapped /\ (~thread => \A v \in Calls \ {u} : call[v].at # "decided")
  BY <1>1, <1>2 DEF SessionTypeOK
<1>4. call[u].at = "begun"
  BY DEF DecideReconnect
<1>5. CASE ~thread
  <2>1. ~Decided
    BY <1>3, <1>4, <1>5 DEF Decided
  <2> QED BY <1>1, <1>4, <1>5, <2>1 DEF FirstReconnect, Over
<1>6. CASE thread
  BY <1>1, <1>3, <1>6 DEF SessionTypeOK, StateOfNewestRound, Over
<1> QED BY <1>1, <1>5, <1>6 DEF SessionTypeOK

\* The rest of the invariant is kept.
LEMMA NewestStep ==
  IInv /\ [SessionNext]_sessionVars => OldAreOver' /\ FirstReconnect' /\ StateOfNewestRound'
<1> SUFFICES ASSUME IInv, [SessionNext]_sessionVars
             PROVE  OldAreOver' /\ FirstReconnect' /\ StateOfNewestRound'
  OBVIOUS
<1> USE MaxRoundsAssumption
<1>0. SessionTypeOK /\ Started /\ NotYet /\ OldAreOver /\ FirstReconnect /\ StateOfNewestRound
  BY DEF IInv
<1>1. CASE StartSession
  <2>1. round = 0 /\ (\A u \in Calls : call[u].at = "idle") /\ round' = 1
        /\ round_state' = "Connecting" /\ call' = call
    BY <1>0, <1>1 DEF StartSession, new_round, Started
  <2> QED BY <2>1 DEF OldAreOver, FirstReconnect, StateOfNewestRound, Rounds
<1>2. CASE RemoveSession
  <2>1. \A u \in Calls : /\ call'[u].at = "decided" <=> call[u].at = "decided"
                        /\ call'[u].at # "idle" => call[u].at # "idle"
    BY <1>0, <1>2 DEF RemoveSession, Idle
  <2> QED BY <1>0, <1>2, <2>1
          DEF RemoveSession, OldAreOver, FirstReconnect, StateOfNewestRound, Decided
<1>3. CASE CloseSession
  BY <1>0, <1>3 DEF CloseSession, OldAreOver, FirstReconnect, StateOfNewestRound, Decided
<1>4. ASSUME NEW u \in Calls, BeginReconnect(u)
      PROVE  OldAreOver' /\ FirstReconnect' /\ StateOfNewestRound'
  <2>1. Decided' <=> Decided
    BY <1>0, <1>4 DEF BeginReconnect, SessionTypeOK, Calls, Idle, Decided
  <2>2. call[u].at # "idle"
    BY <1>4 DEF BeginReconnect
  <2> QED BY <1>0, <1>4, <2>1, <2>2
          DEF BeginReconnect, OldAreOver, FirstReconnect, StateOfNewestRound
<1>5. ASSUME NEW u \in Calls, DecideReconnect(u)
      PROVE  OldAreOver' /\ FirstReconnect' /\ StateOfNewestRound'
  <2>1. CASE thread /\ round_state = "Connecting"
    BY <1>0, <1>5, <2>1 DEF DecideReconnect, OldAreOver, FirstReconnect, StateOfNewestRound
  <2>2. CASE ~(thread /\ round_state = "Connecting")
    <3>1. /\ round' = round + 1 /\ round_state' = "Connecting" /\ loop' = loop
          /\ call' = [call EXCEPT ![u] = [at |-> "decided", round |-> round']]
      BY <1>5, <2>2 DEF DecideReconnect, new_round
    <3>2. Decided'
      BY <1>0, <3>1 DEF Decided, SessionTypeOK
    <3>3. ~overlapped' => ~overlapped
      BY <1>0, <1>5, <2>2 DEF DecideReconnect, SessionTypeOK
    <3>4. OldAreOver'
      <4> SUFFICES ASSUME ~overlapped', NEW r \in Rounds, r < round + 1
                   PROVE  loop[r] \in Over
        BY <3>1 DEF OldAreOver
      <4>1. r < round \/ r = round
        BY <1>0 DEF SessionTypeOK, Rounds
      <4> QED BY <1>0, <1>5, <2>2, <3>3, <4>1, DecideEndsRound DEF OldAreOver
    <3> QED BY <3>1, <3>2, <3>4 DEF FirstReconnect, StateOfNewestRound
  <2> QED BY <2>1, <2>2
<1>6. ASSUME NEW u \in Calls, SpawnRound(u)
      PROVE  OldAreOver' /\ FirstReconnect' /\ StateOfNewestRound'
  <2>1. loop[call[u].round] = "none" /\ call[u].round \in Rounds
    BY <1>0, <1>6 DEF SpawnRound, NotYet, SessionTypeOK, Rounds
  <2>2. /\ round' = round /\ round_state' = round_state /\ overlapped' = overlapped /\ thread'
        /\ loop' = [loop EXCEPT ![call[u].round] = "spawned"]
    BY <1>6 DEF SpawnRound
  <2>3. OldAreOver'
    BY <1>0, <2>1, <2>2 DEF OldAreOver, Over, SessionTypeOK
  <2>4. StateOfNewestRound'
    BY <1>0, <2>1, <2>2 DEF StateOfNewestRound, SessionTypeOK
  <2> QED BY <2>2, <2>3, <2>4 DEF FirstReconnect
<1>7. ASSUME NEW r \in Rounds, Loop(r)
      PROVE  OldAreOver' /\ FirstReconnect' /\ StateOfNewestRound'
  <2>1. r <= round /\ round \in Rounds
    <3>1. loop[r] # "none"
      BY <1>7 DEF Loop, InstallSender, SetConnected, ReportError, HearClose, EndLoop
    <3> QED BY <1>0, <3>1 DEF NotYet, Rounds, SessionTypeOK
  <2>2. round' = round /\ overlapped' = overlapped /\ thread' = thread
    BY <1>7 DEF Loop, InstallSender, SetConnected, ReportError, HearClose, EndLoop
  <2>3. \A q \in Rounds : q # r => loop'[q] = loop[q]
    BY <1>0, <1>7
       DEF Loop, InstallSender, SetConnected, ReportError, HearClose, EndLoop, SessionTypeOK
  <2>4. loop[r] \in Over => loop'[r] \in Over
    BY <1>0, <1>7
       DEF Loop, InstallSender, SetConnected, ReportError, HearClose, EndLoop, SessionTypeOK, Over
  <2>5. OldAreOver'
    BY <1>0, <2>2, <2>3, <2>4 DEF OldAreOver
  <2>6. Decided' <=> Decided
    BY <1>0, <1>7, OfferedType
       DEF Loop, InstallSender, SetConnected, ReportError, HearClose, EndLoop, Decided
  <2>7. FirstReconnect'
    <3> SUFFICES ASSUME ~thread, ~Decided, NEW u \in Calls, call'[u].at # "idle"
                 PROVE  loop'[round] \in {"failed", "done"}
      BY <1>0, <2>2, <2>6 DEF FirstReconnect
    <3>1. r = round
      BY <1>0, <2>1 DEF FirstReconnect, Rounds
    <3>2. CASE ReportError(r) \/ HearClose(r) \/ EndLoop(r)
      BY <1>0, <3>1, <3>2 DEF ReportError, HearClose, EndLoop, SessionTypeOK
    <3>3. CASE InstallSender(r) \/ SetConnected(r)
      <4>1. call' = call /\ loop[r] \notin {"failed", "done"}
        BY <3>3 DEF InstallSender, SetConnected
      <4> QED BY <1>0, <3>1, <4>1 DEF FirstReconnect
    <3> QED BY <1>7, <3>2, <3>3 DEF Loop
  <2>8. StateOfNewestRound'
    <3>1. CASE InstallSender(r)
      BY <1>0, <3>1, <2>1, <2>2, <2>3 DEF InstallSender, StateOfNewestRound, SessionTypeOK
    <3>2. CASE SetConnected(r)
      <4>1. ~overlapped => r = round
        BY <1>0, <2>1, <3>2 DEF SetConnected, OldAreOver, Over, Rounds
      <4> QED BY <1>0, <2>1, <2>2, <3>2, <4>1 DEF SetConnected, StateOfNewestRound, SessionTypeOK
    <3>3. CASE ReportError(r) \/ HearClose(r)
      BY <1>0, <2>1, <2>2, <2>3, <3>3
         DEF ReportError, HearClose, StateOfNewestRound, SessionTypeOK
    <3>4. CASE EndLoop(r)
      <4>1. CASE r < round
        <5>1. round_state' = round_state /\ loop'[round] = loop[round]
          BY <2>1, <2>3, <3>4, <4>1 DEF EndLoop, set_disconnected, is_round_gt, Rounds
        <5> QED BY <1>0, <2>2, <5>1 DEF StateOfNewestRound
      <4>2. CASE r = round
        <5>1. round_state' = "Disconnected" /\ loop'[round] = "done"
          BY <1>0, <2>1, <3>4, <4>2
             DEF EndLoop, set_disconnected, is_round_gt, Rounds, SessionTypeOK
        <5> QED BY <2>2, <5>1 DEF StateOfNewestRound
      <4> QED BY <2>1, <4>1, <4>2 DEF Rounds
    <3> QED BY <1>7, <3>1, <3>2, <3>3, <3>4 DEF Loop
  <2> QED BY <2>5, <2>7, <2>8
<1>8. CASE UNCHANGED sessionVars
  BY <1>0, <1>8 DEF OldAreOver, FirstReconnect, StateOfNewestRound, Decided, sessionVars
<1> QED BY <1>1, <1>2, <1>3, <1>4, <1>5, <1>6, <1>7, <1>8 DEF SessionNext

\* The invariant holds of every session, whatever the number of its rounds.
THEOREM Inductive == SessionSpec => []IInv
<1>1. SessionInit => IInv
  <2> SUFFICES ASSUME SessionInit PROVE IInv
    OBVIOUS
  <2>1. Idle \in CallStates
    BY MaxRoundsAssumption DEF Idle, CallStates
  <2>2. SessionTypeOK
    <3>1. loop \in [Rounds -> LoopStates] /\ call \in [Calls -> CallStates]
      BY <2>1 DEF SessionInit, LoopStates
    <3>2. 0 \in 0..MaxRounds
      BY MaxRoundsAssumption
    <3> QED BY <3>1, <3>2 DEF SessionInit, SessionTypeOK
  <2>3. Started /\ NotYet /\ OldAreOver /\ FirstReconnect /\ StateOfNewestRound
    BY MaxRoundsAssumption DEF SessionInit, Idle, Started, NotYet, OldAreOver, FirstReconnect,
                               StateOfNewestRound, Decided, Rounds
  <2> QED BY <2>2, <2>3 DEF IInv
<1>2. IInv /\ [SessionNext]_sessionVars => IInv'
  BY TypeStep, NotYetStep, NewestStep DEF IInv
<1> QED BY <1>1, <1>2, PTL DEF SessionSpec

\* round_state speaks of the newest round, however the threads of the rounds, the
\* dialog and the timer interleave.
THEOREM StateAlwaysOfNewestRound == SessionSpec => []StateOfNewestRound
<1>1. IInv => StateOfNewestRound
  BY DEF IInv
<1> QED BY <1>1, Inductive, PTL
-----------------------------------------------------------------------------
(* RendezvousLatency.                                                      *)

\* The types and OnlineInStep together are inductive: a "good" old_latency is only
\* written beside a positive entry of ONLINE, and cleared with it; a test that writes
\* the entry is noted.
LatencyIInv == LatencyTypeOK /\ OnlineInStep

Registrars == [sent : {"none", "fresh", "overdue"}, resp : {"none", "fresh", "expired"},
               fails : 0..MAX_FAILS2, old_latency : {"zero", "good"}, ema_latency : {"zero", "good"}]

\* An answer stores its latency in both places, or in none.
LEMMA UpdateInStep ==
  ASSUME LatencyIInv, NEW l \in {"zero", "good", "slow"}, UpdateLatency(l),
         answers' \in 0..MaxAnswers, UNCHANGED tests
  PROVE  LatencyIInv'
<1> DEFINE fresh == [registrar EXCEPT !.resp = "fresh", !.fails = 0, !.sent = "none"]
           ema == IF "good" \in {l, registrar.ema_latency} THEN "good" ELSE "zero"
<1>1. fresh \in Registrars /\ fresh.old_latency = registrar.old_latency
  <2>1. 0 \in 0..MAX_FAILS2
    BY DEF MAX_FAILS2
  <2>2. registrar \in Registrars
    BY DEF LatencyIInv, LatencyTypeOK, Registrars
  <2> QED BY <2>1, <2>2 DEF Registrars
<1>2. ema \in {"zero", "good"}
  OBVIOUS
<1>3. \/ registrar' = fresh /\ latency' = latency /\ tested' = tested
      \/ /\ registrar' = [fresh EXCEPT !.ema_latency = ema, !.old_latency = ema]
         /\ latency' = ema /\ tested' = FALSE
      \/ registrar' = [fresh EXCEPT !.ema_latency = ema] /\ latency' = latency /\ tested' = tested
  BY DEF UpdateLatency
<1> HIDE DEF fresh, ema
<1>4. registrar' \in Registrars
  BY <1>1, <1>2, <1>3 DEF Registrars
<1>5. /\ latency' \in {"none", "down", "zero", "good"} /\ tested' \in BOOLEAN
      /\ ~tested' => (registrar'.old_latency = "good" <=> latency' = "good")
  BY <1>1, <1>2, <1>3 DEF LatencyIInv, LatencyTypeOK, OnlineInStep, Registrars
<1> QED BY <1>4, <1>5 DEF LatencyIInv, LatencyTypeOK, OnlineInStep, Registrars

\* The locals of start_udp and the entry in ONLINE stay in step, whatever the timer
\* and the answers do.
THEOREM LatencyInductive == LatencySpec => []LatencyIInv
<1> USE MaxAnswersAssumption
<1>1. LatencyInit => LatencyIInv
  <2> SUFFICES ASSUME LatencyInit PROVE LatencyIInv
    OBVIOUS
  <2>1. NewRegistrar \in Registrars /\ NewRegistrar.old_latency = "zero"
    BY DEF NewRegistrar, Registrars, MAX_FAILS2
  <2>2. answers \in 0..MaxAnswers /\ tests \in [Tests -> {"idle", "connecting", "measured"}]
    BY DEF LatencyInit
  <2> QED BY <2>1, <2>2 DEF LatencyInit, LatencyIInv, LatencyTypeOK, OnlineInStep, Registrars
<1>2. LatencyIInv /\ [LatencyNext]_latencyVars => LatencyIInv'
  <2> SUFFICES ASSUME LatencyIInv, [LatencyNext]_latencyVars PROVE LatencyIInv'
    OBVIOUS
  <2>1. CASE Tick
    <3>1. answers' \in 0..MaxAnswers /\ tests' = tests
      BY <2>1 DEF Tick, LatencyIInv, LatencyTypeOK
    <3>2. ASSUME NEW n \in 1..MAX_FAILS2, NoteFailure(n) PROVE LatencyIInv'
      <4> DEFINE old == IF n >= MAX_FAILS1 THEN "zero" ELSE registrar.old_latency
      <4>1. n \in 0..MAX_FAILS2 /\ (n = MAX_FAILS2 => n >= MAX_FAILS1)
        BY DEF MAX_FAILS1, MAX_FAILS2
      <4>2. registrar \in Registrars
        BY DEF LatencyIInv, LatencyTypeOK, Registrars
      <4>3. old \in {"zero", "good"}
        BY <4>2 DEF Registrars
      <4>4. registrar' = [registrar EXCEPT !.sent = "fresh", !.fails = n, !.old_latency = old]
        BY <3>2 DEF NoteFailure
      <4>5. /\ latency' \in {"none", "down", "zero", "good"} /\ tested' \in BOOLEAN
            /\ ~tested' => (old = "good" <=> latency' = "good")
        <5>1. CASE n >= MAX_FAILS1
          BY <3>2, <4>1, <5>1 DEF NoteFailure
        <5>2. CASE ~(n >= MAX_FAILS1)
          <6>1. latency' = latency /\ tested' = tested /\ old = registrar.old_latency
            BY <3>2, <4>1, <5>2 DEF NoteFailure
          <6> QED BY <6>1 DEF LatencyIInv, LatencyTypeOK, OnlineInStep
        <5> QED BY <5>1, <5>2
      <4> HIDE DEF old
      <4>6. registrar' \in Registrars /\ registrar'.old_latency = old
        BY <4>1, <4>2, <4>3, <4>4 DEF Registrars
      <4> QED BY <3>1, <4>5, <4>6 DEF LatencyIInv, LatencyTypeOK, OnlineInStep, Registrars
    <3>3. CASE /\ registrar.sent = "overdue"
               /\ NoteFailure(IF registrar.fails < MAX_FAILS2 THEN registrar.fails + 1 ELSE MAX_FAILS2)
      <4>1. (IF registrar.fails < MAX_FAILS2 THEN registrar.fails + 1 ELSE MAX_FAILS2) \in 1..MAX_FAILS2
        BY DEF LatencyIInv, LatencyTypeOK, MAX_FAILS2
      <4> QED BY <3>2, <3>3, <4>1
    <3>4. CASE registrar' = [registrar EXCEPT !.sent = "fresh"] /\ UNCHANGED <<latency, tested>>
      BY <3>1, <3>4 DEF LatencyIInv, LatencyTypeOK, OnlineInStep
    <3> QED BY <2>1, <3>3, <3>4 DEF Tick
  <2>2. CASE TimePasses
    BY <2>2 DEF TimePasses, LatencyIInv, LatencyTypeOK, OnlineInStep
  <2>3. CASE ServerAnswers
    <3>1. answers' \in 0..MaxAnswers /\ tests' = tests
      BY <2>3 DEF ServerAnswers, LatencyIInv, LatencyTypeOK
    <3>2. \E l \in {"zero", "good", "slow"} : UpdateLatency(l)
      BY <2>3 DEF ServerAnswers, Measured
    <3> QED BY <3>1, <3>2, UpdateInStep
  <2>4. CASE Restart
    <3>1. NewRegistrar \in Registrars /\ NewRegistrar.old_latency = "zero"
      BY DEF NewRegistrar, Registrars, MAX_FAILS2
    <3>2. answers' \in 0..MaxAnswers
      BY <2>4 DEF Restart
    <3> QED BY <2>4, <3>1, <3>2 DEF Restart, LatencyIInv, LatencyTypeOK, OnlineInStep, Registrars
  <2>5. ASSUME NEW t \in Tests, TestStarts(t) \/ TestMeasures(t) \/ TestEnds(t)
        PROVE  LatencyIInv'
    <3>1. tests' \in [Tests -> {"idle", "connecting", "measured"}]
      BY <2>5 DEF TestStarts, TestMeasures, TestEnds, LatencyIInv, LatencyTypeOK
    <3>2. /\ UNCHANGED <<registrar, answers>>
          /\ \/ UNCHANGED <<latency, tested>>
             \/ latency' \in {"none", "good", "down"} /\ tested' = TRUE
      BY <2>5 DEF TestStarts, TestMeasures, TestEnds
    <3> QED BY <3>1, <3>2 DEF LatencyIInv, LatencyTypeOK, OnlineInStep
  <2>6. CASE UNCHANGED latencyVars
    BY <2>6 DEF latencyVars, LatencyIInv, LatencyTypeOK, OnlineInStep
  <2> QED BY <2>1, <2>2, <2>3, <2>4, <2>5, <2>6 DEF LatencyNext
<1> QED BY <1>1, <1>2, PTL DEF LatencySpec

\* old_latency says whether ONLINE has a positive latency, so that a server that
\* answers again is shown again, unless a test has written the entry since.
THEOREM OnlineAlwaysInStep == LatencySpec => []OnlineInStep
<1>1. LatencyIInv => OnlineInStep
  BY DEF LatencyIInv
<1> QED BY <1>1, LatencyInductive, PTL
-----------------------------------------------------------------------------
(* Rendezvous.                                                             *)

MediatorStates == {Gone, "connecting", "idle", "confirm_host", "solved", "mismatch"}
Requests == [kind : {"register_pk", "register_peer"}, id : RzIds]
Answers == [kind : {"peer"}, request_pk : BOOLEAN] \cup [kind : {"ok", "mismatch"}]

\* Types of what RzTypeOK takes apart.
RzTypes ==
  /\ servers \in ServerLists
  /\ stop_service \in BOOLEAN /\ should_exit \in BOOLEAN /\ manual_restarted \in BOOLEAN
  /\ key_confirmed \in BOOLEAN /\ overwritten \in BOOLEAN
  /\ solving \in [host : Hosts \cup {NoHost}, locked : BOOLEAN]
  /\ my_id \in RzIds /\ keys_confirmed \subseteq Hosts
  /\ main \in [pc : {"top", "read", "clear_exit", "clear_manual", "join", "over"},
               servers : SUBSET Hosts]
  /\ mediators \in [Hosts -> MediatorStates]
  /\ up \in [Hosts -> Seq(Requests)] /\ down \in [Hosts -> Seq(Answers)]

\* Mediators run only for servers that were read, while start_all waits for them.
RunForServers == \A h \in Hosts : mediators[h] # Gone => main.pc = "join" /\ h \in main.servers

\* Room for the key a mediator sends once it has changed the id.
RoomToAnswer ==
  \A h \in Hosts : /\ Len(up[h]) + Len(down[h]) <= MaxNet
                   /\ mediators[h] = "mismatch" => Len(up[h]) + Len(down[h]) < MaxNet

\* The inductive invariant.
RzIInv == RzTypes /\ RunForServers /\ RoomToAnswer

\* A message taken out of those under way.
LEMMA OneLess ==
  ASSUME NEW S, NEW s \in Seq(S), NEW i \in 1 .. Len(s)
  PROVE  /\ Without(s, i) \in Seq(S) /\ Len(Without(s, i)) \in Nat
         /\ Len(s) = Len(Without(s, i)) + 1
<1>1. Len(s) \in Nat /\ i \in Nat /\ i - 1 \in 0 .. Len(s) /\ i + 1 \in 1 .. Len(s) + 1
  OBVIOUS
<1> DEFINE a == SubSeq(s, 1, i - 1)
           b == SubSeq(s, i + 1, Len(s))
<1>2. a \in Seq(S) /\ Len(a) = i - 1
  BY <1>1
<1>3. b \in Seq(S) /\ Len(b) = Len(s) - i
  BY <1>1
<1> HIDE DEF a, b
<1>4. a \o b \in Seq(S) /\ Len(a \o b) = Len(a) + Len(b)
  BY <1>2, <1>3
<1>5. a \o b \in Seq(S) /\ Len(a \o b) \in Nat /\ Len(s) = Len(a \o b) + 1
  BY <1>1, <1>2, <1>3, <1>4
<1> QED BY <1>5 DEF Without, a, b

\* A message put among those under way.
LEMMA OneMore ==
  ASSUME NEW S, NEW s \in Seq(S), NEW m \in S
  PROVE  /\ Put(s, m) \in Seq(S) /\ Len(Put(s, m)) \in Nat
         /\ Len(Put(s, m)) \in {Len(s), Len(s) + 1}
BY DEF Put

\* What these do to the number of messages under way.
LEMMA OnePut ==
  \A a, b, c, n \in Nat :
    c \in {a, a + 1} => /\ a = 0 /\ b = 0 /\ 1 <= n => c + b <= n
                        /\ a + b \in 1 .. n - 1 => c + b <= n
                        /\ a + b < n => c + b <= n
OBVIOUS

\* One is taken, and perhaps another one put.
LEMMA OneTaken ==
  \A a, b, d, n \in Nat :
    b = d + 1 => /\ a + b <= n => a + d < n /\ a + d <= n
                 /\ a + b <= n => \A c \in {a, a + 1} : c + d <= n
                 /\ a + b < n => \A c \in {a, a + 1} : c + d < n
OBVIOUS

\* At first there is no mediator.
LEMMA RzStart ==
  ASSUME RzInit
  PROVE  RzIInv
<1> USE ServerListsAssumption, RzIdsAssumption, MaxNetAssumption
<1>1. RzTypes
  <2>1. servers \in ServerLists /\ servers \subseteq Hosts /\ keys_confirmed \subseteq Hosts
    BY DEF RzInit
  <2>2. up \in [Hosts -> Seq(Requests)] /\ down \in [Hosts -> Seq(Answers)]
    BY DEF RzInit
  <2> QED BY <2>1, <2>2 DEF RzInit, RzTypes, NotSolving, MediatorStates
<1>2. RunForServers
  BY DEF RzInit, RunForServers
<1>3. RoomToAnswer
  <2>1. \A h \in Hosts : Len(up[h]) = 0 /\ Len(down[h]) = 0
    BY DEF RzInit
  <2>2. 0 + 0 <= MaxNet /\ 0 + 0 < MaxNet
    OBVIOUS
  <2> QED BY <2>1, <2>2 DEF RoomToAnswer
<1> QED BY <1>1, <1>2, <1>3 DEF RzIInv

\* A step of or for one mediator leaves the others alone.
LEMMA OneMediator ==
  ASSUME RzIInv, NEW h \in Hosts, main' = main,
         mediators'[h] # Gone => mediators[h] # Gone,
         Len(up'[h]) + Len(down'[h]) <= MaxNet,
         mediators'[h] = "mismatch" => Len(up'[h]) + Len(down'[h]) < MaxNet,
         \A k \in Hosts \ {h} : /\ mediators'[k] = mediators[k]
                                /\ up'[k] = up[k] /\ down'[k] = down[k]
  PROVE  RunForServers' /\ RoomToAnswer'
<1>1. RunForServers'
  BY DEF RzIInv, RunForServers
<1>2. RoomToAnswer'
  BY DEF RzIInv, RoomToAnswer
<1> QED BY <1>1, <1>2

\* start_all.
LEMMA MainKeeps ==
  ASSUME RzIInv, MainStep
  PROVE  RzIInv'
<1> USE DEF config, flags, keys
<1>1. RzTypes /\ RunForServers /\ RoomToAnswer
  BY DEF RzIInv
<1>2. UNCHANGED <<transport, servers, stop_service, keys, up, down>>
  BY DEF MainStep, StartLoop, ReadServers, ClearExit, ClearManual, JoinAll
<1>3. servers \subseteq Hosts
  BY <1>1, ServerListsAssumption DEF RzTypes
<1>4. CASE StartLoop
  <2>1. UNCHANGED <<should_exit, manual_restarted, mediators, overwritten>> /\ main.pc = "top"
    BY <1>4 DEF StartLoop
  <2>2. /\ main' \in [pc : {"top", "read", "clear_exit", "clear_manual", "join", "over"},
                      servers : SUBSET Hosts]
        /\ solving' \in [host : Hosts \cup {NoHost}, locked : BOOLEAN]
    BY <1>1, <1>4 DEF StartLoop, RzTypes, NotSolving
  <2>3. \A h \in Hosts : mediators[h] = Gone
    BY <1>1, <2>1 DEF RunForServers
  <2>4. RzTypes' /\ RunForServers' /\ RoomToAnswer'
    BY <1>1, <1>2, <2>1, <2>2, <2>3 DEF RzTypes, RunForServers, RoomToAnswer
  <2> QED BY <2>4 DEF RzIInv
<1>5. CASE ReadServers
  <2>1. UNCHANGED <<should_exit, manual_restarted, solving, mediators>> /\ main.pc = "read"
    BY <1>5 DEF ReadServers
  <2>2. /\ main' \in [pc : {"top", "read", "clear_exit", "clear_manual", "join", "over"},
                      servers : SUBSET Hosts]
        /\ overwritten' \in BOOLEAN
    BY <1>3, <1>5 DEF ReadServers
  <2>3. \A h \in Hosts : mediators[h] = Gone
    BY <1>1, <2>1 DEF RunForServers
  <2>4. RzTypes' /\ RunForServers' /\ RoomToAnswer'
    BY <1>1, <1>2, <2>1, <2>2, <2>3 DEF RzTypes, RunForServers, RoomToAnswer
  <2> QED BY <2>4 DEF RzIInv
<1>6. CASE ClearExit
  <2>1. /\ UNCHANGED <<manual_restarted, solving, mediators>> /\ main.pc = "clear_exit"
        /\ should_exit' \in BOOLEAN /\ overwritten' \in BOOLEAN
    BY <1>1, <1>6 DEF ClearExit, RzTypes
  <2>2. main' \in [pc : {"top", "read", "clear_exit", "clear_manual", "join", "over"},
                   servers : SUBSET Hosts]
    BY <1>1, <1>6 DEF ClearExit, RzTypes
  <2>3. \A h \in Hosts : mediators[h] = Gone
    BY <1>1, <2>1 DEF RunForServers
  <2>4. RzTypes' /\ RunForServers' /\ RoomToAnswer'
    BY <1>1, <1>2, <2>1, <2>2, <2>3 DEF RzTypes, RunForServers, RoomToAnswer
  <2> QED BY <2>4 DEF RzIInv
<1>7. CASE ClearManual
  <2>1. /\ UNCHANGED <<should_exit, solving, overwritten>> /\ manual_restarted' = FALSE
        /\ mediators' = [h \in Hosts |-> IF h \in main.servers THEN "connecting" ELSE Gone]
        /\ main' = [main EXCEPT !.pc = "join"]
    BY <1>7 DEF ClearManual
  <2>2. /\ main' \in [pc : {"top", "read", "clear_exit", "clear_manual", "join", "over"},
                      servers : SUBSET Hosts]
        /\ main'.pc = "join" /\ main'.servers = main.servers
    BY <1>1, <2>1 DEF RzTypes
  <2>3. /\ mediators' \in [Hosts -> MediatorStates]
        /\ \A h \in Hosts : /\ mediators'[h] # Gone => h \in main.servers
                            /\ mediators'[h] # "mismatch"
    BY <2>1 DEF MediatorStates, Gone
  <2>4. RzTypes' /\ RunForServers' /\ RoomToAnswer'
    BY <1>1, <1>2, <2>1, <2>2, <2>3 DEF RzTypes, RunForServers, RoomToAnswer
  <2> QED BY <2>4 DEF RzIInv
<1>8. CASE JoinAll
  <2>1. UNCHANGED <<should_exit, manual_restarted, solving, mediators, overwritten>>
    BY <1>8 DEF JoinAll
  <2>2. main' \in [pc : {"top", "read", "clear_exit", "clear_manual", "join", "over"},
                   servers : SUBSET Hosts]
    BY <1>1, <1>8 DEF JoinAll, RzTypes
  <2>3. \A h \in Hosts : mediators[h] = Gone
    BY <1>1, <1>8 DEF JoinAll, RunForServers
  <2>4. RzTypes' /\ RunForServers' /\ RoomToAnswer'
    BY <1>1, <1>2, <2>1, <2>2, <2>3 DEF RzTypes, RunForServers, RoomToAnswer
  <2> QED BY <2>4 DEF RzIInv
<1> QED BY <1>4, <1>5, <1>6, <1>7, <1>8 DEF MainStep

\* Options change, by hand or because a server says so, and restart is called.
LEMMA OptionsKeep ==
  ASSUME RzIInv,
         ChangeOptions \/ RestartExit \/ RestartManual \/ \E h \in Hosts : ConfigureUpdate(h)
  PROVE  RzIInv'
<1>1. RzTypes /\ RunForServers /\ RoomToAnswer
  BY DEF RzIInv
<1>2. /\ UNCHANGED <<solving, key_confirmed, keys_confirmed, my_id, main, mediators, up, down,
                     overwritten>>
      /\ servers' \in ServerLists /\ stop_service' \in BOOLEAN
      /\ should_exit' \in BOOLEAN /\ manual_restarted' \in BOOLEAN
  BY <1>1 DEF ChangeOptions, RestartExit, RestartManual, ConfigureUpdate, RzTypes, config, flags, keys
<1>3. RzTypes' /\ RunForServers' /\ RoomToAnswer'
  BY <1>1, <1>2 DEF RzTypes, RunForServers, RoomToAnswer
<1> QED BY <1>3 DEF RzIInv

\* The lengths of what is under way.
LEMMA UnderWay ==
  ASSUME RzIInv, NEW h \in Hosts
  PROVE  /\ up[h] \in Seq(Requests) /\ down[h] \in Seq(Answers)
         /\ Len(up[h]) \in Nat /\ Len(down[h]) \in Nat /\ MaxNet \in Nat /\ 1 <= MaxNet
         /\ Len(up[h]) + Len(down[h]) <= MaxNet
         /\ mediators[h] = "mismatch" => Len(up[h]) + Len(down[h]) < MaxNet
         /\ mediators[h] \in MediatorStates
<1>1. up[h] \in Seq(Requests) /\ down[h] \in Seq(Answers) /\ mediators[h] \in MediatorStates
  BY DEF RzIInv, RzTypes
<1>2. MaxNet \in Nat /\ 1 <= MaxNet
  BY MaxNetAssumption
<1>3. Len(up[h]) \in Nat /\ Len(down[h]) \in Nat
  BY <1>1
<1>4. /\ Len(up[h]) + Len(down[h]) <= MaxNet
      /\ mediators[h] = "mismatch" => Len(up[h]) + Len(down[h]) < MaxNet
  BY DEF RzIInv, RoomToAnswer
<1> QED BY ONLY <1>1, <1>2, <1>3, <1>4

\* A mediator goes on to another place, and sends nothing.
LEMMA MediatorMoves ==
  ASSUME RzIInv, NEW h \in Hosts,
         Connect(h) \/ ConfirmHost(h) \/ Solved(h)
  PROVE  RzIInv'
<1>1. RzTypes
  BY DEF RzIInv
<1>2. PICK x \in MediatorStates : /\ x # "mismatch" /\ mediators[h] # Gone
                                  /\ mediators' = [mediators EXCEPT ![h] = x]
  BY DEF Connect, ConfirmHost, Solved, MediatorStates, Gone
<1>3. /\ mediators' \in [Hosts -> MediatorStates] /\ mediators'[h] = x
      /\ \A k \in Hosts \ {h} : mediators'[k] = mediators[k]
  BY <1>1, <1>2 DEF RzTypes
<1>4. /\ UNCHANGED <<servers, stop_service, should_exit, manual_restarted, key_confirmed, my_id,
                     main, up, down, overwritten>>
      /\ keys_confirmed' \subseteq Hosts
      /\ solving' \in [host : Hosts \cup {NoHost}, locked : BOOLEAN]
  <2>1. /\ keys_confirmed \subseteq Hosts
        /\ solving \in [host : Hosts \cup {NoHost}, locked : BOOLEAN]
    BY <1>1 DEF RzTypes
  <2>2. CASE Connect(h)
    BY <2>1, <2>2 DEF Connect, config, flags
  <2>3. CASE ConfirmHost(h)
    BY <2>1, <2>3 DEF ConfirmHost, config, flags
  <2>4. CASE Solved(h)
    BY <2>1, <2>4 DEF Solved, config, flags, keys, NotSolving
  <2> QED BY <2>2, <2>3, <2>4
<1>5. RzTypes'
  BY <1>1, <1>3, <1>4 DEF RzTypes
<1>6. RunForServers' /\ RoomToAnswer'
  <2>1. Len(up'[h]) + Len(down'[h]) <= MaxNet
    BY <1>4, UnderWay
  <2> QED BY <1>2, <1>3, <1>4, <2>1, OneMediator
<1> QED BY <1>5, <1>6 DEF RzIInv

\* A mediator ends, and nothing of its socket is left.
LEMMA ExitKeeps ==
  ASSUME RzIInv, NEW h \in Hosts, Exit(h), solving' = solving
  PROVE  RzIInv'
<1>1. RzTypes
  BY DEF RzIInv
<1>2. /\ mediators' \in [Hosts -> MediatorStates] /\ mediators'[h] = Gone
      /\ \A k \in Hosts \ {h} : mediators'[k] = mediators[k]
  BY <1>1 DEF Exit, Leave, RzTypes, MediatorStates
<1>3. /\ up' \in [Hosts -> Seq(Requests)] /\ down' \in [Hosts -> Seq(Answers)]
      /\ up'[h] = <<>> /\ down'[h] = <<>>
      /\ \A k \in Hosts \ {h} : up'[k] = up[k] /\ down'[k] = down[k]
  BY <1>1 DEF Exit, RzTypes
<1>4. /\ UNCHANGED <<servers, stop_service, manual_restarted, key_confirmed, keys_confirmed, my_id,
                     main, overwritten>>
      /\ should_exit' = TRUE
  BY DEF Exit, Leave, config, keys
<1>5. RzTypes'
  BY <1>1, <1>2, <1>3, <1>4 DEF RzTypes
<1>6. RunForServers' /\ RoomToAnswer'
  <2>1. Len(up'[h]) + Len(down'[h]) <= MaxNet
    <3>1. Len(up'[h]) = 0 /\ Len(down'[h]) = 0
      BY <1>3
    <3>2. 0 + 0 <= MaxNet
      BY MaxNetAssumption
    <3> QED BY ONLY <3>1, <3>2
  <2>2. mediators'[h] # "mismatch"
    BY <1>2 DEF Gone
  <2> QED BY <1>2, <1>3, <1>4, <2>1, <2>2, OneMediator
<1> QED BY <1>5, <1>6 DEF RzIInv

\* Messages come and go at one mediator, which stays where it is or becomes x; the flags
\* stay as they are.
LEMMA NetKeeps ==
  ASSUME RzIInv, NEW h \in Hosts, NEW u \in Seq(Requests), NEW d \in Seq(Answers),
         NEW x \in MediatorStates, x # Gone => mediators[h] # Gone,
         up' = [up EXCEPT ![h] = u], down' = [down EXCEPT ![h] = d],
         mediators' = [mediators EXCEPT ![h] = x],
         Len(u) + Len(d) <= MaxNet, x = "mismatch" => Len(u) + Len(d) < MaxNet,
         UNCHANGED <<servers, stop_service, should_exit, manual_restarted, main, overwritten>>,
         key_confirmed' \in BOOLEAN, keys_confirmed' \subseteq Hosts, my_id' \in RzIds,
         solving' \in [host : Hosts \cup {NoHost}, locked : BOOLEAN]
  PROVE  RzIInv'
<1>1. RzTypes
  BY DEF RzIInv
<1>2. /\ up' \in [Hosts -> Seq(Requests)] /\ up'[h] = u
      /\ down' \in [Hosts -> Seq(Answers)] /\ down'[h] = d
      /\ mediators' \in [Hosts -> MediatorStates] /\ mediators'[h] = x
      /\ \A k \in Hosts \ {h} : /\ mediators'[k] = mediators[k]
                                /\ up'[k] = up[k] /\ down'[k] = down[k]
  BY <1>1 DEF RzTypes
<1>3. RzTypes'
  BY <1>1, <1>2 DEF RzTypes
<1>4. RunForServers' /\ RoomToAnswer'
  BY <1>2, OneMediator
<1> QED BY <1>3, <1>4 DEF RzIInv

\* What stays at one mediator, said as NetKeeps says it.
LEMMA Stays ==
  ASSUME RzIInv, NEW h \in Hosts
  PROVE  /\ up = [up EXCEPT ![h] = up[h]] /\ down = [down EXCEPT ![h] = down[h]]
         /\ mediators = [mediators EXCEPT ![h] = mediators[h]]
         /\ key_confirmed \in BOOLEAN /\ keys_confirmed \subseteq Hosts /\ my_id \in RzIds
         /\ solving \in [host : Hosts \cup {NoHost}, locked : BOOLEAN]
BY DEF RzIInv, RzTypes

\* The device's requests are requests.
LEMMA AreRequests ==
  ASSUME RzIInv
  PROVE  RegisterPk \in Requests /\ RegisterPeer \in Requests
BY DEF RzIInv, RzTypes, RegisterPk, RegisterPeer, Requests

\* The timer sends a request, in time or with room for it.
LEMMA TickKeepsNet ==
  ASSUME RzIInv, NEW h \in Hosts, TickUdp(h) \/ TickTcp(h)
  PROVE  RzIInv'
<1>1. PICK m \in Requests : up' = [up EXCEPT ![h] = Put(up[h], m)]
  BY AreRequests DEF TickUdp, TickTcp, Send
<1> DEFINE u == Put(up[h], m)
<1>2. u \in Seq(Requests) /\ Len(u) \in Nat /\ Len(u) \in {Len(up[h]), Len(up[h]) + 1}
  BY UnderWay, OneMore
<1>3. mediators[h] = "idle" /\ InTime(h)
  BY DEF TickUdp, TickTcp
<1>4. /\ UNCHANGED <<servers, stop_service, should_exit, manual_restarted, main, overwritten>>
      /\ UNCHANGED <<down, mediators, solving, key_confirmed, keys_confirmed, my_id>>
  BY DEF TickUdp, TickTcp, config, flags, keys
<1>5. up' = [up EXCEPT ![h] = u]
  BY <1>1
<1> HIDE DEF u
<1>6. Len(u) + Len(down[h]) <= MaxNet
  <2>1. Len(up[h]) \in Nat /\ Len(down[h]) \in Nat /\ MaxNet \in Nat /\ 1 <= MaxNet
    BY UnderWay
  <2>2. CASE up[h] = <<>> /\ down[h] = <<>>
    <3>1. Len(up[h]) = 0 /\ Len(down[h]) = 0
      BY <2>2
    <3> QED BY ONLY <1>2, <2>1, <3>1, OnePut
  <2>3. CASE Len(up[h]) + Len(down[h]) \in 1 .. MaxNet - 1
    BY ONLY <1>2, <2>1, <2>3, OnePut
  <2> QED BY <1>3, <2>2, <2>3 DEF InTime
<1>7. /\ mediators[h] # "mismatch" /\ mediators[h] \in MediatorStates
      /\ down[h] \in Seq(Answers)
  BY <1>3, UnderWay
<1>8. /\ down' = [down EXCEPT ![h] = down[h]] /\ mediators' = [mediators EXCEPT ![h] = mediators[h]]
      /\ key_confirmed' \in BOOLEAN /\ keys_confirmed' \subseteq Hosts /\ my_id' \in RzIds
      /\ solving' \in [host : Hosts \cup {NoHost}, locked : BOOLEAN]
  BY <1>4, Stays
<1>9. PICK x \in MediatorStates : x = mediators[h]
  BY <1>7
<1>10. x # "mismatch" /\ mediators' = [mediators EXCEPT ![h] = x] /\ (x # Gone => mediators[h] # Gone)
  BY ONLY <1>7, <1>8, <1>9
<1> QED BY <1>2, <1>4, <1>5, <1>6, <1>7, <1>8, <1>10, NetKeeps

\* The new id is sent: there is room for it.
LEMMA UpdateIdKeeps ==
  ASSUME RzIInv, NEW h \in Hosts, UpdateId(h)
  PROVE  RzIInv'
<1>1. my_id' \in RzIds /\ [kind |-> "register_pk", id |-> my_id'] \in Requests
  BY DEF UpdateId, Requests
<1> DEFINE u == Put(up[h], [kind |-> "register_pk", id |-> my_id'])
<1>2. u \in Seq(Requests) /\ Len(u) \in Nat /\ Len(u) \in {Len(up[h]), Len(up[h]) + 1}
  BY <1>1, UnderWay, OneMore
<1>3. up' = [up EXCEPT ![h] = u]
  BY DEF UpdateId, Send
<1> HIDE DEF u
<1>4. /\ UNCHANGED <<servers, stop_service, should_exit, manual_restarted, main, overwritten>>
      /\ UNCHANGED <<down, key_confirmed, keys_confirmed>> /\ mediators[h] = "mismatch"
      /\ mediators' = [mediators EXCEPT ![h] = "idle"]
      /\ solving' \in [host : Hosts \cup {NoHost}, locked : BOOLEAN]
  BY DEF UpdateId, config, flags
<1>5. Len(u) + Len(down[h]) <= MaxNet
  <2>1. /\ Len(up[h]) \in Nat /\ Len(down[h]) \in Nat /\ MaxNet \in Nat
        /\ Len(up[h]) + Len(down[h]) < MaxNet
    BY <1>4, UnderWay
  <2> QED BY ONLY <1>2, <2>1, OnePut
<1>6. /\ down' = [down EXCEPT ![h] = down[h]] /\ down[h] \in Seq(Answers)
      /\ key_confirmed' \in BOOLEAN /\ keys_confirmed' \subseteq Hosts
  BY <1>4, Stays, UnderWay
<1>7. "idle" \in MediatorStates /\ mediators[h] # Gone
  BY <1>4 DEF MediatorStates, Gone
<1> QED BY <1>1, <1>2, <1>3, <1>4, <1>5, <1>6, <1>7, NetKeeps

\* An answer arrives: it makes room, of which PeerResponse uses one place and Mismatch keeps
\* one for the new id.
LEMMA DeliverKeeps ==
  ASSUME RzIInv, NEW h \in Hosts, NEW i \in 1 .. MaxNet,
         PeerResponse(h, i) \/ PkOk(h, i) \/ Mismatch(h, i)
  PROVE  RzIInv'
<1>1. /\ mediators[h] = "idle" /\ i \in 1 .. Len(down[h])
      /\ down' = [down EXCEPT ![h] = Without(down[h], i)]
  BY DEF PeerResponse, PkOk, Mismatch, Arrives, Take
<1> DEFINE d == Without(down[h], i)
<1>2. d \in Seq(Answers) /\ Len(d) \in Nat /\ Len(down[h]) = Len(d) + 1
  BY <1>1, UnderWay, OneLess
<1>3. down' = [down EXCEPT ![h] = d]
  BY <1>1
<1> HIDE DEF d
<1>4. /\ Len(up[h]) \in Nat /\ Len(down[h]) \in Nat /\ MaxNet \in Nat
      /\ Len(up[h]) + Len(down[h]) <= MaxNet /\ up[h] \in Seq(Requests)
  BY UnderWay
<1>5. UNCHANGED <<servers, stop_service, should_exit, manual_restarted, main, overwritten>>
  BY DEF PeerResponse, PkOk, Mismatch, config, flags
<1>6. /\ mediators[h] \in MediatorStates /\ mediators[h] # Gone /\ mediators[h] # "mismatch"
      /\ "confirm_host" \in MediatorStates /\ "mismatch" \in MediatorStates
  BY <1>1 DEF MediatorStates, Gone
<1>7. CASE PeerResponse(h, i)
  <2>1. UNCHANGED <<mediators, solving, key_confirmed, keys_confirmed, my_id>>
    BY <1>7 DEF PeerResponse, keys
  <2>2. PICK u \in Seq(Requests) : /\ Len(u) \in Nat /\ Len(u) \in {Len(up[h]), Len(up[h]) + 1}
                                   /\ up' = [up EXCEPT ![h] = u]
    <3>1. CASE up' = up
      BY <1>4, <3>1, Stays
    <3>2. CASE Send(h, RegisterPk)
      <4>1. /\ Put(up[h], RegisterPk) \in Seq(Requests) /\ Len(Put(up[h], RegisterPk)) \in Nat
            /\ Len(Put(up[h], RegisterPk)) \in {Len(up[h]), Len(up[h]) + 1}
        BY <1>4, AreRequests, OneMore
      <4> QED BY <3>2, <4>1 DEF Send
    <3> QED BY <1>7, <3>1, <3>2 DEF PeerResponse
  <2>3. Len(u) + Len(d) <= MaxNet
    BY ONLY <1>2, <1>4, <2>2, OneTaken
  <2>4. /\ mediators' = [mediators EXCEPT ![h] = mediators[h]]
        /\ key_confirmed' \in BOOLEAN /\ keys_confirmed' \subseteq Hosts /\ my_id' \in RzIds
        /\ solving' \in [host : Hosts \cup {NoHost}, locked : BOOLEAN]
    BY <2>1, Stays
  <2> QED BY <1>2, <1>3, <1>5, <1>6, <2>2, <2>3, <2>4, NetKeeps
<1>8. Len(up[h]) + Len(d) <= MaxNet /\ Len(up[h]) + Len(d) < MaxNet
  BY ONLY <1>2, <1>4, OneTaken
<1>9. CASE PkOk(h, i)
  <2>1. /\ UNCHANGED <<up, solving, keys_confirmed, my_id>> /\ key_confirmed' = TRUE
        /\ mediators' = [mediators EXCEPT ![h] = "confirm_host"]
    BY <1>9 DEF PkOk
  <2>2. /\ up' = [up EXCEPT ![h] = up[h]] /\ keys_confirmed' \subseteq Hosts /\ my_id' \in RzIds
        /\ solving' \in [host : Hosts \cup {NoHost}, locked : BOOLEAN]
    BY <2>1, Stays
  <2> QED BY <1>2, <1>3, <1>4, <1>5, <1>6, <1>8, <2>1, <2>2, NetKeeps
<1>10. CASE Mismatch(h, i)
  <2>1. up' = [up EXCEPT ![h] = up[h]] /\ my_id' \in RzIds
    <3>1. up' = up /\ my_id' = my_id
      BY <1>10 DEF Mismatch
    <3> QED BY <3>1, Stays
  <2>2. PICK x \in {"mismatch", mediators[h]} : mediators' = [mediators EXCEPT ![h] = x]
    BY <1>10, Stays DEF Mismatch
  <2>3. /\ key_confirmed' \in BOOLEAN /\ keys_confirmed' \subseteq Hosts
        /\ solving' \in [host : Hosts \cup {NoHost}, locked : BOOLEAN]
    BY <1>10, Stays DEF Mismatch
  <2>4. x \in MediatorStates
    BY <1>6
  <2> QED BY <1>2, <1>3, <1>4, <1>5, <1>6, <1>8, <2>1, <2>2, <2>3, <2>4, NetKeeps
<1> QED BY <1>7, <1>9, <1>10

\* The server answers a request.
LEMMA ServeKeeps ==
  ASSUME RzIInv, NEW h \in Hosts, NEW i \in 1 .. MaxNet, Serve(h, i)
  PROVE  RzIInv'
<1>1. /\ i \in 1 .. Len(up[h]) /\ up' = [up EXCEPT ![h] = Without(up[h], i)]
      /\ down' = [down EXCEPT ![h] = Put(down[h], Answer(h, up[h][i]))]
      /\ UNCHANGED <<servers, stop_service, should_exit, manual_restarted, main, overwritten>>
      /\ UNCHANGED <<mediators, solving, key_confirmed, keys_confirmed, my_id>>
  BY DEF Serve, config, flags, keys
<1>2. PICK u \in Seq(Requests) : /\ Len(u) \in Nat /\ Len(up[h]) = Len(u) + 1
                                 /\ up' = [up EXCEPT ![h] = u]
  BY <1>1, UnderWay, OneLess
<1>3. Answer(h, up[h][i]) \in Answers
  BY DEF Answer, Answers
<1>4. PICK d \in Seq(Answers) : /\ Len(d) \in Nat /\ Len(d) \in {Len(down[h]), Len(down[h]) + 1}
                                /\ down' = [down EXCEPT ![h] = d]
  BY <1>1, <1>3, UnderWay, OneMore
<1>5. /\ Len(up[h]) \in Nat /\ Len(down[h]) \in Nat /\ MaxNet \in Nat
      /\ Len(up[h]) + Len(down[h]) <= MaxNet
      /\ mediators[h] = "mismatch" => Len(up[h]) + Len(down[h]) < MaxNet
      /\ mediators[h] \in MediatorStates
  BY UnderWay
<1>6. PICK x \in MediatorStates : x = mediators[h]
  BY <1>5
<1>7. Len(u) + Len(d) <= MaxNet /\ (x = "mismatch" => Len(u) + Len(d) < MaxNet)
  <2>1. PICK a \in Nat : a = Len(up[h])
    BY <1>5
  <2>2. PICK b \in Nat : b = Len(down[h])
    BY <1>5
  <2>3. PICK c \in Nat : c = Len(u)
    BY <1>2
  <2>4. PICK e \in Nat : e = Len(d)
    BY <1>4
  <2>5. a = c + 1 /\ (e = b \/ e = b + 1)
    BY <1>2, <1>4, <2>1, <2>2, <2>3, <2>4
  <2>6. a + b <= MaxNet /\ (x = "mismatch" => a + b < MaxNet)
    BY <1>5, <1>6, <2>1, <2>2
  <2>7. a \in Nat /\ b \in Nat /\ c \in Nat /\ e \in Nat /\ MaxNet \in Nat
    BY <1>5
  <2>8. c + e <= MaxNet /\ (x = "mismatch" => c + e < MaxNet)
    BY ONLY <2>5, <2>6, <2>7
  <2> QED BY ONLY <2>3, <2>4, <2>8
<1>8. /\ mediators' = [mediators EXCEPT ![h] = x] /\ (x # Gone => mediators[h] # Gone)
      /\ key_confirmed' \in BOOLEAN /\ keys_confirmed' \subseteq Hosts /\ my_id' \in RzIds
      /\ solving' \in [host : Hosts \cup {NoHost}, locked : BOOLEAN]
  BY <1>1, <1>6, Stays
<1>9. /\ UNCHANGED <<servers, stop_service, should_exit, manual_restarted, main, overwritten>>
      /\ up' = [up EXCEPT ![h] = u] /\ down' = [down EXCEPT ![h] = d]
  BY <1>1, <1>2, <1>4
<1> QED BY <1>7, <1>8, <1>9, NetKeeps

\* A datagram is lost.
LEMMA LoseKeeps ==
  ASSUME RzIInv, NEW h \in Hosts, Lose(h)
  PROVE  RzIInv'
<1>1. /\ UNCHANGED <<servers, stop_service, should_exit, manual_restarted, main, overwritten>>
      /\ UNCHANGED <<mediators, solving, key_confirmed, keys_confirmed, my_id>>
  BY DEF Lose, config, flags, keys
<1>2. PICK u \in Seq(Requests), d \in Seq(Answers) :
        /\ Len(u) <= Len(up[h]) /\ Len(d) <= Len(down[h])
        /\ up' = [up EXCEPT ![h] = u] /\ down' = [down EXCEPT ![h] = d]
  <2>1. ASSUME NEW i \in 1 .. Len(up[h]), up' = [up EXCEPT ![h] = Without(@, i)], down' = down
        PROVE  \E u \in Seq(Requests), d \in Seq(Answers) :
                 /\ Len(u) <= Len(up[h]) /\ Len(d) <= Len(down[h])
                 /\ up' = [up EXCEPT ![h] = u] /\ down' = [down EXCEPT ![h] = d]
    <3>1. /\ Without(up[h], i) \in Seq(Requests) /\ Len(Without(up[h], i)) <= Len(up[h])
          /\ down[h] \in Seq(Answers) /\ Len(down[h]) <= Len(down[h])
      <4>1. /\ up[h] \in Seq(Requests) /\ down[h] \in Seq(Answers)
            /\ Len(up[h]) \in Nat /\ Len(down[h]) \in Nat
        BY UnderWay
      <4>2. /\ Without(up[h], i) \in Seq(Requests) /\ Len(Without(up[h], i)) \in Nat
            /\ Len(up[h]) = Len(Without(up[h], i)) + 1
        BY <4>1, OneLess
      <4> QED BY ONLY <4>1, <4>2
    <3>2. up' = [up EXCEPT ![h] = Without(up[h], i)] /\ down' = [down EXCEPT ![h] = down[h]]
      BY <2>1, Stays
    <3> QED BY <3>1, <3>2
  <2>2. ASSUME NEW i \in 1 .. Len(down[h]), down' = [down EXCEPT ![h] = Without(@, i)], up' = up
        PROVE  \E u \in Seq(Requests), d \in Seq(Answers) :
                 /\ Len(u) <= Len(up[h]) /\ Len(d) <= Len(down[h])
                 /\ up' = [up EXCEPT ![h] = u] /\ down' = [down EXCEPT ![h] = d]
    <3>1. /\ Without(down[h], i) \in Seq(Answers) /\ Len(Without(down[h], i)) <= Len(down[h])
          /\ up[h] \in Seq(Requests) /\ Len(up[h]) <= Len(up[h])
      <4>1. /\ down[h] \in Seq(Answers) /\ up[h] \in Seq(Requests)
            /\ Len(down[h]) \in Nat /\ Len(up[h]) \in Nat
        BY UnderWay
      <4>2. /\ Without(down[h], i) \in Seq(Answers) /\ Len(Without(down[h], i)) \in Nat
            /\ Len(down[h]) = Len(Without(down[h], i)) + 1
        BY <4>1, OneLess
      <4> QED BY ONLY <4>1, <4>2
    <3>2. up' = [up EXCEPT ![h] = up[h]] /\ down' = [down EXCEPT ![h] = Without(down[h], i)]
      BY <2>2, Stays
    <3> QED BY <3>1, <3>2
  <2> QED BY <2>1, <2>2 DEF Lose
<1>3. /\ Len(up[h]) \in Nat /\ Len(down[h]) \in Nat /\ MaxNet \in Nat
      /\ Len(up[h]) + Len(down[h]) <= MaxNet
      /\ mediators[h] = "mismatch" => Len(up[h]) + Len(down[h]) < MaxNet
      /\ mediators[h] \in MediatorStates
  BY UnderWay
<1>4. /\ Len(u) + Len(d) <= MaxNet
      /\ mediators[h] = "mismatch" => Len(u) + Len(d) < MaxNet
  <2>1. Len(u) \in Nat /\ Len(d) \in Nat
    OBVIOUS
  <2>2. PICK a \in Nat : a = Len(up[h])
    BY <1>3
  <2>3. PICK b \in Nat : b = Len(down[h])
    BY <1>3
  <2>4. PICK c \in Nat : c = Len(u)
    BY <2>1
  <2>5. PICK e \in Nat : e = Len(d)
    BY <2>1
  <2>6. /\ c <= a /\ e <= b /\ a + b <= MaxNet
        /\ mediators[h] = "mismatch" => a + b < MaxNet
    BY <1>2, <1>3, <2>2, <2>3, <2>4, <2>5
  <2>7. a \in Nat /\ b \in Nat /\ c \in Nat /\ e \in Nat /\ MaxNet \in Nat
    BY <1>3
  <2>8. c + e <= MaxNet /\ (mediators[h] = "mismatch" => c + e < MaxNet)
    BY ONLY <2>6, <2>7
  <2> QED BY ONLY <2>4, <2>5, <2>8
<1>5. /\ mediators' = [mediators EXCEPT ![h] = mediators[h]]
      /\ key_confirmed' \in BOOLEAN /\ keys_confirmed' \subseteq Hosts /\ my_id' \in RzIds
      /\ solving' \in [host : Hosts \cup {NoHost}, locked : BOOLEAN]
  BY <1>1, Stays
<1> QED BY <1>1, <1>2, <1>3, <1>4, <1>5, NetKeeps

\* Every step keeps the invariant.
LEMMA RzKeeps ==
  ASSUME RzIInv, [RzNext]_rzVars
  PROVE  RzIInv'
<1>1. ASSUME NEW h \in Hosts, MediatorStep(h) PROVE RzIInv'
  BY <1>1, MediatorMoves, ExitKeeps, TickKeepsNet, UpdateIdKeeps DEF MediatorStep, TickExit
<1>2. ASSUME NEW h \in Hosts, Deliver(h) PROVE RzIInv'
  BY <1>2, DeliverKeeps DEF Deliver
<1>3. ASSUME NEW h \in Hosts, Fail(h) PROVE RzIInv'
  BY <1>3, ExitKeeps DEF Fail
<1>4. CASE UNCHANGED rzVars
  BY <1>4 DEF rzVars, RzIInv, RzTypes, RunForServers, RoomToAnswer
<1> QED BY <1>1, <1>2, <1>3, <1>4, MainKeeps, OptionsKeep, ServeKeeps, LoseKeeps DEF RzNext

\* A mediator runs only for a server start_all has read, while start_all waits for it, and no
\* more than MaxNet messages are ever under way for one: for any number of servers, ids,
\* changes of the options and losses.
THEOREM RzTypeCorrect == RzSpec => []RzTypeOK
<1>1. RzIInv => RzTypeOK
  BY DEF RzIInv, RzTypes, RunForServers, RoomToAnswer, RzTypeOK
<1> QED BY <1>1, RzStart, RzKeeps, PTL DEF RzSpec
=============================================================================
