------------------------- MODULE VideoServiceProofs -------------------------
(***************************************************************************)
(* Proofs of the safety properties of VideoService, for any connections,   *)
(* settings and bounds.                                                    *)
(***************************************************************************)
EXTENDS VideoService, ServiceProofs, TLAPS

\* From the encoder's set-up to the thread's way out, the locations at which the
\* next frame can still be one of this encoder.
Streaming == {"clear", "loop", "capture", "snapshot", "check", "swap", "encode",
              "set_send", "wait", "done"}

\* Only subscribers that were sent frames can decode the next one.
SyncedSubscribed == synced \subseteq svc.subscribes

\* Between the snapshot's look at the old subscribers and its swap nobody becomes
\* an old subscriber, although the lock is free in between.
NoOldAtSwap == pc = "swap" => svc.subscribes = {}

\* AllOrNoneDecode at every location of the loop.
AllOrNone ==
  pc \in Streaming =>
    \/ encoder_fresh
    \/ svc.subscribes \subseteq synced
    \/ svc.subscribes \cap synced = {}

\* The inductive invariant, in the two parts that do not depend on each other.
Stream == OneMapEach /\ SyncedSubscribed /\ NoOldAtSwap /\ AllOrNone
IInv == TypeOK /\ Stream /\ EntryOnlyWhileWaiting /\ ClosedNotSubscribed
-----------------------------------------------------------------------------
\* The thread's own variables, and the display's entry, in their types.
ThreadTypes ==
  /\ pc \in Locations
  /\ encoder_fresh \in BOOLEAN
  /\ send_conn_ids \in SUBSET Conns
  /\ fetched_conn_ids \in SUBSET Conns
  /\ waited \in 0 .. WaitSlices
  /\ DISPLAY_CONN_IDS \in SUBSET Conns

\* Every way out of video_service::run leaves them in their types.
LEMMA LeaveTypes == Leave => ThreadTypes'
<1> SUFFICES ASSUME Leave PROVE ThreadTypes'
  OBVIOUS
<1>1. 0 \in 0 .. WaitSlices BY WaitSlicesAssumption
<1>2. waited' \in 0 .. WaitSlices BY <1>1 DEF Leave, NewLocals
<1>3. pc' \in Locations BY DEF Leave, Locations
<1>4. encoder_fresh' \in BOOLEAN BY DEF Leave, NewLocals
<1>5. /\ send_conn_ids' \in SUBSET Conns
      /\ fetched_conn_ids' \in SUBSET Conns
      /\ DISPLAY_CONN_IDS' \in SUBSET Conns
  BY DEF Leave, NewLocals
<1> QED BY <1>2, <1>3, <1>4, <1>5 DEF ThreadTypes

\* So does a way out after a broadcast.
LEMMA BroadcastTypes == TypeOK /\ BroadcastOrLeave => ThreadTypes'
BY LeaveTypes DEF TypeOK, BroadcastOrLeave, Goto, ThreadTypes, Locations

\* WaitResult keeps the wait's own variables in their types.
LEMMA WaitResultType ==
  ASSUME NEW f \in SUBSET Conns, NEW t \in 0 .. WaitSlices, WaitResult(f, t)
  PROVE  /\ pc' \in {"wait", "done"}
         /\ waited' \in 0 .. WaitSlices
         /\ fetched_conn_ids' \in SUBSET Conns
BY DEF WaitResult

\* Type correctness is inductive for the steps of the capture thread.
LEMMA TypeThread == TypeOK /\ Thread => TypeOK'
<1> SUFFICES ASSUME TypeOK, Thread PROVE TypeOK'
  OBVIOUS
<1> USE DEF TypeOK, Locations, connVars, Goto, ThreadTypes
<1>1. CASE Enter BY <1>1 DEF Enter
<1>2. CASE Exit BY <1>2 DEF Exit
<1>3. CASE SetupEncoder BY <1>3 DEF SetupEncoder
<1>4. CASE SetupFails BY <1>4, LeaveTypes DEF SetupFails
<1>5. CASE ClearRefresh BY <1>5 DEF ClearRefresh
<1>6. CASE LoopEnds BY <1>6, LeaveTypes DEF LoopEnds
<1>7. CASE LoopRefreshes BY <1>7, BroadcastTypes DEF LoopRefreshes
<1>8. CASE LoopSwitches BY <1>8, LeaveTypes, BroadcastTypes DEF LoopSwitches
<1>9. CASE LoopContinues BY <1>9 DEF LoopContinues
<1>10. CASE BroadcastSnapshot BY <1>10, LeaveTypes DEF BroadcastSnapshot
<1>11. CASE BroadcastSwap
  <2>1. svc' \in ServiceInner BY <1>11, SwapMoves DEF BroadcastSwap
  <2> QED BY <1>11, <2>1, LeaveTypes DEF BroadcastSwap
<1>12. CASE CaptureFrame BY <1>12 DEF CaptureFrame
<1>13. CASE CaptureNothing BY <1>13 DEF CaptureNothing
<1>14. CASE CaptureFails BY <1>14, BroadcastTypes DEF CaptureFails
<1>15. CASE Snapshot BY <1>15 DEF Snapshot
<1>16. CASE SnapshotCheck BY <1>16 DEF SnapshotCheck
<1>17. CASE SnapshotSwap
  <2>1. svc' \in ServiceInner BY <1>17, SwapMoves DEF SnapshotSwap
  <2> QED BY <1>17, <2>1, LeaveTypes DEF SnapshotSwap
<1>18. CASE EncodeAndSend
  <2>1. svc.subscribes \in SUBSET Conns BY DEF ServiceInner
  <2>2. synced' \in SUBSET Conns BY <1>18, <2>1 DEF EncodeAndSend
  <2>3. ASSUME NEW c \in Conns PROVE (c \in synced') \in BOOLEAN
    OBVIOUS
  <2>4. ASSUME NEW c \in Conns PROVE Append(rx_video[c], c \in synced') \in Seq(BOOLEAN)
    BY <2>3
  <2>5. rx_video' \in [Conns -> Seq(BOOLEAN)] BY <1>18, <2>4 DEF EncodeAndSend
  <2> QED BY <1>18, <2>1, <2>2, <2>5 DEF EncodeAndSend
<1>19. CASE EncodeFails BY <1>19, LeaveTypes DEF EncodeFails
<1>20. CASE SetSend BY <1>20 DEF SetSend
<1>21. CASE WaitSwitches BY <1>21, BroadcastTypes DEF WaitSwitches
<1>22. CASE WaitNothing BY <1>22 DEF WaitNothing
<1>23. CASE WaitReceives
  <2>1. PICK t \in {waited, waited + 1} :
          t <= WaitSlices /\ WaitResult(fetched_conn_ids \cup notifier, t)
    BY <1>23 DEF WaitReceives
  <2>2. t \in 0 .. WaitSlices BY <2>1, WaitSlicesAssumption
  <2>3. /\ pc' \in {"wait", "done"}
        /\ waited' \in 0 .. WaitSlices
        /\ fetched_conn_ids' \in SUBSET Conns
    BY <2>1, <2>2, WaitResultType
  <2> QED BY <1>23, <2>3 DEF WaitReceives
<1>24. CASE WaitTimesOut
  <2> DEFINE t == IF waited < WaitSlices THEN waited + 1 ELSE waited
  <2>1. t \in 0 .. WaitSlices BY WaitSlicesAssumption
  <2>2. WaitResult(fetched_conn_ids, t) BY <1>24 DEF WaitTimesOut
  <2>3. /\ pc' \in {"wait", "done"}
        /\ waited' \in 0 .. WaitSlices
        /\ fetched_conn_ids' \in SUBSET Conns
    BY <2>1, <2>2, WaitResultType
  <2> QED BY <1>24, <2>3 DEF WaitTimesOut
<1>25. CASE WaitDone BY <1>25, WaitSlicesAssumption DEF WaitDone
<1> QED
  BY <1>1, <1>2, <1>3, <1>4, <1>5, <1>6, <1>7, <1>8, <1>9, <1>10, <1>11, <1>12, <1>13,
     <1>14, <1>15, <1>16, <1>17, <1>18, <1>19, <1>20, <1>21, <1>22, <1>23, <1>24, <1>25
  DEF Thread

\* Type correctness is inductive for everything else that happens.
LEMMA TypeOthers == TypeOK /\ Next /\ ~Thread => TypeOK'
<1> SUFFICES ASSUME TypeOK, Next, ~Thread PROVE TypeOK'
  OBVIOUS
<1> USE DEF TypeOK, connVars, threadVars
<1>1. ASSUME NEW c \in Conns, Subscribe(c) PROVE TypeOK'
  <2>1. svc' \in ServiceInner BY <1>1, SubscribeAdds DEF Subscribe
  <2> QED BY <1>1, <2>1 DEF Subscribe
<1>2. ASSUME NEW c \in Conns, Unsubscribe(c) PROVE TypeOK'
  <2>1. svc' \in ServiceInner BY <1>2, UnsubscribeRemoves DEF Unsubscribe
  <2> QED BY <1>2, <2>1 DEF Unsubscribe
<1>3. ASSUME NEW c \in Conns, AskRefresh(c) PROVE TypeOK' BY <1>3 DEF AskRefresh
<1>4. ASSUME NEW c \in Conns, LoopBreaks(c) PROVE TypeOK'
  <2>1. rx_video' \in [Conns -> Seq(BOOLEAN)] BY <1>4 DEF LoopBreaks
  <2> QED BY <1>4, <2>1 DEF LoopBreaks, notify_by_conn_id
<1>5. CASE SettingChanges BY <1>5 DEF SettingChanges
<1>6. CASE Join
  <2>1. svc' \in ServiceInner BY <1>6, DeactivateKeeps DEF Join
  <2> QED BY <1>6, <2>1 DEF Join
<1>7. ASSUME NEW c \in Conns, Fetch(c) PROVE TypeOK'
  <2>0. rx_video[c] \in Seq(BOOLEAN) /\ rx_video[c] # <<>> BY <1>7 DEF Fetch
  <2>1. Tail(rx_video[c]) \in Seq(BOOLEAN) BY <2>0
  <2>2. rx_video' \in [Conns -> Seq(BOOLEAN)] BY <1>7, <2>1 DEF Fetch
  <2>3. CASE c \in AckConns
    <3>1. unacked' = [unacked EXCEPT ![c] = @ + 1] BY <1>7, <2>3 DEF Fetch
    <3>2. unacked' \in [Conns -> Nat] BY <3>1
    <3> QED BY <1>7, <2>2, <2>3, <3>2 DEF Fetch
  <2>4. CASE c \notin AckConns BY <1>7, <2>2, <2>4 DEF Fetch
  <2> QED BY <2>3, <2>4
<1>8. ASSUME NEW c \in Conns, VideoReceived(c) PROVE TypeOK'
  <2>1. unacked' \in [Conns -> Nat] BY <1>8 DEF VideoReceived
  <2> QED BY <1>8, <2>1 DEF VideoReceived, notify_by_conn_id
<1>9. ASSUME NEW c \in Conns, RefreshVideo(c) PROVE TypeOK' BY <1>9 DEF RefreshVideo
<1>10. ASSUME NEW c \in Conns, RemoveConnection(c) PROVE TypeOK'
  <2>1. svc' \in ServiceInner BY <1>10, UnsubscribeRemoves DEF RemoveConnection
  <2> QED BY <1>10, <2>1 DEF RemoveConnection
<1> QED
  BY <1>1, <1>2, <1>3, <1>4, <1>5, <1>6, <1>7, <1>8, <1>9, <1>10 DEF Next, Disturb

\* Type correctness is inductive.
LEMMA TypeStep == TypeOK /\ [Next]_vars => TypeOK'
<1>1. TypeOK /\ UNCHANGED vars => TypeOK'
  BY DEF TypeOK, vars, threadVars, connVars
<1> QED BY <1>1, TypeThread, TypeOthers
-----------------------------------------------------------------------------
\* A step that leaves the service, the encoder and its clients alone keeps Stream
\* if it stays in the loop, short of the swap, or gets out of it.
LEMMA StreamKept ==
  ASSUME Stream, UNCHANGED <<svc, synced>>,
         \/ pc' \notin Streaming
         \/ pc \in Streaming /\ pc' \in Streaming \ {"swap"} /\ UNCHANGED encoder_fresh
  PROVE  Stream'
BY DEF Stream, OneMapEach, SyncedSubscribed, NoOldAtSwap, AllOrNone, Streaming

\* The stream's invariant is inductive for the steps of the capture thread.
LEMMA StreamThread == TypeOK /\ Stream /\ Thread => Stream'
<1> SUFFICES ASSUME TypeOK, Stream, Thread PROVE Stream'
  OBVIOUS
<1>t. svc \in ServiceInner BY DEF TypeOK
<1> USE DEF Streaming
<1>1. CASE Enter BY <1>1, StreamKept DEF Enter, Goto
<1>2. CASE Exit BY <1>2, StreamKept DEF Exit, Goto
<1>3. CASE SetupEncoder
  BY <1>3 DEF SetupEncoder, Stream, OneMapEach, SyncedSubscribed, NoOldAtSwap, AllOrNone
<1>4. CASE SetupFails BY <1>4, StreamKept DEF SetupFails, Leave
<1>5. CASE ClearRefresh BY <1>5, StreamKept DEF ClearRefresh, Goto
<1>6. CASE LoopEnds BY <1>6, StreamKept DEF LoopEnds, Leave
<1>7. CASE LoopRefreshes
  BY <1>7, StreamKept DEF LoopRefreshes, BroadcastOrLeave, Goto, Leave
<1>8. CASE LoopSwitches
  BY <1>8, StreamKept DEF LoopSwitches, BroadcastOrLeave, Goto, Leave
<1>9. CASE LoopContinues BY <1>9, StreamKept DEF LoopContinues, Goto
<1>10. CASE BroadcastSnapshot BY <1>10, StreamKept DEF BroadcastSnapshot, Goto, Leave
<1>11. CASE BroadcastSwap
  <2>1. /\ svc'.subscribes = Subscribers(svc)
        /\ OneMap(svc')
    BY <1>11, <1>t, SwapMoves DEF BroadcastSwap
  <2>2. pc' = "idle" /\ synced' = synced BY <1>11 DEF BroadcastSwap, Leave
  <2> QED
    BY <2>1, <2>2
    DEF Stream, OneMapEach, SyncedSubscribed, NoOldAtSwap, AllOrNone, Subscribers
<1>12. CASE CaptureFrame BY <1>12, StreamKept DEF CaptureFrame, Goto
<1>13. CASE CaptureNothing BY <1>13, StreamKept DEF CaptureNothing, Goto
<1>14. CASE CaptureFails
  BY <1>14, StreamKept DEF CaptureFails, BroadcastOrLeave, Goto, Leave
<1>15. CASE Snapshot BY <1>15, StreamKept DEF Snapshot, Goto
<1>16. CASE SnapshotCheck
  BY <1>16 DEF SnapshotCheck, Goto, Stream, OneMapEach, SyncedSubscribed, NoOldAtSwap,
               AllOrNone
<1>17. CASE SnapshotSwap
  <2>1. /\ svc'.subscribes = Subscribers(svc)
        /\ OneMap(svc')
    BY <1>17, <1>t, SwapMoves DEF SnapshotSwap
  <2>2. synced' = synced BY <1>17 DEF SnapshotSwap
  <2>3. CASE pc = "swap"
    <3>1. synced = {} BY <2>3 DEF Stream, SyncedSubscribed, NoOldAtSwap
    <3>2. pc' = "encode" BY <1>17, <2>3 DEF SnapshotSwap, Goto
    <3> QED
      BY <2>1, <2>2, <3>1, <3>2
      DEF Stream, OneMapEach, SyncedSubscribed, NoOldAtSwap, AllOrNone
  <2>4. CASE pc = "swap_switch"
    <3>1. pc' = "idle" BY <1>17, <2>4 DEF SnapshotSwap, Leave
    <3> QED
      BY <2>1, <2>2, <3>1
      DEF Stream, OneMapEach, SyncedSubscribed, NoOldAtSwap, AllOrNone, Subscribers
  <2> QED BY <1>17, <2>3, <2>4 DEF SnapshotSwap
<1>18. CASE EncodeAndSend
  <2>1. /\ pc = "encode" /\ pc' = "set_send"
        /\ svc' = svc
        /\ synced' = IF encoder_fresh THEN svc.subscribes ELSE synced \cap svc.subscribes
    BY <1>18 DEF EncodeAndSend
  <2> QED
    BY <2>1 DEF Stream, OneMapEach, SyncedSubscribed, NoOldAtSwap, AllOrNone
<1>19. CASE EncodeFails BY <1>19, StreamKept DEF EncodeFails, Goto, Leave
<1>20. CASE SetSend BY <1>20, StreamKept DEF SetSend, Goto
<1>21. CASE WaitSwitches
  BY <1>21, StreamKept DEF WaitSwitches, BroadcastOrLeave, Goto, Leave
<1>22. CASE WaitNothing BY <1>22, StreamKept DEF WaitNothing, Goto
<1>23. CASE WaitReceives BY <1>23, StreamKept DEF WaitReceives, WaitResult
<1>24. CASE WaitTimesOut BY <1>24, StreamKept DEF WaitTimesOut, WaitResult
<1>25. CASE WaitDone BY <1>25, StreamKept DEF WaitDone
<1> QED
  BY <1>1, <1>2, <1>3, <1>4, <1>5, <1>6, <1>7, <1>8, <1>9, <1>10, <1>11, <1>12, <1>13,
     <1>14, <1>15, <1>16, <1>17, <1>18, <1>19, <1>20, <1>21, <1>22, <1>23, <1>24, <1>25
  DEF Thread

\* And for everything else: who comes or goes between two steps of the thread, in
\* the snapshot's window too, does not mix the two kinds of receivers.
LEMMA StreamOthers == TypeOK /\ Stream /\ Next /\ ~Thread => Stream'
<1> SUFFICES ASSUME TypeOK, Stream, Next, ~Thread PROVE Stream'
  OBVIOUS
<1>t. svc \in ServiceInner BY DEF TypeOK
<1> USE DEF Stream, OneMapEach, SyncedSubscribed, NoOldAtSwap, AllOrNone, threadVars
<1>1. ASSUME NEW c \in Conns, Subscribe(c) PROVE Stream'
  <2>1. svc'.subscribes = svc.subscribes /\ OneMap(svc')
    BY <1>1, <1>t, SubscribeAdds DEF Subscribe
  <2> QED BY <1>1, <2>1 DEF Subscribe
<1>2. ASSUME NEW c \in Conns, Unsubscribe(c) PROVE Stream'
  <2>1. svc'.subscribes = svc.subscribes \ {c} /\ OneMap(svc')
    BY <1>2, <1>t, UnsubscribeRemoves DEF Unsubscribe
  <2> QED BY <1>2, <2>1 DEF Unsubscribe
<1>3. ASSUME NEW c \in Conns, AskRefresh(c) PROVE Stream' BY <1>3 DEF AskRefresh
<1>4. ASSUME NEW c \in Conns, LoopBreaks(c) PROVE Stream' BY <1>4 DEF LoopBreaks
<1>5. CASE SettingChanges BY <1>5 DEF SettingChanges
<1>6. CASE Join
  <2>1. svc'.subscribes = svc.subscribes /\ OneMap(svc')
    BY <1>6, <1>t, DeactivateKeeps DEF Join
  <2> QED BY <1>6, <2>1 DEF Join
<1>7. ASSUME NEW c \in Conns, Fetch(c) PROVE Stream' BY <1>7 DEF Fetch
<1>8. ASSUME NEW c \in Conns, VideoReceived(c) PROVE Stream' BY <1>8 DEF VideoReceived
<1>9. ASSUME NEW c \in Conns, RefreshVideo(c) PROVE Stream' BY <1>9 DEF RefreshVideo
<1>10. ASSUME NEW c \in Conns, RemoveConnection(c) PROVE Stream'
  <2>1. svc'.subscribes = svc.subscribes \ {c} /\ OneMap(svc')
    BY <1>10, <1>t, UnsubscribeRemoves DEF RemoveConnection
  <2> QED BY <1>10, <2>1 DEF RemoveConnection
<1> QED
  BY <1>1, <1>2, <1>3, <1>4, <1>5, <1>6, <1>7, <1>8, <1>9, <1>10 DEF Next, Disturb
-----------------------------------------------------------------------------
\* A step that changes neither the entry nor who the frame went to keeps
\* EntryOnlyWhileWaiting if it stays among the locations of the wait, or if there
\* was no entry.  A step out of video_service::run drops the entry.
LEMMA EntryStep == EntryOnlyWhileWaiting /\ [Next]_vars => EntryOnlyWhileWaiting'
<1> SUFFICES ASSUME EntryOnlyWhileWaiting, [Next]_vars PROVE EntryOnlyWhileWaiting'
  OBVIOUS
<1> USE DEF EntryOnlyWhileWaiting, Goto, Leave
<1>1. CASE Thread
  <2>1. CASE Enter \/ Exit \/ SetupEncoder \/ SetupFails \/ ClearRefresh
    BY <2>1 DEF Enter, Exit, SetupEncoder, SetupFails, ClearRefresh
  <2>2. CASE LoopEnds \/ LoopRefreshes \/ LoopSwitches \/ LoopContinues
    BY <2>2 DEF LoopEnds, LoopRefreshes, LoopSwitches, LoopContinues, BroadcastOrLeave
  <2>3. CASE BroadcastSnapshot \/ BroadcastSwap
    BY <2>3 DEF BroadcastSnapshot, BroadcastSwap
  <2>4. CASE CaptureFrame \/ CaptureNothing \/ CaptureFails
    BY <2>4 DEF CaptureFrame, CaptureNothing, CaptureFails, BroadcastOrLeave
  <2>5. CASE Snapshot \/ SnapshotCheck \/ SnapshotSwap
    BY <2>5 DEF Snapshot, SnapshotCheck, SnapshotSwap
  <2>6. CASE EncodeAndSend \/ EncodeFails \/ SetSend
    BY <2>6 DEF EncodeAndSend, EncodeFails, SetSend
  <2>7. CASE WaitSwitches \/ WaitNothing \/ WaitDone
    BY <2>7 DEF WaitSwitches, WaitNothing, WaitDone, BroadcastOrLeave
  <2>8. CASE WaitReceives \/ WaitTimesOut
    BY <2>8 DEF WaitReceives, WaitTimesOut, WaitResult
  <2> QED BY <1>1, <2>1, <2>2, <2>3, <2>4, <2>5, <2>6, <2>7, <2>8 DEF Thread
<1>2. CASE UNCHANGED <<DISPLAY_CONN_IDS, threadVars>> BY <1>2 DEF threadVars
<1>3. Next /\ ~Thread => UNCHANGED <<DISPLAY_CONN_IDS, threadVars>>
  BY DEF Next, Disturb, Subscribe, Unsubscribe, AskRefresh, LoopBreaks, SettingChanges,
         Join, Fetch, VideoReceived, RefreshVideo, RemoveConnection
<1> QED BY <1>1, <1>2, <1>3 DEF vars

\* A step that adds no subscriber and closes no connection keeps
\* ClosedNotSubscribed.
LEMMA ClosedKept ==
  ASSUME ClosedNotSubscribed, Subscribers(svc)' \subseteq Subscribers(svc), UNCHANGED conn
  PROVE  ClosedNotSubscribed'
BY DEF ClosedNotSubscribed

\* No subscription outlives its connection: the swap adds nobody, and
\* on_unsubscribe is complete because no connection is in both maps.
LEMMA ClosedStep ==
  TypeOK /\ OneMapEach /\ ClosedNotSubscribed /\ [Next]_vars => ClosedNotSubscribed'
<1> SUFFICES ASSUME TypeOK, OneMapEach, ClosedNotSubscribed, [Next]_vars
             PROVE  ClosedNotSubscribed'
  OBVIOUS
<1>t. svc \in ServiceInner /\ conn \in [Conns -> {"open", "closing", "closed"}]
  BY DEF TypeOK
<1>1. ASSUME NEW c \in Conns, Subscribe(c) PROVE ClosedNotSubscribed'
  <2>1. Subscribers(svc') = Subscribers(svc) \cup {c}
    BY <1>1, <1>t, SubscribeAdds DEF Subscribe
  <2>2. conn[c] = "open" /\ conn' = conn BY <1>1 DEF Subscribe, connVars
  <2> QED BY <2>1, <2>2 DEF ClosedNotSubscribed
<1>2. ASSUME NEW c \in Conns, Unsubscribe(c) PROVE ClosedNotSubscribed'
  <2>1. Subscribers(svc') \subseteq Subscribers(svc)
    BY <1>2, <1>t, UnsubscribeRemoves DEF Unsubscribe
  <2> QED BY <1>2, <2>1, ClosedKept DEF Unsubscribe, connVars
<1>3. ASSUME NEW c \in Conns, LoopBreaks(c) PROVE ClosedNotSubscribed'
  BY <1>3, <1>t DEF LoopBreaks, ClosedNotSubscribed
<1>4. ASSUME NEW c \in Conns, RemoveConnection(c) PROVE ClosedNotSubscribed'
  <2>1. Subscribers(svc') = Subscribers(svc) \ {c}
    BY <1>4, <1>t, UnsubscribeRemoves DEF RemoveConnection, OneMapEach
  <2>2. \A d \in Conns : d # c => conn'[d] = conn[d] BY <1>4, <1>t DEF RemoveConnection
  <2> QED BY <2>1, <2>2 DEF ClosedNotSubscribed
<1>5. CASE Join
  <2>1. Subscribers(svc') = Subscribers(svc) BY <1>5, <1>t, DeactivateKeeps DEF Join
  <2> QED BY <1>5, <2>1, ClosedKept DEF Join, connVars
<1>6. CASE BroadcastSwap \/ SnapshotSwap
  <2>1. Subscribers(svc') = Subscribers(svc)
    BY <1>6, <1>t, SwapMoves DEF BroadcastSwap, SnapshotSwap
  <2> QED BY <1>6, <2>1, ClosedKept DEF BroadcastSwap, SnapshotSwap, connVars
<1>7. CASE UNCHANGED <<svc, conn>> BY <1>7, ClosedKept
<1>8. Thread => BroadcastSwap \/ SnapshotSwap \/ UNCHANGED <<svc, conn>>
  BY DEF Thread, Enter, Exit, SetupEncoder, SetupFails, ClearRefresh, LoopEnds,
         LoopRefreshes, LoopSwitches, LoopContinues, BroadcastSnapshot, CaptureFrame,
         CaptureNothing, CaptureFails, Snapshot, SnapshotCheck, EncodeAndSend,
         EncodeFails, SetSend, WaitSwitches, WaitNothing, WaitReceives, WaitTimesOut,
         WaitDone, connVars
<1>9. \A c \in Conns : AskRefresh(c) \/ Fetch(c) \/ VideoReceived(c) \/ RefreshVideo(c)
                        => UNCHANGED <<svc, conn>>
  BY DEF AskRefresh, Fetch, VideoReceived, RefreshVideo
<1>10. SettingChanges => UNCHANGED <<svc, conn>> BY DEF SettingChanges, connVars
<1> QED
  BY <1>1, <1>2, <1>3, <1>4, <1>5, <1>6, <1>7, <1>8, <1>9, <1>10
  DEF Next, Disturb, vars, connVars
-----------------------------------------------------------------------------
\* The inductive invariant holds.
THEOREM Inductive == Spec => []IInv
<1>1. Init => IInv
  <2> SUFFICES ASSUME Init PROVE IInv
    OBVIOUS
  <2>1. TypeOK
    <3>1. svc \in ServiceInner BY NewService DEF Init
    <3>2. 0 \in 0 .. WaitSlices BY WaitSlicesAssumption
    <3>3. rx_video \in [Conns -> Seq(BOOLEAN)] BY DEF Init
    <3> QED BY <3>1, <3>2, <3>3 DEF Init, TypeOK, Locations
  <2>2. svc = New /\ pc = "idle" /\ synced = {} /\ DISPLAY_CONN_IDS = {} BY DEF Init
  <2>3. Stream
    BY <2>2, NewService
    DEF Stream, OneMapEach, SyncedSubscribed, NoOldAtSwap, AllOrNone, Streaming
  <2>4. EntryOnlyWhileWaiting BY <2>2 DEF EntryOnlyWhileWaiting
  <2>5. ClosedNotSubscribed BY <2>2, NewService DEF ClosedNotSubscribed
  <2> QED BY <2>1, <2>3, <2>4, <2>5 DEF IInv
<1>2. IInv /\ [Next]_vars => IInv'
  <2> SUFFICES ASSUME IInv, [Next]_vars PROVE IInv'
    OBVIOUS
  <2>1. TypeOK' BY TypeStep DEF IInv
  <2>2. Stream'
    <3>1. CASE UNCHANGED vars
      BY <3>1 DEF IInv, vars, threadVars, Stream, OneMapEach, SyncedSubscribed,
                  NoOldAtSwap, AllOrNone
    <3> QED BY <3>1, StreamThread, StreamOthers DEF IInv
  <2>3. EntryOnlyWhileWaiting' BY EntryStep DEF IInv
  <2>4. ClosedNotSubscribed' BY ClosedStep DEF IInv, Stream
  <2> QED BY <2>1, <2>2, <2>3, <2>4 DEF IInv
<1> QED BY <1>1, <1>2, PTL DEF Spec

\* Every variable stays in its type, whatever the thread and the connections do.
THEOREM TypeCorrect == Spec => []TypeOK
<1>1. IInv => TypeOK BY DEF IInv
<1> QED BY <1>1, Inductive, PTL

\* handle_one_frame never sends a frame that some receivers can decode and others
\* cannot, for any number of connections and any interleaving with the snapshot.
THEOREM NeverMixed == Spec => []AllOrNoneDecode
<1>1. IInv => AllOrNoneDecode BY DEF IInv, Stream, AllOrNone, Streaming, AllOrNoneDecode
<1> QED BY <1>1, Inductive, PTL

\* subscribes and new_subscribes never share a connection.
THEOREM MapsDisjoint == Spec => []OneMapEach
<1>1. IInv => OneMapEach BY DEF IInv, Stream
<1> QED BY <1>1, Inductive, PTL

\* The display's entry names receivers of the current frame, during its wait only.
THEOREM EntryWhileWaiting == Spec => []EntryOnlyWhileWaiting
<1>1. IInv => EntryOnlyWhileWaiting BY DEF IInv
<1> QED BY <1>1, Inductive, PTL

\* After Server::remove_connection the service does not know the connection.
THEOREM ClosedGone == Spec => []ClosedNotSubscribed
<1>1. IInv => ClosedNotSubscribed BY DEF IInv
<1> QED BY <1>1, Inductive, PTL
=============================================================================
