---------------------------- MODULE VideoService ----------------------------
(***************************************************************************)
(* One display's video service: the capture thread of src/server/          *)
(* video_service.rs, the generic loop that restarts it (service.rs), and   *)
(* the connections (src/server/connection.rs) that take its frames and     *)
(* acknowledge them.                                                       *)
(*                                                                         *)
(* The encoders are configured without periodic key frames, so only the    *)
(* first frame of an encoder can be decoded on its own.  A frame in a      *)
(* connection's queue is therefore modelled by whether its client can      *)
(* decode it: the client has the key frame and every frame since.  When it *)
(* cannot, the client asks for a refresh, which restarts the encoder.      *)
(***************************************************************************)
EXTENDS Service, Naturals, Sequences

CONSTANTS AckConns,    \* connections whose login set video_ack_required
          Settings,    \* what may change under a running capture
          WaitSlices,  \* 300 ms waits that fit into the 3 s wait for acks
          MaxQueue,    \* bound on the frames in a connection's unbounded queue
          MaxUnacked   \* bound on the frames a client has not acknowledged

ASSUME AckConnsAssumption == AckConns \subseteq Conns
ASSUME SettingsAssumption == Settings \subseteq {"codec", "privacy", "display"}
ASSUME WaitSlicesAssumption == WaitSlices \in Nat \ {0}
ASSUME MaxQueueAssumption == MaxQueue \in Nat \ {0}
ASSUME MaxUnackedAssumption == MaxUnacked \in Nat \ {0}

VARIABLES
  svc,               \* the ServiceInner of this display
  refresh,           \* its option OPTION_REFRESH
  pc,                \* where the capture thread is
  encoder_fresh,     \* the encoder has produced no frame yet
  switch,            \* what changed since the encoder was set up
  send_conn_ids,     \* VideoFrameController: who the current frame was sent to
  fetched_conn_ids,  \* who is counted as having fetched it
  waited,            \* 300 ms slices spent waiting for that
  DISPLAY_CONN_IDS,  \* this display's entry; {} when there is none
  notifier,          \* ids in the FRAME_FETCHED_NOTIFIERS channel
  conn,              \* state of each connection's loop
  rx_video,          \* its frames: can its client decode them?
  unacked,           \* frames a client with video_ack_required has not acked
  asked,             \* clients whose refresh request is on its way
  synced             \* clients that can decode the encoder's next frame

threadVars == <<pc, encoder_fresh, send_conn_ids, fetched_conn_ids, waited>>
connVars   == <<conn, rx_video, unacked, asked>>
vars == <<svc, refresh, switch, DISPLAY_CONN_IDS, notifier, synced,
          threadVars, connVars>>

Locations == {"idle", "setup", "clear", "loop", "broadcast", "broadcast_swap",
              "capture", "snapshot", "check", "swap", "swap_switch", "encode",
              "set_send", "wait", "done", "exit"}

\* One type invariant for the module.
TypeOK ==
  /\ svc \in ServiceInner
  /\ refresh \in BOOLEAN
  /\ pc \in Locations
  /\ encoder_fresh \in BOOLEAN
  /\ switch \in Settings \cup {"none"}
  /\ send_conn_ids \in SUBSET Conns
  /\ fetched_conn_ids \in SUBSET Conns
  /\ waited \in 0 .. WaitSlices
  /\ DISPLAY_CONN_IDS \in SUBSET Conns
  /\ notifier \in SUBSET Conns
  /\ conn \in [Conns -> {"open", "closing", "closed"}]
  /\ rx_video \in [Conns -> Seq(BOOLEAN)]
  /\ unacked \in [Conns -> Nat]
  /\ asked \in SUBSET Conns
  /\ synced \in SUBSET Conns

Init ==
  /\ svc = New
  /\ refresh = FALSE
  /\ pc = "idle"
  /\ encoder_fresh = FALSE
  /\ switch = "none"
  /\ send_conn_ids = {}
  /\ fetched_conn_ids = {}
  /\ waited = 0
  /\ DISPLAY_CONN_IDS = {}
  /\ notifier = {}
  /\ conn = [c \in Conns |-> "open"]
  /\ rx_video = [c \in Conns |-> <<>>]
  /\ unacked = [c \in Conns |-> 0]
  /\ asked = {}
  /\ synced = {}
-----------------------------------------------------------------------------
(* The capture thread: GenericService::run around video_service::run.      *)

Goto(l) ==
  /\ pc' = l
  /\ UNCHANGED <<encoder_fresh, send_conn_ids, fetched_conn_ids, waited>>

\* The locals of video_service::run go with it.
NewLocals ==
  /\ encoder_fresh' = FALSE
  /\ send_conn_ids' = {}
  /\ fetched_conn_ids' = {}
  /\ waited' = 0

\* Mutated form of Leave: Drop for Raii forgets the display's entry.
LeaveDirty == pc' = "idle" /\ NewLocals /\ UNCHANGED DISPLAY_CONN_IDS

\* Every way out of video_service::run ends in Drop for Raii.
Leave == pc' = "idle" /\ NewLocals /\ DISPLAY_CONN_IDS' = {}

\* GenericService::run: enter the callback while there are subscribers.
Enter ==
  /\ pc = "idle"
  /\ ok(svc)
  /\ Goto("setup")
  /\ UNCHANGED <<svc, refresh, switch, DISPLAY_CONN_IDS, notifier, synced, connVars>>

\* GenericService::run: the loop ends when join() has cleared `active'.
Exit ==
  /\ pc = "idle"
  /\ ~svc.active
  /\ Goto("exit")
  /\ UNCHANGED <<svc, refresh, switch, DISPLAY_CONN_IDS, notifier, synced, connVars>>

\* get_capturer and setup_encoder succeed: from here on the settings the loop
\* compares with are the current ones, and the next frame is a key frame.
SetupEncoder ==
  /\ pc = "setup"
  /\ pc' = "clear"
  /\ encoder_fresh' = TRUE
  /\ switch' = "none"
  /\ synced' = {}
  /\ UNCHANGED <<svc, refresh, DISPLAY_CONN_IDS, notifier, connVars,
                 send_conn_ids, fetched_conn_ids, waited>>

\* One of them fails (twice, for the encoder) and `?' leaves.
SetupFails ==
  /\ pc = "setup"
  /\ Leave
  /\ UNCHANGED <<svc, refresh, switch, notifier, synced, connVars>>

\* The refresh option is cleared only once the new encoder exists.
ClearRefresh ==
  /\ pc = "clear"
  /\ refresh' = FALSE
  /\ Goto("loop")
  /\ UNCHANGED <<svc, switch, DISPLAY_CONN_IDS, notifier, synced, connVars>>

\* while sp.ok(): nobody is left, or the service is being joined.
LoopEnds ==
  /\ pc = "loop"
  /\ ~ok(svc)
  /\ Leave
  /\ UNCHANGED <<svc, refresh, switch, notifier, synced, connVars>>

\* try_broadcast_display_changed, called on the way out: it returns early when
\* the display has not changed.
BroadcastOrLeave ==
  \/ Goto("broadcast") /\ UNCHANGED DISPLAY_CONN_IDS
  \/ Leave

\* Mutated form of LoopRefreshes: the option is taken but the encoder kept.
LoopRefreshesInPlace ==
  /\ pc = "loop"
  /\ ok(svc)
  /\ refresh
  /\ refresh' = FALSE
  /\ UNCHANGED <<svc, switch, DISPLAY_CONN_IDS, notifier, synced, threadVars, connVars>>

\* OPTION_REFRESH is set: bail!("SWITCH").
LoopRefreshes ==
  /\ pc = "loop"
  /\ ok(svc)
  /\ refresh
  /\ BroadcastOrLeave
  /\ UNCHANGED <<svc, refresh, switch, notifier, synced, connVars>>

\* The codec, the privacy mode or the display is not the one set up for.  "codec"
\* stands for everything that leaves without a broadcast: the codec, the chroma
\* format, the portable service, the Windows desktop, UAC, an error of check_qos.
LoopSwitches ==
  /\ pc = "loop"
  /\ ok(svc)
  /\ ~refresh
  /\ \/ switch = "codec" /\ Leave
     \/ switch = "privacy" /\ BroadcastOrLeave
     \/ switch = "display" /\ Goto("broadcast") /\ UNCHANGED DISPLAY_CONN_IDS
  /\ UNCHANGED <<svc, refresh, switch, notifier, synced, connVars>>

\* No reason to switch: on to the capturer.
LoopContinues ==
  /\ pc = "loop"
  /\ ok(svc)
  /\ ~refresh
  /\ switch = "none"
  /\ Goto("capture")
  /\ UNCHANGED <<svc, refresh, switch, DISPLAY_CONN_IDS, notifier, synced, connVars>>

\* The display did change: the message went to the subscribers, the snapshot
\* sends it to the new ones, if any; then bail!("SWITCH").
BroadcastSnapshot ==
  /\ pc = "broadcast"
  /\ \/ svc.new_subscribes # {} /\ Goto("broadcast_swap") /\ UNCHANGED DISPLAY_CONN_IDS
     \/ svc.new_subscribes = {} /\ Leave
  /\ UNCHANGED <<svc, refresh, switch, notifier, synced, connVars>>

\* Drop for ServiceSwap, then the bail.
BroadcastSwap ==
  /\ pc = "broadcast_swap"
  /\ svc' = swap_new_subscribes(svc)
  /\ Leave
  /\ UNCHANGED <<refresh, switch, notifier, synced, connVars>>

\* c.frame() returns a valid frame, or the last one is encoded again.
CaptureFrame ==
  /\ pc = "capture"
  /\ Goto("snapshot")
  /\ UNCHANGED <<svc, refresh, switch, DISPLAY_CONN_IDS, notifier, synced, connVars>>

\* WouldBlock, or an invalid frame: there is nothing to encode.
CaptureNothing ==
  /\ pc = "capture"
  /\ Goto("wait")
  /\ UNCHANGED <<svc, refresh, switch, DISPLAY_CONN_IDS, notifier, synced, connVars>>

\* A capture error: leave, after a broadcast if the display changed, or fall
\* back to GDI and `continue'.  A frame that cannot be converted, and a screenshot
\* that needs another encoder, leave too.
CaptureFails ==
  /\ pc = "capture"
  /\ \/ BroadcastOrLeave
     \/ Goto("loop") /\ UNCHANGED DISPLAY_CONN_IDS
  /\ UNCHANGED <<svc, refresh, switch, notifier, synced, connVars>>

\* handle_one_frame, sp.snapshot: only called back when someone is new.
Snapshot ==
  /\ pc = "snapshot"
  /\ Goto(IF svc.new_subscribes # {} THEN "check" ELSE "encode")
  /\ UNCHANGED <<svc, refresh, switch, DISPLAY_CONN_IDS, notifier, synced, connVars>>

\* Mutated form of SnapshotCheck: old subscribers are not looked for.
SnapshotCheckSkipped ==
  /\ pc = "check"
  /\ Goto("swap")
  /\ UNCHANGED <<svc, refresh, switch, DISPLAY_CONN_IDS, notifier, synced, connVars>>

\* The callback: with old subscribers the encoder has to be restarted.
SnapshotCheck ==
  /\ pc = "check"
  /\ Goto(IF svc.subscribes # {} THEN "swap_switch" ELSE "swap")
  /\ UNCHANGED <<svc, refresh, switch, DISPLAY_CONN_IDS, notifier, synced, connVars>>

\* Drop for ServiceSwap moves the new subscribers, whatever the callback says.
SnapshotSwap ==
  /\ pc \in {"swap", "swap_switch"}
  /\ svc' = swap_new_subscribes(svc)
  /\ \/ pc = "swap" /\ Goto("encode") /\ UNCHANGED DISPLAY_CONN_IDS
     \/ pc = "swap_switch" /\ Leave
  /\ UNCHANGED <<refresh, switch, notifier, synced, connVars>>

\* encode_to_message and send_video_frame: the frame goes to every subscriber's
\* queue.  A loop that has ended reads its queue no more.
EncodeAndSend ==
  /\ pc = "encode"
  /\ \A c \in svc.subscribes : Len(rx_video[c]) < MaxQueue
  /\ synced' = IF encoder_fresh THEN svc.subscribes ELSE synced \cap svc.subscribes
  /\ rx_video' = [c \in Conns |->
                    IF c \in svc.subscribes /\ conn[c] = "open"
                    THEN Append(rx_video[c], c \in synced')
                    ELSE rx_video[c]]
  /\ pc' = "set_send"
  /\ encoder_fresh' = FALSE
  /\ send_conn_ids' = svc.subscribes
  /\ UNCHANGED <<svc, refresh, switch, DISPLAY_CONN_IDS, notifier,
                 conn, unacked, asked, fetched_conn_ids, waited>>

\* Encoding fails: go on without a frame, or disable the encoder and SWITCH.
EncodeFails ==
  /\ pc = "encode"
  /\ \/ Goto("wait") /\ UNCHANGED DISPLAY_CONN_IDS
     \/ Leave
  /\ UNCHANGED <<svc, refresh, switch, notifier, synced, connVars>>

\* VideoFrameController::set_send, after the frame has gone out.
SetSend ==
  /\ pc = "set_send"
  /\ DISPLAY_CONN_IDS' = IF send_conn_ids # {} THEN send_conn_ids ELSE DISPLAY_CONN_IDS
  /\ Goto("wait")
  /\ UNCHANGED <<svc, refresh, switch, notifier, synced, connVars>>

\* Mutated form of WaitResult: the 3 s are not watched.
WaitResultNoLimit(f, t) ==
  /\ waited' = t
  /\ \/ /\ Cardinality(f) < Cardinality(send_conn_ids)
        /\ pc' = "wait" /\ fetched_conn_ids' = f
     \/ /\ Cardinality(f) >= Cardinality(send_conn_ids)
        /\ pc' = "done" /\ fetched_conn_ids' = {}

\* The wait loop goes on with what was fetched so far, or ends: as many
\* connections are counted as the frame was sent to, or the 3 s are over.  `t' is
\* the time spent when try_wait_next returns.
WaitResult(f, t) ==
  /\ waited' = t
  /\ \/ /\ Cardinality(f) < Cardinality(send_conn_ids) /\ t < WaitSlices
        /\ pc' = "wait" /\ fetched_conn_ids' = f
     \/ /\ Cardinality(f) >= Cardinality(send_conn_ids) \/ t = WaitSlices
        /\ pc' = "done" /\ fetched_conn_ids' = {}

\* check_privacy_mode_changed in the wait loop.
WaitSwitches ==
  /\ pc = "wait"
  /\ switch = "privacy"
  /\ BroadcastOrLeave
  /\ UNCHANGED <<svc, refresh, switch, notifier, synced, connVars>>

\* try_wait_next returns at once when nothing was sent: 0 >= 0 breaks.
WaitNothing ==
  /\ pc = "wait"
  /\ switch # "privacy"
  /\ send_conn_ids = {}
  /\ Goto("done")
  /\ UNCHANGED <<svc, refresh, switch, DISPLAY_CONN_IDS, notifier, synced, connVars>>

\* try_wait_next receives an id and then empties the channel.
WaitReceives ==
  /\ pc = "wait"
  /\ switch # "privacy"
  /\ send_conn_ids # {}
  /\ notifier # {}
  /\ \E t \in {waited, waited + 1} :
       /\ t <= WaitSlices
       /\ WaitResult(fetched_conn_ids \cup notifier, t)
  /\ notifier' = {}
  /\ UNCHANGED <<svc, refresh, switch, DISPLAY_CONN_IDS, synced, connVars,
                 encoder_fresh, send_conn_ids>>

\* 300 ms pass without an id.
WaitTimesOut ==
  /\ pc = "wait"
  /\ switch # "privacy"
  /\ send_conn_ids # {}
  /\ notifier = {}
  /\ WaitResult(fetched_conn_ids, IF waited < WaitSlices THEN waited + 1 ELSE waited)
  /\ UNCHANGED <<svc, refresh, switch, DISPLAY_CONN_IDS, notifier, synced, connVars,
                 encoder_fresh, send_conn_ids>>

\* After the wait the display's entry goes; back to the loop's head.  Nothing
\* reads send_conn_ids again before frame_controller.reset() clears it there.
WaitDone ==
  /\ pc = "done"
  /\ pc' = "loop"
  /\ DISPLAY_CONN_IDS' = {}
  /\ send_conn_ids' = {}
  /\ waited' = 0
  /\ UNCHANGED <<svc, refresh, switch, notifier, synced, connVars,
                 encoder_fresh, fetched_conn_ids>>

Thread ==
  \/ Enter \/ Exit \/ SetupEncoder \/ SetupFails \/ ClearRefresh
  \/ LoopEnds \/ LoopRefreshes \/ LoopSwitches \/ LoopContinues
  \/ BroadcastSnapshot \/ BroadcastSwap
  \/ CaptureFrame \/ CaptureNothing \/ CaptureFails
  \/ Snapshot \/ SnapshotCheck \/ SnapshotSwap
  \/ EncodeAndSend \/ EncodeFails \/ SetSend
  \/ WaitSwitches \/ WaitNothing \/ WaitReceives \/ WaitTimesOut \/ WaitDone
-----------------------------------------------------------------------------
(* The connections and what happens around the service.                    *)

\* Server::add_connection or Server::subscribe(.., true), also for a connection
\* that is subscribed already; video needs a snapshot.
Subscribe(c) ==
  /\ conn[c] = "open"
  /\ svc' = on_subscribe(svc, c, TRUE)
  /\ UNCHANGED <<refresh, switch, DISPLAY_CONN_IDS, notifier, synced, threadVars, connVars>>

\* Server::subscribe(.., false): the client stops watching this display and
\* resets its decoder.
Unsubscribe(c) ==
  /\ conn[c] = "open"
  /\ c \in Subscribers(svc)
  /\ svc' = on_unsubscribe(svc, c)
  /\ synced' = synced \ {c}
  /\ UNCHANGED <<refresh, switch, DISPLAY_CONN_IDS, notifier, threadVars, connVars>>

\* The connection's loop takes a frame from rx_video, notifies the thread unless
\* its client acknowledges frames itself, and sends it.  A client that cannot
\* decode the frame asks for a refresh.
Fetch(c) ==
  /\ conn[c] = "open"
  /\ rx_video[c] # <<>>
  /\ rx_video' = [rx_video EXCEPT ![c] = Tail(@)]
  /\ asked' = IF Head(rx_video[c]) THEN asked ELSE asked \cup {c}
  /\ \/ /\ c \notin AckConns
        /\ notifier' = notifier \cup {c}
        /\ UNCHANGED unacked
     \/ /\ c \in AckConns
        /\ unacked[c] < MaxUnacked
        /\ unacked' = [unacked EXCEPT ![c] = @ + 1]
        /\ UNCHANGED notifier
  /\ UNCHANGED <<svc, refresh, switch, DISPLAY_CONN_IDS, synced, threadVars, conn>>

\* notify_video_frame_fetched_by_conn_id: nothing is sent for a display whose
\* entry does not name the connection.
notify_by_conn_id(c) ==
  notifier' = IF c \in DISPLAY_CONN_IDS THEN notifier \cup {c} ELSE notifier

\* Mutated form of VideoReceived: one acknowledgement too many is counted.
VideoReceivedTwice(c) ==
  /\ conn[c] = "open"
  /\ unacked' = [unacked EXCEPT ![c] = @ - 1]
  /\ notify_by_conn_id(c)
  /\ UNCHANGED <<svc, refresh, switch, DISPLAY_CONN_IDS, synced, threadVars,
                 conn, rx_video, asked>>

\* VideoReceived arrives from a client with video_ack_required.
VideoReceived(c) ==
  /\ conn[c] = "open"
  /\ unacked[c] > 0
  /\ unacked' = [unacked EXCEPT ![c] = @ - 1]
  /\ notify_by_conn_id(c)
  /\ UNCHANGED <<svc, refresh, switch, DISPLAY_CONN_IDS, synced, threadVars,
                 conn, rx_video, asked>>

\* Mutated form of RefreshVideo: the option is not set.
RefreshVideoIgnored(c) ==
  /\ conn[c] = "open"
  /\ c \in asked
  /\ asked' = asked \ {c}
  /\ UNCHANGED <<svc, refresh, switch, DISPLAY_CONN_IDS, notifier, synced, threadVars,
                 conn, rx_video, unacked>>

\* RefreshVideoDisplay arrives: refresh_video_display sets the option.
RefreshVideo(c) ==
  /\ conn[c] = "open"
  /\ c \in asked
  /\ asked' = asked \ {c}
  /\ refresh' = TRUE
  /\ UNCHANGED <<svc, switch, DISPLAY_CONN_IDS, notifier, synced, threadVars,
                 conn, rx_video, unacked>>

\* A client may ask at any time (its user does, or its decoder is behind).
AskRefresh(c) ==
  /\ conn[c] = "open"
  /\ c \in Subscribers(svc) \ asked
  /\ asked' = asked \cup {c}
  /\ UNCHANGED <<svc, refresh, switch, DISPLAY_CONN_IDS, notifier, synced,
                 threadVars, conn, rx_video, unacked>>

\* The connection's loop breaks: it reads no queue and no message any more, and
\* wakes the threads that wait for it.
LoopBreaks(c) ==
  /\ conn[c] = "open"
  /\ conn' = [conn EXCEPT ![c] = "closing"]
  /\ rx_video' = [rx_video EXCEPT ![c] = <<>>]
  /\ unacked' = [unacked EXCEPT ![c] = 0]
  /\ asked' = asked \ {c}
  /\ notify_by_conn_id(c)
  /\ UNCHANGED <<svc, refresh, switch, DISPLAY_CONN_IDS, synced, threadVars>>

\* Server::remove_connection, some awaits later.
RemoveConnection(c) ==
  /\ conn[c] = "closing"
  /\ conn' = [conn EXCEPT ![c] = "closed"]
  /\ svc' = on_unsubscribe(svc, c)
  /\ synced' = synced \ {c}
  /\ UNCHANGED <<refresh, switch, DISPLAY_CONN_IDS, notifier, threadVars,
                 rx_video, unacked, asked>>

\* The negotiated codec, the privacy mode or the display changes.
SettingChanges ==
  /\ pc \notin {"idle", "setup", "exit"}
  /\ switch = "none"
  /\ switch' \in Settings
  /\ UNCHANGED <<svc, refresh, DISPLAY_CONN_IDS, notifier, synced, threadVars, connVars>>

\* Drop for Server joins the service.
Join ==
  /\ svc.active
  /\ svc' = deactivate(svc)
  /\ UNCHANGED <<refresh, switch, DISPLAY_CONN_IDS, notifier, synced, threadVars, connVars>>

\* What users and the machine do of their own accord.
Disturb ==
  \/ \E c \in Conns : Subscribe(c) \/ Unsubscribe(c) \/ AskRefresh(c) \/ LoopBreaks(c)
  \/ SettingChanges
  \/ Join

Next ==
  \/ Thread
  \/ Disturb
  \/ \E c \in Conns : Fetch(c) \/ VideoReceived(c) \/ RefreshVideo(c) \/ RemoveConnection(c)

Spec == Init /\ [][Next]_vars
-----------------------------------------------------------------------------
(* Safety.                                                                 *)

\* The maps of the service never hold the same connection twice, although
\* subscriptions race with the swap; otherwise on_unsubscribe would leave a
\* closed connection subscribed.
OneMapEach == OneMap(svc)

\* "so that new sub and old sub share the same encoder after switch"
\* (handle_one_frame): when a frame is about to be sent, either all of its
\* receivers can decode it or none can.  A newcomer never silently joins a stream
\* others are in the middle of; a stream nobody can decode is refreshed.
AllOrNoneDecode ==
  pc = "encode" =>
    \/ encoder_fresh
    \/ svc.subscribes \subseteq synced
    \/ svc.subscribes \cap synced = {}

\* DISPLAY_CONN_IDS names connections only between a frame and the end of its
\* wait, and only those the frame went to: after a bail, an early return or the
\* thread's exit, no acknowledgement by connection id reaches this display.
EntryOnlyWhileWaiting ==
  /\ DISPLAY_CONN_IDS # {} => pc \in {"wait", "done", "broadcast", "broadcast_swap"}
  /\ DISPLAY_CONN_IDS \subseteq send_conn_ids

\* No subscription outlives its connection: once remove_connection is through,
\* the service publishes to it no more.
ClosedNotSubscribed ==
  \A c \in Conns : conn[c] = "closed" => c \notin Subscribers(svc)

\* "break if all connections have received current frame" (the wait loop of
\* video_service::run): the thread stops waiting before the 3 s are over only if
\* every connection the frame went to has fetched it, or is gone.
BreakMeansReceived ==
  [][ (pc = "wait" /\ pc' = "done" /\ waited' < WaitSlices)
        => \A c \in send_conn_ids :
             conn[c] = "open" => rx_video[c] = <<>> /\ unacked[c] = 0 ]_vars
-----------------------------------------------------------------------------
(* Liveness.                                                               *)

\* The thread's loop goes on; connections may be silent for ever.
ThreadSpec == Spec /\ WF_vars(Thread)

\* The wait for acknowledgements ends whatever the connections do: one that
\* died after the frame was queued, or whose acknowledgement was lost because it
\* came before set_send, holds the others up for 3 s at most.
WaitEnds == pc = "wait" ~> pc # "wait"

\* The connections' loops run; the capturer, the encoder and the network work
\* again and again; users leave the session alone in the end.
Fairness ==
  /\ SF_vars(SetupEncoder) /\ SF_vars(CaptureFrame) /\ SF_vars(EncodeAndSend)
  /\ \A c \in Conns : /\ WF_vars(Fetch(c)) /\ WF_vars(VideoReceived(c))
                      /\ WF_vars(RefreshVideo(c)) /\ WF_vars(RemoveConnection(c))
  /\ <>[][~Disturb]_vars

\* Once clients stop coming and going, every subscriber's client can decode what
\* it is sent, also one that took over a stream in the middle and depends on its
\* own refresh request to get a key frame.
EventuallyDecodes ==
  Fairness => \A c \in Conns :
    c \in Subscribers(svc) ~> (c \in synced \/ c \notin Subscribers(svc) \/ ~svc.active)

\* A refresh request is not lost: it leads to a new encoder unless nobody
\* watches any more.
RefreshServed == Fairness => (refresh ~> (encoder_fresh \/ ~ok(svc)))
=============================================================================
