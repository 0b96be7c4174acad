----------------------------- MODULE MCSessions -----------------------------
(***************************************************************************)
(* The registry of authorized connections and VIDEO_QOS, which share no    *)
(* state, in one run.  Of VIDEO_QOS, the ratio evolves independently of    *)
(* the frame rate, of the counters behind it and of overdue answers: it    *)
(* only sees whether a user has a rate yet.  The rate depends on the ratio *)
(* as little.  So a behaviour is one of the registry, of the rate or of    *)
(* the ratio, each with the inputs that matter to it, and PartView keeps   *)
(* what that part depends on and what its properties read.                 *)
(***************************************************************************)
EXTENDS VideoQoS, AuthedConns, TLC

CONSTANTS c1, c2, d1, r1, r2, v1

VARIABLE part

\* Two remote connections and one that views the camera.
MCAuthConns == {r1, r2, v1}
MCRemoteConns == {r1, r2}
MCCameraConns == {v1}

Symmetry == Permutations(Conns) \cup Permutations(MCRemoteConns)

\* Every action of Next, with the delays of `delays' for inputs.
Delays(c, delays) ==
  \/ \E avg \in delays : user_network_delay(c, avg)
  \/ \E late \in BOOLEAN, avg \in delays : user_delay_response_elapsed(c, late, avg)

Users(c) == on_connection_open(c) \/ on_connection_close(c)

\* For the rate: good and bad delays, wishes in and out of range, no display.
FpsNext ==
  \/ \E c \in Conns : \/ Users(c) \/ Delays(c, {40, 400})
                       \/ \E f \in FpsOptions : \/ user_custom_fps(c, f)
                                               \/ user_auto_adjust_fps(c, f)
  \/ SecondPasses

\* For the ratio: fair and very bad delays, chosen qualities, no chosen rate.
RatioNext ==
  \/ \E c \in Conns : \/ Users(c) \/ Delays(c, {120, 500})
                       \/ \E q \in Qualities : user_image_quality(c, q)
  \/ \E s \in Displays : VideoThread(s)
  \/ SecondPasses

SessionsInit == Init /\ AuthedInit /\ part \in {"authed", "fps", "ratio"}

SessionsNext ==
  /\ UNCHANGED part
  /\ IF part = "authed" THEN AuthedNext ELSE UNCHANGED authedVars
  /\ IF part = "authed" THEN UNCHANGED vars
     ELSE IF part = "fps" THEN FpsNext ELSE RatioNext

SessionsSpec == SessionsInit /\ [][SessionsNext]_<<part, vars, authedVars>>

PartView ==
  CASE part = "authed" -> <<authedVars>>
    [] part = "fps" -> <<fps, users, user, new_user>>
    [] part = "ratio" ->
         <<ratio, bitrate_store, abr_config, users, recent, displays, support, dynamic, running,
           [c \in Conns |-> <<user[c].avg_delay, user[c].quality, user[c].fps = None>>]>>
=============================================================================
