------------------------------ MODULE VideoQoS ------------------------------
(***************************************************************************)
(* VIDEO_QOS, src/server/video_qos.rs: the frame rate and the bitrate      *)
(* ratio all displays are encoded with, from the network delays and the    *)
(* wishes of all users.  It lives under one mutex, so each of its methods  *)
(* is one action; connections and video threads call them in any order.    *)
(*                                                                         *)
(* The history of delays, from which avg_delay subtracts an estimate of    *)
(* the round trip, can yield any average after any sample: a step chooses  *)
(* the new average from AvgDelays.  Ratios, floats in the code, are counted*)
(* in thousandths and rounded down.                                        *)
(***************************************************************************)
EXTENDS Integers, SequencesExt

CONSTANTS Conns,          \* connection ids
          Displays,       \* names of video services
          AvgDelays,      \* averages avg_delay may return, in ms
          FpsOptions,     \* rates users ask for, in and out of range
          Qualities,      \* ratios users ask for: the presets' or Custom ones
          Bitrates,       \* what encoders report, in kbps
          EnableAbr       \* the option enable-abr

ASSUME AvgDelaysAssumption == AvgDelays \subseteq Nat \ {0}
ASSUME FpsOptionsAssumption == FpsOptions \subseteq Nat
ASSUME BitratesAssumption == Bitrates \subseteq Nat
ASSUME EnableAbrAssumption == EnableAbr \in BOOLEAN

ASSUME QualitiesAssumption == Qualities \subseteq Nat

FPS == 30
MIN_FPS == 1
MAX_FPS == 120
INIT_FPS == 15
BR_MAX == 40000
BR_MIN == 200
BR_MIN_HIGH_RESOLUTION == 100
BR_BEST == 1500
BR_BALANCED == 670
BR_SPEED == 500
DELAY_THRESHOLD_150MS == 150
Presets == {BR_BEST, BR_BALANCED, BR_SPEED}   \* Custom ratios are taken to differ
None == 0                  \* of an Option<u32> whose values are positive

VARIABLES
  fps, ratio, bitrate_store, abr_config,
  users,          \* the keys of VideoQoS::users
  user,           \* UserData of each connection (as good as new when not a user)
  recent,         \* users that chose a quality, the latest choice last
  displays,       \* the keys of VideoQoS::displays
  support,        \* those with support_changing_quality
  dynamic,        \* those whose send_counter says their screen is dynamic
  new_user,       \* the last second has seen a new user
  running         \* video services inside video_service::run

vars == <<fps, ratio, bitrate_store, abr_config, users, user, recent, displays,
          support, dynamic, new_user, running>>
displayVars == <<displays, support, dynamic, running>>

UserData == [avg_delay : AvgDelays \cup {DELAY_THRESHOLD_150MS},
             fps : 0 .. MAX_FPS, quick : 0 .. 2, increase : 0 .. 2,
             response_delayed : BOOLEAN,
             custom_fps : 0 .. MAX_FPS, auto_adjust_fps : 0 .. MAX_FPS,
             quality : Nat]

\* UserData::default(); without samples avg_delay is the threshold.
NewUser == [avg_delay |-> DELAY_THRESHOLD_150MS, fps |-> None, quick |-> 0,
            increase |-> 0, response_delayed |-> FALSE, custom_fps |-> None,
            auto_adjust_fps |-> None, quality |-> None]

\* One type invariant for the module.
TypeOK ==
  /\ fps \in MIN_FPS .. MAX_FPS
  /\ ratio \in Nat
  /\ bitrate_store \in Bitrates \cup {0}
  /\ abr_config \in BOOLEAN
  /\ users \in SUBSET Conns
  /\ user \in [Conns -> UserData]
  /\ recent \in Seq(users)
  /\ displays \in SUBSET Displays
  /\ support \in SUBSET displays
  /\ dynamic \in SUBSET displays
  /\ new_user \in BOOLEAN
  /\ running \in SUBSET Displays

\* VideoQoS::default()
Init ==
  /\ fps = FPS
  /\ ratio = BR_BALANCED
  /\ bitrate_store = 0
  /\ abr_config = TRUE
  /\ users = {}
  /\ user = [c \in Conns |-> NewUser]
  /\ recent = <<>>
  /\ displays = {}
  /\ support = {}
  /\ dynamic = {}
  /\ new_user = TRUE
  /\ running = {}
-----------------------------------------------------------------------------
(* What the methods compute.                                               *)

Larger(a, b) == IF a > b THEN a ELSE b
Smaller(a, b) == IF a < b THEN a ELSE b
Clamp(v, low, high) == Larger(low, Smaller(v, high))

\* user_fps of highest_fps: the rate the user asked for, or what its client can
\* keep up with if that is less.
user_fps(d) ==
  LET wish == IF d.custom_fps = None THEN FPS ELSE d.custom_fps
  IN  IF d.auto_adjust_fps # None THEN Smaller(wish, d.auto_adjust_fps) ELSE wish

highest_fps(us, ud) ==
  IF us = {} THEN FPS ELSE Min({user_fps(ud[c]) : c \in us})

\* latest_quality().ratio()
latest_quality(ud, rec) == IF rec = <<>> THEN BR_BALANCED ELSE ud[rec[Len(rec)]].quality

\* The choices of quality without the one of `c'; nobody is listed twice.
Without(rec, c) ==
  IF \E i \in DOMAIN rec : rec[i] = c
  THEN RemoveAt(rec, CHOOSE i \in DOMAIN rec : rec[i] = c) ELSE rec

\* Mutated form of adjusted_fps: overdue answers are not looked at.
adjusted_fps_hasty(us, ud, new) ==
  LET slowest == IF us = {} THEN INIT_FPS
                 ELSE Min({IF ud[c].fps = None THEN INIT_FPS ELSE ud[c].fps : c \in us})
      fresh == IF new THEN Smaller(slowest, INIT_FPS) ELSE slowest
  IN  Clamp(fresh, MIN_FPS, highest_fps(us, ud))

\* adjust_fps: the slowest user's rate; almost nothing while an answer is overdue;
\* no more than INIT_FPS right after someone connected.
adjusted_fps(us, ud, new) ==
  LET slowest == IF us = {} THEN INIT_FPS
                 ELSE Min({IF ud[c].fps = None THEN INIT_FPS ELSE ud[c].fps : c \in us})
      delayed == IF \E c \in us : ud[c].response_delayed
                 THEN Smaller(slowest, MIN_FPS + 1) ELSE slowest
      fresh == IF new THEN Smaller(delayed, INIT_FPS) ELSE delayed
  IN  Clamp(fresh, MIN_FPS, highest_fps(us, ud))

\* in_vbr_state
in_vbr_state == abr_config /\ displays \subseteq support

\* The lower bound adjust_ratio clamps with: at least 1 Mbps, where that is less.
MinRatio(target, bitrate) ==
  LET ratio_1mbps == Larger((ratio * 1000) \div bitrate, BR_MIN_HIGH_RESOLUTION)
      AtMost1mbps(r) == IF bitrate > 0 THEN Smaller(r, ratio_1mbps) ELSE r
  IN  CASE target = BR_BEST -> Larger(AtMost1mbps((BR_BEST * 2) \div 5), BR_MIN)
        [] target = BR_BALANCED ->
             Larger(AtMost1mbps(BR_BALANCED \div 2), BR_MIN_HIGH_RESOLUTION)
        [] target \notin {BR_BEST, BR_BALANCED} -> BR_MIN_HIGH_RESOLUTION

\* The factor, in percent, for the worst delay of all users.
Factor(max_delay, dynamic_screen) ==
  CASE max_delay < 50 -> IF dynamic_screen THEN 115 ELSE 100
    [] max_delay \in 50 .. 99 -> IF dynamic_screen THEN 110 ELSE 100
    [] max_delay \in 100 .. 149 -> IF dynamic_screen THEN 105 ELSE 100
    [] max_delay \in 150 .. 199 -> 95
    [] max_delay \in 200 .. 299 -> 90
    [] max_delay \in 300 .. 499 -> 85
    [] max_delay >= 500 -> 80

\* Mutated form of adjusted_ratio: users with good networks decide.
adjusted_ratio_best(ud, bitrate, dynamic_screen) ==
  LET target == latest_quality(ud, recent)
      v == (ratio * Factor(Min({ud[c].avg_delay : c \in users}), dynamic_screen)) \div 100
  IN  IF ~in_vbr_state \/ users = {} THEN ratio
      ELSE Clamp(v, MinRatio(target, bitrate), target)

\* adjust_ratio: at most 150 kbps more at a time.
adjusted_ratio(ud, bitrate, dynamic_screen) ==
  LET target == latest_quality(ud, recent)
      v == (ratio * Factor(Max({ud[c].avg_delay : c \in users}), dynamic_screen)) \div 100
      add_150kbps == ((bitrate + 150) * ratio) \div bitrate
      limited == IF /\ bitrate > 0 /\ v > add_150kbps
                    /\ add_150kbps > ratio /\ ratio >= BR_SPEED
                 THEN add_150kbps ELSE v
  IN  IF ~in_vbr_state \/ users = {} THEN ratio
      ELSE Clamp(limited, MinRatio(target, bitrate), target)

\* (min_fps, normal_fps) of user_network_delay
MinFps(target) == IF target >= BR_BEST THEN 8 ELSE IF target >= BR_BALANCED THEN 10 ELSE 12
NormalFps(target) == 2 * MinFps(target)

\* user_network_delay, the rate for one user with the new average `avg', before
\* the stable samples are counted.
DelayFps(d, avg, target) ==
  LET min_fps == MinFps(target)
      step == IF fps < NormalFps(target) THEN 1 ELSE 0
      devide_fps == (fps * DELAY_THRESHOLD_150MS + avg - 1) \div avg
      dividend == (DELAY_THRESHOLD_150MS * min_fps) \div avg
  IN  CASE avg < 50 -> Larger(min_fps, fps + IF d.quick = 2 THEN 5 ELSE step)
        [] avg \in 50 .. 99 -> Larger(min_fps, fps + IF avg < d.avg_delay THEN step ELSE 0)
        [] avg \in 100 .. 149 -> Larger(min_fps, fps)
        [] avg \in 150 .. 199 -> Larger(min_fps, devide_fps)
        [] avg \in 200 .. 299 -> Smaller(min_fps, devide_fps)
        [] avg \in 300 .. 599 -> dividend
        [] avg >= 600 -> Smaller(dividend, devide_fps)

\* The user's data after a sample: three good samples in a row raise the rate by
\* five (below 50 ms) or by one (below 150 ms).
WithDelay(d, avg, target, highest) ==
  LET stable == avg < DELAY_THRESHOLD_150MS
      bonus == IF stable /\ d.increase = 2 THEN 1 ELSE 0
  IN  [d EXCEPT !.avg_delay = avg,
                !.quick = IF avg > 50 THEN 0 ELSE IF avg < 50 THEN (@ + 1) % 3 ELSE @,
                !.increase = IF stable THEN (@ + 1) % 3 ELSE 0,
                !.fps = Clamp(DelayFps(d, avg, target) + bonus, MIN_FPS, highest)]
-----------------------------------------------------------------------------
(* Methods called by connections.                                          *)

on_connection_open(c) ==
  /\ c \notin users
  /\ users' = users \cup {c}
  /\ user' = [user EXCEPT ![c] = NewUser]
  /\ abr_config' = EnableAbr
  /\ new_user' = TRUE
  /\ UNCHANGED <<fps, ratio, bitrate_store, recent, displayVars>>

\* Mutated form of on_connection_close: the user's choice of quality stays.
on_connection_close_kept(c) ==
  /\ c \in users
  /\ users' = users \ {c}
  /\ user' = [user EXCEPT ![c] = NewUser]
  /\ UNCHANGED <<fps, ratio, bitrate_store, abr_config, recent, new_user, displayVars>>

\* The last user's departure resets everything, the displays too.
on_connection_close(c) ==
  /\ c \in users
  /\ users' = users \ {c}
  /\ user' = [user EXCEPT ![c] = NewUser]
  /\ recent' = Without(recent, c)
  /\ \/ /\ users' # {}
        /\ UNCHANGED <<fps, ratio, bitrate_store, abr_config, new_user, displayVars>>
     \/ /\ users' = {}
        /\ fps' = FPS
        /\ ratio' = BR_BALANCED
        /\ bitrate_store' = 0
        /\ abr_config' = TRUE
        /\ new_user' = TRUE
        /\ displays' = {}
        /\ support' = {}
        /\ dynamic' = {}
        /\ UNCHANGED running

\* A rate out of range is ignored.
user_custom_fps(c, f) ==
  /\ c \in users
  /\ f \in MIN_FPS .. MAX_FPS
  /\ user' = [user EXCEPT ![c].custom_fps = f]
  /\ UNCHANGED <<fps, ratio, bitrate_store, abr_config, users, recent, new_user,
                 displayVars>>

user_auto_adjust_fps(c, f) ==
  /\ c \in users
  /\ f \in MIN_FPS .. MAX_FPS
  /\ user' = [user EXCEPT ![c].auto_adjust_fps = f]
  /\ UNCHANGED <<fps, ratio, bitrate_store, abr_config, users, recent, new_user,
                 displayVars>>

\* Mutated form of convert_quality: custom ratios are taken as they come.
convert_quality_unclamped(q) == q

\* convert_quality: custom ratios are clamped.
convert_quality(q) == IF q \in Presets THEN q ELSE Clamp(q, BR_MIN, BR_MAX)

\* The ratio follows the latest choice at once.
user_image_quality(c, q) ==
  /\ c \in users
  /\ user' = [user EXCEPT ![c].quality = convert_quality(q)]
  /\ recent' = Append(Without(recent, c), c)
  /\ ratio' = convert_quality(q)
  /\ UNCHANGED <<fps, bitrate_store, abr_config, users, new_user, displayVars>>

\* A test delay was answered; the answers of connections that are not users (yet)
\* count for nothing, but adjust_fps runs.
user_network_delay(c, avg) ==
  LET highest == highest_fps(users, user)
      target == latest_quality(user, recent)
  IN  /\ user' = IF c \in users
                 THEN [user EXCEPT ![c] = WithDelay(@, avg, target, highest)] ELSE user
      /\ fps' = adjusted_fps(users, user', new_user)
      /\ ratio' \in IF c \in users /\ user[c].fps = None   \* not on Linux
                    THEN {ratio, adjusted_ratio(user', bitrate_store, FALSE)}
                    ELSE {ratio}
      /\ UNCHANGED <<bitrate_store, abr_config, users, recent, new_user, displayVars>>

\* Every second: has the last test delay waited for its answer for over 2 s?
user_delay_response_elapsed(c, late, avg) ==
  /\ c \in users
  /\ user' = IF late THEN [user EXCEPT ![c].response_delayed = TRUE, ![c].avg_delay = avg]
                     ELSE [user EXCEPT ![c].response_delayed = FALSE]
  /\ fps' = IF late THEN adjusted_fps(users, user', new_user) ELSE fps
  /\ UNCHANGED <<ratio, bitrate_store, abr_config, users, recent, new_user, displayVars>>
-----------------------------------------------------------------------------
(* Methods called by the video threads, and time.                          *)

\* Raii::new; the name may have been forgotten or not.
new_display(s) ==
  /\ s \notin running
  /\ running' = running \cup {s}
  /\ displays' = displays \cup {s}
  /\ support' = support \ {s}
  /\ dynamic' = dynamic \ {s}
  /\ UNCHANGED <<fps, ratio, bitrate_store, abr_config, users, user, recent, new_user>>

\* Drop for Raii
remove_display(s) ==
  /\ s \in running
  /\ running' = running \ {s}
  /\ displays' = displays \ {s}
  /\ support' = support \ {s}
  /\ dynamic' = dynamic \ {s}
  /\ UNCHANGED <<fps, ratio, bitrate_store, abr_config, users, user, recent, new_user>>

\* In run, once the encoder is set up; two locks, so two steps.
store_bitrate(s, b) ==
  /\ s \in running
  /\ bitrate_store' = b
  /\ UNCHANGED <<fps, ratio, abr_config, users, user, recent, new_user, displayVars>>

set_support_changing_quality(s, supports) ==
  /\ s \in running \cap displays
  /\ support' = IF supports THEN support \cup {s} ELSE support \ {s}
  /\ UNCHANGED <<fps, ratio, bitrate_store, abr_config, users, user, recent, displays,
                 dynamic, new_user, running>>

\* update_display_data, with the bitrate check_qos may just have stored: count the
\* frames sent, and every 3 seconds adjust the ratio if it may vary.
update_display_data(s, bitrate, many, three_seconds) ==
  LET counted == IF many /\ s \in displays THEN dynamic \cup {s} ELSE dynamic
  IN  /\ fps' = adjusted_fps(users, user, new_user)
      /\ \/ /\ in_vbr_state /\ three_seconds
            /\ dynamic' = {}
            /\ ratio' = adjusted_ratio(user, bitrate, counted # {})
         \/ /\ in_vbr_state /\ ~three_seconds
            /\ dynamic' = counted
            /\ UNCHANGED ratio
         \/ /\ ~in_vbr_state
            /\ dynamic' = counted
            /\ ratio' = latest_quality(user, recent)

\* check_qos, on every turn of the loop: the encoder follows the ratio and reports
\* its new bitrate; once a second, the display's data are updated.
check_qos(s, b, second) ==
  /\ s \in running
  /\ bitrate_store' = b
  /\ \/ /\ second
        /\ \E many, three_seconds \in BOOLEAN : update_display_data(s, b, many, three_seconds)
     \/ /\ ~second
        /\ UNCHANGED <<fps, ratio, dynamic>>
  /\ UNCHANGED <<abr_config, users, user, recent, displays, support, new_user, running>>

\* new_user_instant is a second ago.
SecondPasses ==
  /\ new_user
  /\ new_user' = FALSE
  /\ UNCHANGED <<fps, ratio, bitrate_store, abr_config, users, user, recent, displayVars>>

Connection(c) ==
  \/ on_connection_open(c) \/ on_connection_close(c)
  \/ \E f \in FpsOptions : user_custom_fps(c, f) \/ user_auto_adjust_fps(c, f)
  \/ \E q \in Qualities : user_image_quality(c, q)

Network(c) ==
  \/ \E avg \in AvgDelays : user_network_delay(c, avg)
  \/ \E late \in BOOLEAN, avg \in AvgDelays : user_delay_response_elapsed(c, late, avg)

VideoThread(s) ==
  \/ new_display(s) \/ remove_display(s)
  \/ \E b \in Bitrates : store_bitrate(s, b)
  \/ \E x \in BOOLEAN : set_support_changing_quality(s, x)
  \/ \E b \in Bitrates \cup {bitrate_store}, second \in BOOLEAN : check_qos(s, b, second)

Next ==
  \/ \E c \in Conns : Connection(c) \/ Network(c)
  \/ \E s \in Displays : VideoThread(s)
  \/ SecondPasses

Spec == Init /\ [][Next]_vars

\* Connected users keep answering test delays, and time passes.
FairSpec ==
  /\ Spec
  /\ \A c \in Conns :
       WF_vars(\E avg \in AvgDelays : c \in users /\ user_network_delay(c, avg))
  /\ WF_vars(SecondPasses)
-----------------------------------------------------------------------------
(* Properties.                                                             *)

\* While an answer of some user is overdue, frames go out at MIN_FPS + 1 at most,
\* whatever the other users' answers do: adjust_fps.
DelayedThrottles ==
  (\E c \in users : user[c].response_delayed) => fps <= MIN_FPS + 1

\* v.clamp(min, max) of adjust_ratio never sees min > max, where f32::clamp panics
\* and poisons the mutex of all connections and video threads; and ratio() never
\* has to fall back to BR_BALANCED.
RatioInRange ==
  /\ LET target == latest_quality(user, recent)
     IN  MinRatio(target, bitrate_store) <= target
  /\ ratio \in BR_MIN_HIGH_RESOLUTION .. BR_MAX

\* Unless somebody chooses a quality, a ratio that may vary and is not below its
\* minimum only grows while every user's delay is good: the worst network decides
\* for all (adjust_ratio).
RaisedOnlyWhenAllGood ==
  [][/\ in_vbr_state
     /\ ~\E c \in users, q \in Qualities : user_image_quality(c, q)
     /\ users' # {}
     /\ ratio >= MinRatio(latest_quality(user, recent), bitrate_store')
     /\ ratio' > ratio
     => \A c \in users : user'[c].avg_delay < DELAY_THRESHOLD_150MS]_vars

\* From some time on nothing happens but good answers, in time.
Good ==
  /\ users # {} /\ users' = users
  /\ \A c \in users : /\ user'[c].custom_fps = user[c].custom_fps
                      /\ user'[c].auto_adjust_fps = user[c].auto_adjust_fps
                      /\ user'[c].quality = user[c].quality
                      /\ ~user'[c].response_delayed
                      /\ user'[c].avg_delay < DELAY_THRESHOLD_150MS

\* "When network delay < DELAY_THRESHOLD_150MS, ... increase fps": with good answers
\* only, the frame rate reaches what the users allow, from wherever the congestion
\* before had brought it (user_network_delay, adjust_fps).
Recovers == <>[][Good]_vars => <>[](users # {} => fps = highest_fps(users, user))
=============================================================================
