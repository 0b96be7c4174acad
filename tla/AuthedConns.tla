---------------------------- MODULE AuthedConns ----------------------------
(***************************************************************************)
(* The registry of authorized connections, `mod raii' of src/server/       *)
(* connection.rs, and what hangs on it: the wake lock, the wallpaper       *)
(* remover, the changed screen resolutions and the users of VIDEO_QOS.     *)
(*                                                                         *)
(* A connection registers by creating an AuthedConnID and unregisters when *)
(* it is dropped.  Both run in the connection's own task and take the lock *)
(* of AUTHED_CONNS several times, so the steps of different connections    *)
(* interleave between any two lock sections.                               *)
(***************************************************************************)
EXTENDS Naturals, Sequences, FiniteSets

CONSTANTS AuthConns,        \* connection ids
          RemoteConns,  \* those of AuthConnType::Remote
          CameraConns,  \* those of AuthConnType::ViewCamera
          Resolutions,  \* of the one display modelled
          Native,       \* its resolution before anyone connects
          NoRecord      \* CHANGED_RESOLUTIONS has no entry for the display

ASSUME FiniteAssumption == IsFiniteSet(AuthConns)
ASSUME TypesAssumption == /\ RemoteConns \subseteq AuthConns
                          /\ CameraConns \subseteq AuthConns \ RemoteConns
ASSUME NativeAssumption == Native \in Resolutions
ASSUME NoRecordAssumption == NoRecord \notin Resolutions

VARIABLES
  pc,                   \* where each connection is
  AUTHED_CONNS,
  conn_count,           \* the local of check_wake_lock, per connection
  wake_rx,              \* connection counts on their way to the wake lock thread
  wakelock,             \* that thread holds the lock
  qos_users,            \* users known to VIDEO_QOS
  WALLPAPER_REMOVER,    \* is Some: the wallpaper is removed
  CHANGED_RESOLUTIONS,  \* the original resolution recorded, or NoRecord
  resolution,           \* the actual one
  original,             \* the local of change_resolution, per connection
  overlap               \* history: was the running registration or drop alone?

authedVars == <<pc, AUTHED_CONNS, conn_count, wake_rx, wakelock, qos_users,
                WALLPAPER_REMOVER, CHANGED_RESOLUTIONS, resolution, original, overlap>>

sideVars == <<qos_users, WALLPAPER_REMOVER, CHANGED_RESOLUTIONS, resolution, original>>
wakeVars == <<conn_count, wake_rx, wakelock>>

\* new: not authorized yet; o_*: in AuthedConnID::new; authed: registered;
\* live: the session runs; c_*: in change_resolution; d_*: in drop; gone.
Opening == {"o_len", "o_send", "o_qos"}
Dropping == {"d_retain", "d_count", "d_wallpaper", "d_restore", "d_clear",
             "d_len", "d_send"}
Locations == Opening \cup Dropping \cup
             {"new", "authed", "live", "c_record", "c_apply", "d_qos", "gone"}

\* One type invariant for the module.
AuthedTypeOK ==
  /\ pc \in [AuthConns -> Locations]
  /\ AUTHED_CONNS \in SUBSET AuthConns
  /\ conn_count \in [AuthConns -> Nat]
  /\ wake_rx \in Seq(Nat)
  /\ wakelock \in BOOLEAN
  /\ qos_users \in SUBSET AuthConns
  /\ WALLPAPER_REMOVER \in BOOLEAN
  /\ CHANGED_RESOLUTIONS \in Resolutions \cup {NoRecord}
  /\ resolution \in Resolutions
  /\ original \in [AuthConns -> Resolutions]
  /\ overlap \in BOOLEAN

AuthedInit ==
  /\ pc = [c \in AuthConns |-> "new"]
  /\ AUTHED_CONNS = {}
  /\ conn_count = [c \in AuthConns |-> 0]
  /\ wake_rx = <<>>
  /\ wakelock = FALSE
  /\ qos_users = {}
  /\ WALLPAPER_REMOVER = FALSE
  /\ CHANGED_RESOLUTIONS = NoRecord
  /\ resolution = Native
  /\ original = [c \in AuthConns |-> Native]
  /\ overlap = FALSE

At(c, from, to) == pc[c] = from /\ pc' = [pc EXCEPT ![c] = to]

\* Others that are changing AUTHED_CONNS or reporting it to the wake lock thread.
Busy(c) == {d \in AuthConns \ {c} : pc[d] \in Opening \cup Dropping}
-----------------------------------------------------------------------------
(* AuthedConnID::new, called by send_logon_response.                       *)

Register(c) ==
  /\ At(c, "new", "o_len")
  /\ AUTHED_CONNS' = AUTHED_CONNS \cup {c}
  /\ overlap' = (Busy(c) # {})
  /\ UNCHANGED <<wakeVars, sideVars>>

\* check_wake_lock, first lock section.  (The second counts the remote ones,
\* which only choose between two kinds of wake lock.)
ReadCount(c) ==
  /\ At(c, "o_len", "o_send") \/ At(c, "d_len", "d_send")
  /\ conn_count' = [conn_count EXCEPT ![c] = Cardinality(AUTHED_CONNS)]
  /\ UNCHANGED <<AUTHED_CONNS, wake_rx, wakelock, sideVars, overlap>>

\* Mutated form of SendCount: no message is sent on the way out.
SendCountOpening(c) ==
  /\ \/ At(c, "o_send", "o_qos") /\ wake_rx' = Append(wake_rx, conn_count[c])
     \/ At(c, "d_send", "gone") /\ UNCHANGED wake_rx
  /\ conn_count' = [conn_count EXCEPT ![c] = 0]
  /\ UNCHANGED <<AUTHED_CONNS, wakelock, sideVars, overlap>>

\* check_wake_lock, last section: the counts go to the wake lock thread.
SendCount(c) ==
  /\ At(c, "o_send", "o_qos") \/ At(c, "d_send", "gone")
  /\ wake_rx' = Append(wake_rx, conn_count[c])
  /\ conn_count' = [conn_count EXCEPT ![c] = 0]
  /\ UNCHANGED <<AUTHED_CONNS, wakelock, sideVars, overlap>>

\* VIDEO_QOS.on_connection_open, for the types that watch video.
QosOpen(c) ==
  /\ At(c, "o_qos", "authed")
  /\ qos_users' = IF c \in RemoteConns \cup CameraConns
                  THEN qos_users \cup {c} ELSE qos_users
  /\ UNCHANGED <<AUTHED_CONNS, wakeVars, WALLPAPER_REMOVER, CHANGED_RESOLUTIONS,
                 resolution, original, overlap>>

\* on_remote_authorized: the first remote connection removes the wallpaper, if
\* the option says so and it can be removed.
OnRemoteAuthorized(c) ==
  /\ At(c, "authed", "live")
  /\ WALLPAPER_REMOVER' \in IF c \in RemoteConns THEN {WALLPAPER_REMOVER, TRUE}
                                                 ELSE {WALLPAPER_REMOVER}
  /\ UNCHANGED <<AUTHED_CONNS, wakeVars, qos_users, CHANGED_RESOLUTIONS,
                 resolution, original, overlap>>
-----------------------------------------------------------------------------
(* change_resolution, on the peer's request.                               *)

\* try_get_displays: the current resolution is taken for the original one.
ReadOriginal(c) ==
  /\ c \in RemoteConns
  /\ At(c, "live", "c_record")
  /\ original' = [original EXCEPT ![c] = resolution]
  /\ UNCHANGED <<AUTHED_CONNS, wakeVars, qos_users, WALLPAPER_REMOVER,
                 CHANGED_RESOLUTIONS, resolution, overlap>>

\* set_last_changed_resolution keeps the original of an existing entry.
RecordOriginal(c) ==
  /\ At(c, "c_record", "c_apply")
  /\ CHANGED_RESOLUTIONS' = IF CHANGED_RESOLUTIONS = NoRecord
                            THEN original[c] ELSE CHANGED_RESOLUTIONS
  /\ UNCHANGED <<AUTHED_CONNS, wakeVars, qos_users, WALLPAPER_REMOVER,
                 resolution, original, overlap>>

\* platform::change_resolution, which may fail.
ApplyResolution(c) ==
  /\ At(c, "c_apply", "live")
  /\ resolution' \in Resolutions
  /\ original' = [original EXCEPT ![c] = Native]
  /\ UNCHANGED <<AUTHED_CONNS, wakeVars, qos_users, WALLPAPER_REMOVER,
                 CHANGED_RESOLUTIONS, overlap>>
-----------------------------------------------------------------------------
(* Drop for AuthedConnID.                                                  *)

\* The connection's task ends, also right after it was authorized.
Drop(c) ==
  /\ At(c, "live", "d_qos")
  /\ UNCHANGED <<AUTHED_CONNS, wakeVars, sideVars, overlap>>

\* Mutated form of QosClose: only remote connections leave VIDEO_QOS.
QosCloseRemote(c) ==
  /\ At(c, "d_qos", "d_retain")
  /\ qos_users' = IF c \in RemoteConns THEN qos_users \ {c} ELSE qos_users
  /\ overlap' = (Busy(c) # {})
  /\ UNCHANGED <<AUTHED_CONNS, wakeVars, WALLPAPER_REMOVER, CHANGED_RESOLUTIONS,
                 resolution, original>>

QosClose(c) ==
  /\ At(c, "d_qos", "d_retain")
  /\ qos_users' = IF c \in RemoteConns \cup CameraConns
                  THEN qos_users \ {c} ELSE qos_users
  /\ overlap' = (Busy(c) # {})
  /\ UNCHANGED <<AUTHED_CONNS, wakeVars, WALLPAPER_REMOVER, CHANGED_RESOLUTIONS,
                 resolution, original>>

\* AUTHED_CONNS.retain
Unregister(c) ==
  /\ At(c, "d_retain", "d_count")
  /\ AUTHED_CONNS' = AUTHED_CONNS \ {c}
  /\ UNCHANGED <<wakeVars, sideVars, overlap>>

\* Mutated form of CountRemotes: any connection keeps the remote session's state.
CountAll(c) ==
  /\ IF AUTHED_CONNS = {} THEN At(c, "d_count", "d_wallpaper")
                          ELSE At(c, "d_count", "d_len")
  /\ UNCHANGED <<AUTHED_CONNS, wakeVars, sideVars, overlap>>

\* remote_count is read in a lock section of its own.
CountRemotes(c) ==
  /\ IF AUTHED_CONNS \cap RemoteConns = {} THEN At(c, "d_count", "d_wallpaper")
                                           ELSE At(c, "d_count", "d_len")
  /\ UNCHANGED <<AUTHED_CONNS, wakeVars, sideVars, overlap>>

RestoreWallpaper(c) ==
  /\ At(c, "d_wallpaper", "d_restore")
  /\ WALLPAPER_REMOVER' = FALSE
  /\ UNCHANGED <<AUTHED_CONNS, wakeVars, qos_users, CHANGED_RESOLUTIONS,
                 resolution, original, overlap>>

\* Mutated form of RestoreResolution: a display without a record is restored too.
RestoreUnrecorded(c) ==
  /\ At(c, "d_restore", "d_clear")
  /\ resolution' \in {resolution, CHANGED_RESOLUTIONS}
  /\ UNCHANGED <<AUTHED_CONNS, wakeVars, qos_users, WALLPAPER_REMOVER,
                 CHANGED_RESOLUTIONS, original, overlap>>

\* restore_resolutions, the loop under the read lock; changing back may fail.
RestoreResolution(c) ==
  /\ At(c, "d_restore", "d_clear")
  /\ resolution' \in {resolution} \cup ({CHANGED_RESOLUTIONS} \ {NoRecord})
  /\ UNCHANGED <<AUTHED_CONNS, wakeVars, qos_users, WALLPAPER_REMOVER,
                 CHANGED_RESOLUTIONS, original, overlap>>

\* restore_resolutions, clear() under the write lock.
ClearRecords(c) ==
  /\ At(c, "d_clear", "d_len")
  /\ CHANGED_RESOLUTIONS' = NoRecord
  /\ UNCHANGED <<AUTHED_CONNS, wakeVars, qos_users, WALLPAPER_REMOVER,
                 resolution, original, overlap>>
-----------------------------------------------------------------------------
\* start_wakelock_thread: the lock is held iff the count received is not 0.
WakeThread ==
  /\ wake_rx # <<>>
  /\ wakelock' = (Head(wake_rx) # 0)
  /\ wake_rx' = Tail(wake_rx)
  /\ UNCHANGED <<pc, AUTHED_CONNS, conn_count, sideVars, overlap>>

Open(c) == Register(c) \/ QosOpen(c) \/ OnRemoteAuthorized(c)
ChangeResolution(c) == ReadOriginal(c) \/ RecordOriginal(c) \/ ApplyResolution(c)
Close(c) == \/ Drop(c) \/ QosClose(c) \/ Unregister(c) \/ CountRemotes(c)
            \/ RestoreWallpaper(c) \/ RestoreResolution(c) \/ ClearRecords(c)
CheckWakeLock(c) == ReadCount(c) \/ SendCount(c)

AuthedNext ==
  \/ \E c \in AuthConns : Open(c) \/ ChangeResolution(c) \/ Close(c) \/ CheckWakeLock(c)
  \/ WakeThread

AuthedSpec == AuthedInit /\ [][AuthedNext]_authedVars
-----------------------------------------------------------------------------
(* Properties.                                                             *)

\* VIDEO_QOS knows no user that is not registered, at any interleaving of
\* registrations and drops: a user left behind would throttle everyone's bitrate.
QosUsersAuthed == qos_users \subseteq AUTHED_CONNS

\* Someone still has to undo what the remote sessions did to the machine: a
\* remote connection is registered, or is in its drop and has yet to get past
\* location l.  Drops that overlap may not each leave it to the other.
Responsible(locs) ==
  \E c \in RemoteConns : c \in AUTHED_CONNS \/ pc[c] \in locs

\* Drop for AuthedConnID: the wallpaper comes back and the resolution records are
\* gone once no remote connection is left, however their drops interleave.
CleanedUp ==
  /\ WALLPAPER_REMOVER => Responsible({"d_count", "d_wallpaper"})
  /\ CHANGED_RESOLUTIONS # NoRecord
       => Responsible({"d_count", "d_wallpaper", "d_restore", "d_clear"})

\* check_wake_lock: a stale count may be sent last when registrations and drops
\* overlap, but any of them that runs alone leaves the wake lock right: held iff
\* there is an authorized connection.
LoneStepSetsWakeLock ==
  (/\ ~overlap
   /\ wake_rx = <<>>
   /\ \A c \in AuthConns : pc[c] \notin Opening \cup Dropping)
  => (wakelock <=> AUTHED_CONNS # {})
=============================================================================
