----------------------------- MODULE HostProofs -----------------------------
(***************************************************************************)
(* Proofs about two components of the controlled machine that all its      *)
(* connections share: the registry of authorized connections and the       *)
(* privacy mode, each for any number of connections.                       *)
(***************************************************************************)
EXTENDS AuthedConns, PrivacyMode, FiniteSetTheorems, TLAPS

-----------------------------------------------------------------------------
(***************************************************************************)
(* The registry, for connections of any type.                              *)
(*                                                                         *)
(* CleanedUp speaks of the registry, and whether a connection may change   *)
(* the machine depends on its being registered, so the inductive invariant *)
(* ties the registry to the locations: a connection between the push and   *)
(* the retain is in AUTHED_CONNS, and one that VIDEO_QOS knows is too.     *)
(***************************************************************************)

\* Locations at which a connection is in AUTHED_CONNS, and at which VIDEO_QOS may
\* know it.
Registered == Opening \cup {"authed", "live", "c_record", "c_apply", "d_qos", "d_retain"}
QosKnown == {"authed", "live", "c_record", "c_apply", "d_qos"}

RegistryExact == \A c \in AuthConns : c \in AUTHED_CONNS <=> pc[c] \in Registered
RemoteChanges == \A c \in AuthConns : pc[c] \in {"c_record", "c_apply"} => c \in RemoteConns
QosLocations == /\ qos_users \subseteq RemoteConns \cup CameraConns
                /\ \A c \in qos_users : pc[c] \in QosKnown

RegistryIInv ==
  /\ AuthedTypeOK
  /\ RegistryExact
  /\ RemoteChanges
  /\ QosLocations
  /\ CleanedUp

\* Type correctness of every step; conn_count is a natural number because the
\* registry is finite.
LEMMA RegistryTypeStep == ASSUME AuthedTypeOK, [AuthedNext]_authedVars PROVE AuthedTypeOK'
<1>1. Cardinality(AUTHED_CONNS) \in Nat
  <2>1. IsFiniteSet(AUTHED_CONNS)
    BY FS_Subset, FiniteAssumption DEF AuthedTypeOK
  <2> QED BY <2>1, FS_CardinalityType
<1>2. ASSUME NEW c \in AuthConns, Open(c) PROVE AuthedTypeOK'
  <2>1. CASE Register(c)
    BY <2>1 DEF AuthedTypeOK, Register, At, Busy, wakeVars, sideVars, Locations, Opening
  <2>2. CASE QosOpen(c)
    BY <2>2 DEF AuthedTypeOK, QosOpen, At, wakeVars, Locations
  <2>3. CASE OnRemoteAuthorized(c)
    BY <2>3 DEF AuthedTypeOK, OnRemoteAuthorized, At, wakeVars, Locations
  <2> QED BY <1>2, <2>1, <2>2, <2>3 DEF Open
<1>3. ASSUME NEW c \in AuthConns, ChangeResolution(c) PROVE AuthedTypeOK'
  <2>1. CASE ReadOriginal(c)
    BY <2>1 DEF AuthedTypeOK, ReadOriginal, At, wakeVars, Locations
  <2>2. CASE RecordOriginal(c)
    BY <2>2 DEF AuthedTypeOK, RecordOriginal, At, wakeVars, Locations
  <2>3. CASE ApplyResolution(c)
    BY <2>3, NativeAssumption DEF AuthedTypeOK, ApplyResolution, At, wakeVars, Locations
  <2> QED BY <1>3, <2>1, <2>2, <2>3 DEF ChangeResolution
<1>4. ASSUME NEW c \in AuthConns, Close(c) PROVE AuthedTypeOK'
  BY <1>4 DEF AuthedTypeOK, Close, Drop, QosClose, Unregister, CountRemotes,
     RestoreWallpaper, RestoreResolution, ClearRecords, At, Busy, wakeVars,
     sideVars, Locations, Dropping
<1>5. ASSUME NEW c \in AuthConns, CheckWakeLock(c) PROVE AuthedTypeOK'
  <2>1. CASE ReadCount(c)
    BY <1>1, <2>1 DEF AuthedTypeOK, ReadCount, At, sideVars, Locations, Opening, Dropping
  <2>2. CASE SendCount(c)
    <3>1. wake_rx' \in Seq(Nat)
      BY <2>2 DEF AuthedTypeOK, SendCount
    <3> QED
      BY <2>2, <3>1 DEF AuthedTypeOK, SendCount, At, sideVars, Locations, Opening, Dropping
  <2> QED BY <1>5, <2>1, <2>2 DEF CheckWakeLock
<1>6. ASSUME WakeThread PROVE AuthedTypeOK'
  BY <1>6 DEF AuthedTypeOK, WakeThread, sideVars
<1>7. ASSUME UNCHANGED authedVars PROVE AuthedTypeOK'
  BY <1>7 DEF AuthedTypeOK, authedVars
<1> QED BY <1>2, <1>3, <1>4, <1>5, <1>6, <1>7 DEF AuthedNext

\* The registry follows the locations.
LEMMA RegistryStep ==
  ASSUME AuthedTypeOK, RegistryExact, RemoteChanges, QosLocations, [AuthedNext]_authedVars
  PROVE  RegistryExact' /\ RemoteChanges' /\ QosLocations'
<1> USE DEF AuthedTypeOK, RegistryExact, RemoteChanges, QosLocations, Registered, QosKnown, At,
            wakeVars, sideVars, Opening
<1>1. ASSUME NEW c \in AuthConns, Open(c) PROVE RegistryExact' /\ RemoteChanges' /\ QosLocations'
  BY <1>1 DEF Open, Register, QosOpen, OnRemoteAuthorized
<1>2. ASSUME NEW c \in AuthConns, ChangeResolution(c) PROVE RegistryExact' /\ RemoteChanges' /\ QosLocations'
  BY <1>2 DEF ChangeResolution, ReadOriginal, RecordOriginal, ApplyResolution
<1>3. ASSUME NEW c \in AuthConns, Close(c) PROVE RegistryExact' /\ RemoteChanges' /\ QosLocations'
  <2>1. CASE QosClose(c)
    BY <2>1 DEF QosClose
  <2>2. CASE ~QosClose(c)
    BY <1>3, <2>2 DEF Close, Drop, Unregister, CountRemotes, RestoreWallpaper,
       RestoreResolution, ClearRecords
  <2> QED BY <2>1, <2>2
<1>4. ASSUME NEW c \in AuthConns, CheckWakeLock(c) PROVE RegistryExact' /\ RemoteChanges' /\ QosLocations'
  BY <1>4 DEF CheckWakeLock, ReadCount, SendCount
<1>5. ASSUME WakeThread \/ UNCHANGED authedVars PROVE RegistryExact' /\ RemoteChanges' /\ QosLocations'
  BY <1>5 DEF WakeThread, authedVars
<1> QED BY <1>1, <1>2, <1>3, <1>4, <1>5 DEF AuthedNext

\* A step keeps someone responsible for the wallpaper and for the records, or
\* there is nothing left to undo.  A connection that counts remote connections and
\* finds one leaves the work to it; one that finds none does the work itself.
LEMMA CleanedUpStep ==
  ASSUME RegistryIInv, [AuthedNext]_authedVars
  PROVE  CleanedUp'
<1> USE DEF RegistryIInv, AuthedTypeOK, RegistryExact, RemoteChanges, Registered, CleanedUp, Responsible, At,
            wakeVars, sideVars, Opening
<1> USE TypesAssumption
<1>1. ASSUME NEW c \in AuthConns, Open(c) PROVE CleanedUp'
  <2>1. CASE Register(c)
    BY <2>1 DEF Register
  <2>2. CASE QosOpen(c)
    BY <2>2 DEF QosOpen
  <2>3. CASE OnRemoteAuthorized(c)
    BY <2>3 DEF OnRemoteAuthorized
  <2> QED BY <1>1, <2>1, <2>2, <2>3 DEF Open
<1>2. ASSUME NEW c \in AuthConns, ChangeResolution(c) PROVE CleanedUp'
  <2>1. CASE ReadOriginal(c)
    BY <2>1 DEF ReadOriginal
  <2>2. CASE RecordOriginal(c)
    BY <2>2 DEF RecordOriginal
  <2>3. CASE ApplyResolution(c)
    BY <2>3 DEF ApplyResolution
  <2> QED BY <1>2, <2>1, <2>2, <2>3 DEF ChangeResolution
<1>3. ASSUME NEW c \in AuthConns, Close(c) PROVE CleanedUp'
  <2>1. CASE Drop(c)
    BY <2>1 DEF Drop
  <2>7. CASE QosClose(c)
    BY <2>7 DEF QosClose
  <2>2. CASE Unregister(c)
    BY <2>2 DEF Unregister
  <2>3. CASE CountRemotes(c)
    BY <2>3 DEF CountRemotes
  <2>4. CASE RestoreWallpaper(c)
    BY <2>4 DEF RestoreWallpaper
  <2>5. CASE RestoreResolution(c)
    BY <2>5 DEF RestoreResolution
  <2>6. CASE ClearRecords(c)
    BY <2>6 DEF ClearRecords
  <2> QED BY <1>3, <2>1, <2>2, <2>3, <2>4, <2>5, <2>6, <2>7 DEF Close
<1>4. ASSUME NEW c \in AuthConns, CheckWakeLock(c) PROVE CleanedUp'
  BY <1>4 DEF CheckWakeLock, ReadCount, SendCount
<1>5. ASSUME WakeThread \/ UNCHANGED authedVars PROVE CleanedUp'
  BY <1>5 DEF WakeThread, authedVars
<1> QED BY <1>1, <1>2, <1>3, <1>4, <1>5 DEF AuthedNext

\* RegistryIInv holds initially and is kept by every step of AuthedConns.
THEOREM RegistryInductive == AuthedSpec => []RegistryIInv
<1>1. AuthedInit => RegistryIInv
  <2> SUFFICES ASSUME AuthedInit PROVE RegistryIInv
    OBVIOUS
  <2>1. AuthedTypeOK
    <3>1. wake_rx \in Seq(Nat)
      BY DEF AuthedInit
    <3>2. pc \in [AuthConns -> Locations]
      BY DEF AuthedInit, Locations
    <3> QED BY <3>1, <3>2, NativeAssumption DEF AuthedInit, AuthedTypeOK
  <2>2. RegistryExact /\ RemoteChanges /\ QosLocations /\ CleanedUp
    BY DEF AuthedInit, RegistryExact, RemoteChanges, QosLocations, CleanedUp, Registered, Opening
  <2> QED BY <2>1, <2>2 DEF RegistryIInv
<1>2. RegistryIInv /\ [AuthedNext]_authedVars => RegistryIInv'
  BY RegistryTypeStep, RegistryStep, CleanedUpStep DEF RegistryIInv
<1> QED BY <1>1, <1>2, PTL DEF AuthedSpec

\* Every variable of the registry keeps its type.
THEOREM RegistryTypeCorrect == AuthedSpec => []AuthedTypeOK
<1>1. RegistryIInv => AuthedTypeOK
  BY DEF RegistryIInv
<1> QED BY <1>1, RegistryInductive, PTL

\* What remote sessions did to the machine is undone when the last one goes, for
\* any number of connections whose registrations and drops overlap.
THEOREM CleanedUpAlways == AuthedSpec => []CleanedUp
<1>1. RegistryIInv => CleanedUp
  BY DEF RegistryIInv
<1> QED BY <1>1, RegistryInductive, PTL

\* VIDEO_QOS never knows a user that is not registered.
THEOREM QosUsersAlwaysAuthed == AuthedSpec => []QosUsersAuthed
<1>1. RegistryIInv => QosUsersAuthed
  BY DEF RegistryIInv, AuthedTypeOK, RegistryExact, QosLocations, QosUsersAuthed, Registered, QosKnown
<1> QED BY <1>1, RegistryInductive, PTL
-----------------------------------------------------------------------------
(* The wake lock.                                                          *)

\* Locations from which the connection still has to report the count.
Unreported == {"o_len", "o_send"} \cup Dropping

\* What the wake lock will be when every message has been received.
WakeSoon == IF wake_rx = <<>> THEN wakelock ELSE wake_rx[Len(wake_rx)] # 0

\* A registration or drop that started alone has stayed alone.
LoneIsAlone ==
  ~overlap => \A c, d \in AuthConns : /\ pc[c] \in Opening \cup Dropping
                                      /\ pc[d] \in Opening \cup Dropping
                                      => c = d
\* So the count it has read is not stale,
LoneCountExact ==
  ~overlap => \A c \in AuthConns : pc[c] \in {"o_send", "d_send"}
                                   => conn_count[c] = Cardinality(AUTHED_CONNS)
\* and its report settles the wake lock.
LoneReports ==
  ~overlap /\ (\A c \in AuthConns : pc[c] \notin Unreported)
  => (WakeSoon <=> AUTHED_CONNS # {})

WakeIInv == LoneIsAlone /\ LoneCountExact /\ LoneReports

\* A message in the queue: what is received last decides.
LEMMA SoonAfter ==
  ASSUME wake_rx \in Seq(Nat), wakelock \in BOOLEAN
  PROVE  /\ \A n \in Nat : wake_rx' = Append(wake_rx, n) => (WakeSoon' <=> n # 0)
         /\ WakeThread => (WakeSoon' <=> WakeSoon)
<1>1. ASSUME NEW n \in Nat, wake_rx' = Append(wake_rx, n) PROVE WakeSoon' <=> n # 0
  <2>1. wake_rx' # <<>> /\ wake_rx'[Len(wake_rx')] = n
    BY <1>1
  <2> QED BY <2>1 DEF WakeSoon
<1>2. ASSUME WakeThread PROVE WakeSoon' <=> WakeSoon
  <2> DEFINE t == Tail(wake_rx)
  <2>1. wake_rx # <<>> /\ wake_rx' = t /\ wakelock' = (Head(wake_rx) # 0)
    BY <1>2 DEF WakeThread
  <2>2. t \in Seq(Nat) /\ Len(t) = Len(wake_rx) - 1 /\ Len(t) \in Nat
        /\ \A i \in 1 .. Len(t) : t[i] = wake_rx[i + 1]
    BY <2>1
  <2>3. Head(wake_rx) = wake_rx[1] /\ Len(wake_rx) \in Nat
    BY <2>1
  <2> HIDE DEF t
  <2>4. t # <<>> => Len(t) \in 1 .. Len(t) /\ t[Len(t)] = wake_rx[Len(wake_rx)]
    BY <2>2
  <2>5. CASE t = <<>>
    <3>1. Len(wake_rx) = 1
      BY <2>2, <2>3, <2>5
    <3> QED BY <2>1, <2>3, <2>5, <3>1 DEF WakeSoon
  <2>6. CASE t # <<>>
    BY <2>1, <2>4, <2>6 DEF WakeSoon
  <2> QED BY <2>5, <2>6
<1> QED BY <1>1, <1>2

\* A step of one connection that neither starts a registration or drop nor reads or
\* reports the count.
Plain(c) ==
  \/ QosOpen(c) \/ OnRemoteAuthorized(c) \/ ChangeResolution(c) \/ Drop(c) \/ Unregister(c)
  \/ CountRemotes(c) \/ RestoreWallpaper(c) \/ RestoreResolution(c) \/ ClearRecords(c)

\* Such a step moves the connection within the unreported locations or within the others.
LEMMA PlainMoves ==
  ASSUME AuthedTypeOK, NEW c \in AuthConns, Plain(c)
  PROVE  /\ UNCHANGED <<conn_count, wake_rx, wakelock, overlap>>
         /\ \A d \in AuthConns : d # c => pc'[d] = pc[d]
         /\ pc[c] \in Unreported <=> pc'[c] \in Unreported
         /\ pc'[c] \in Opening \cup Dropping => pc[c] \in Opening \cup Dropping
         /\ pc'[c] \notin {"o_send", "d_send"}
         /\ AUTHED_CONNS' = AUTHED_CONNS \/ (pc[c] = "d_retain" /\ pc'[c] = "d_count")
<1> USE DEF Unreported, Opening, Dropping, At, AuthedTypeOK, wakeVars, sideVars
<1>1. CASE QosOpen(c) \/ OnRemoteAuthorized(c)
  BY <1>1 DEF QosOpen, OnRemoteAuthorized
<1>2. CASE ChangeResolution(c)
  BY <1>2 DEF ChangeResolution, ReadOriginal, RecordOriginal, ApplyResolution
<1>3. CASE Drop(c) \/ Unregister(c)
  BY <1>3 DEF Drop, Unregister
<1>4. CASE CountRemotes(c)
  BY <1>4 DEF CountRemotes
<1>5. CASE RestoreWallpaper(c) \/ RestoreResolution(c) \/ ClearRecords(c)
  BY <1>5 DEF RestoreWallpaper, RestoreResolution, ClearRecords
<1> QED BY <1>1, <1>2, <1>3, <1>4, <1>5 DEF Plain

\* A plain step keeps the three facts: if it changes the registry it does so alone, and
\* has yet to report.
LEMMA PlainKeeps ==
  ASSUME AuthedTypeOK, WakeIInv, NEW c \in AuthConns, Plain(c)
  PROVE  WakeIInv'
<1>1. /\ UNCHANGED <<conn_count, wake_rx, wakelock, overlap>>
      /\ \A d \in AuthConns : d # c => pc'[d] = pc[d]
      /\ pc[c] \in Unreported <=> pc'[c] \in Unreported
      /\ pc'[c] \in Opening \cup Dropping => pc[c] \in Opening \cup Dropping
      /\ pc'[c] \notin {"o_send", "d_send"}
      /\ AUTHED_CONNS' = AUTHED_CONNS \/ (pc[c] = "d_retain" /\ pc'[c] = "d_count")
  BY PlainMoves
<1>2. \A d \in AuthConns : pc'[d] \in Opening \cup Dropping => pc[d] \in Opening \cup Dropping
  BY <1>1
<1>3. LoneIsAlone'
  BY <1>1, <1>2 DEF WakeIInv, LoneIsAlone
<1>4. LoneCountExact'
  <2> SUFFICES ASSUME ~overlap', NEW d \in AuthConns, pc'[d] \in {"o_send", "d_send"}
               PROVE  conn_count'[d] = Cardinality(AUTHED_CONNS')
    BY DEF LoneCountExact
  <2>1. d # c /\ pc[d] \in {"o_send", "d_send"} /\ ~overlap
    BY <1>1
  <2>2. pc[c] # "d_retain"
    BY <2>1 DEF WakeIInv, LoneIsAlone, Opening, Dropping
  <2> QED BY <1>1, <2>1, <2>2 DEF WakeIInv, LoneCountExact
<1>5. LoneReports'
  <2> SUFFICES ASSUME ~overlap', \A d \in AuthConns : pc'[d] \notin Unreported
               PROVE  WakeSoon' <=> AUTHED_CONNS' # {}
    BY DEF LoneReports
  <2>1. \A d \in AuthConns : pc[d] \notin Unreported
    BY <1>1
  <2>2. AUTHED_CONNS' = AUTHED_CONNS
    BY <1>1, <2>1 DEF Unreported, Dropping
  <2>3. WakeSoon' = WakeSoon
    BY <1>1 DEF WakeSoon
  <2> QED BY <1>1, <2>1, <2>2, <2>3 DEF WakeIInv, LoneReports
<1> QED BY <1>3, <1>4, <1>5 DEF WakeIInv

\* A registration or drop starts: alone, it has everything before it; otherwise nothing
\* is claimed.
LEMMA StartKeeps ==
  ASSUME AuthedTypeOK, WakeIInv, NEW c \in AuthConns, Register(c) \/ QosClose(c)
  PROVE  WakeIInv'
<1>1. /\ pc'[c] \in {"o_len", "d_retain"} /\ \A d \in AuthConns : d # c => pc'[d] = pc[d]
      /\ overlap' = (Busy(c) # {})
  BY DEF AuthedTypeOK, Register, QosClose, At
<1>2. ~overlap' => \A d \in AuthConns : d # c => pc'[d] \notin Opening \cup Dropping
  BY <1>1 DEF Busy
<1> QED BY <1>1, <1>2 DEF WakeIInv, LoneIsAlone, LoneCountExact, LoneReports, Unreported,
                         Opening, Dropping

\* The registry is finite, and empty when the count is 0.
LEMMA CountOfRegistry ==
  ASSUME AuthedTypeOK
  PROVE  Cardinality(AUTHED_CONNS) \in Nat /\ (Cardinality(AUTHED_CONNS) = 0 <=> AUTHED_CONNS = {})
<1>1. IsFiniteSet(AUTHED_CONNS)
  BY FS_Subset, FiniteAssumption DEF AuthedTypeOK
<1> QED BY <1>1, FS_CardinalityType, FS_EmptySet

\* The count is read, and reported.
LEMMA CheckKeeps ==
  ASSUME AuthedTypeOK, WakeIInv, NEW c \in AuthConns, CheckWakeLock(c)
  PROVE  WakeIInv'
<1>1. CASE ReadCount(c)
  <2>1. /\ pc[c] \in {"o_len", "d_len"} /\ pc'[c] \in {"o_send", "d_send"}
        /\ \A d \in AuthConns : d # c => pc'[d] = pc[d]
        /\ conn_count'[c] = Cardinality(AUTHED_CONNS)
        /\ \A d \in AuthConns : d # c => conn_count'[d] = conn_count[d]
        /\ overlap' = overlap /\ AUTHED_CONNS' = AUTHED_CONNS
    BY <1>1 DEF AuthedTypeOK, ReadCount, At
  <2>2. LoneIsAlone'
    BY <2>1 DEF WakeIInv, LoneIsAlone, Opening, Dropping
  <2>3. LoneCountExact'
    BY <2>1 DEF WakeIInv, LoneCountExact
  <2>4. LoneReports'
    BY <2>1 DEF LoneReports, Unreported, Dropping
  <2> QED BY <2>2, <2>3, <2>4 DEF WakeIInv
<1>2. CASE SendCount(c)
  <2>1. /\ pc[c] \in {"o_send", "d_send"} /\ pc'[c] \in {"o_qos", "gone"}
        /\ \A d \in AuthConns : d # c => pc'[d] = pc[d]
        /\ \A d \in AuthConns : d # c => conn_count'[d] = conn_count[d]
        /\ overlap' = overlap /\ AUTHED_CONNS' = AUTHED_CONNS
        /\ wake_rx' = Append(wake_rx, conn_count[c])
        /\ wake_rx \in Seq(Nat) /\ wakelock \in BOOLEAN /\ conn_count[c] \in Nat
    BY <1>2 DEF AuthedTypeOK, SendCount, At
  <2>2. WakeSoon' <=> conn_count[c] # 0
    BY <2>1, SoonAfter
  <2>3. LoneIsAlone'
    BY <2>1 DEF WakeIInv, LoneIsAlone, Opening, Dropping
  <2>4. LoneCountExact'
    BY <2>1 DEF WakeIInv, LoneCountExact
  <2>5. ~overlap => conn_count[c] = Cardinality(AUTHED_CONNS)
    BY <2>1 DEF WakeIInv, LoneCountExact
  <2>6. LoneReports'
    BY <2>1, <2>2, <2>5, CountOfRegistry DEF LoneReports
  <2> QED BY <2>3, <2>4, <2>6 DEF WakeIInv
<1> QED BY <1>1, <1>2 DEF CheckWakeLock

\* Any registration or drop that runs alone leaves the wake lock held iff somebody is
\* registered, for any number of connections and whatever overlapped before.
THEOREM LoneStepAlwaysSetsWakeLock == AuthedSpec => []LoneStepSetsWakeLock
<1>1. AuthedInit => WakeIInv
  BY DEF AuthedInit, WakeIInv, LoneIsAlone, LoneCountExact, LoneReports, WakeSoon, Opening, Dropping
<1>2. ASSUME AuthedTypeOK, WakeIInv, [AuthedNext]_authedVars PROVE WakeIInv'
  <2>1. ASSUME NEW c \in AuthConns, Open(c) \/ ChangeResolution(c) \/ Close(c) \/ CheckWakeLock(c)
        PROVE  WakeIInv'
    <3>1. Register(c) \/ QosClose(c) \/ Plain(c) \/ CheckWakeLock(c)
      BY <2>1 DEF Open, Close, Plain
    <3> QED BY <1>2, <3>1, StartKeeps, PlainKeeps, CheckKeeps
  <2>2. CASE WakeThread
    <3>1. UNCHANGED <<pc, AUTHED_CONNS, conn_count, overlap>>
      BY <2>2 DEF WakeThread
    <3>2. WakeSoon' <=> WakeSoon
      BY <1>2, <2>2, SoonAfter DEF AuthedTypeOK
    <3> QED BY <1>2, <3>1, <3>2 DEF WakeIInv, LoneIsAlone, LoneCountExact, LoneReports
  <2>3. CASE UNCHANGED authedVars
    BY <1>2, <2>3 DEF authedVars, WakeIInv, LoneIsAlone, LoneCountExact, LoneReports, WakeSoon
  <2> QED BY <1>2, <2>1, <2>2, <2>3 DEF AuthedNext
<1>3. WakeIInv => LoneStepSetsWakeLock
  BY DEF WakeIInv, LoneReports, LoneStepSetsWakeLock, WakeSoon, Unreported, Opening
<1> QED BY <1>1, <1>2, <1>3, RegistryTypeCorrect, PTL DEF AuthedSpec

-----------------------------------------------------------------------------
(***************************************************************************)
(* The effects of the privacy mode have an owner, for any number of        *)
(* connections: EffectsHaveOwner is inductive once the types are known.    *)
(* Every action of PrivacyMode passes a value with mode, screen and hook   *)
(* through turn_off_privacy or turn_on_privacy_sync, so the proof is about *)
(* such values: Sound says of a value what the invariant says of a state.  *)
(***************************************************************************)

Modes == [impl : Impls, owner : PrivacyConns \cup {NoOwner},
          saved : BOOLEAN, added : BOOLEAN]
ScreenStates == [shown : BOOLEAN, physical : BOOLEAN, plugged : BOOLEAN]
HookStates == {"none", "running", "leaving"}
Values == [mode : Modes, screen : ScreenStates, hook : HookStates, neglected : SUBSET Impls]

\* EffectsHaveOwner of a value of mode, screen, hook and neglected.
Sound(p) ==
  /\ p \in Values
  /\ "window" \notin p.neglected =>
       (p.screen.shown <=> (p.mode.owner # NoOwner /\ p.mode.impl = "window"))
  /\ "virtual" \notin p.neglected =>
       /\ ~p.screen.physical <=> (p.mode.owner # NoOwner /\ p.mode.impl = "virtual")
       /\ ~p.screen.physical => p.mode.saved
  /\ p.mode.added => p.screen.plugged
  /\ p.hook = "running" => p.mode.owner # NoOwner \/ p.neglected # {}

\* A sound value of a mode that nobody owns.
Off(p) == Sound(p) /\ p.mode.owner = NoOwner

\* What turning off starts from: the other implementation has left nothing behind,
\* or its failure is noted.  TurnOnGuard starts from less than a sound value.
Undoable(p) ==
  /\ p \in Values
  /\ p.mode.impl = "virtual" /\ "window" \notin p.neglected => ~p.screen.shown
  /\ p.mode.impl = "window" /\ "virtual" \notin p.neglected => p.screen.physical
  /\ p.mode.added => p.screen.plugged

\* The inductive invariant.
PrivacyIInv == PrivacyTypeOK /\ EffectsHaveOwner

\* The invariant is soundness of the value the operations start from.
LEMMA NowSound == PrivacyIInv => Sound(Now)
BY DEF PrivacyIInv, PrivacyTypeOK, EffectsHaveOwner, Sound, Now, Values, Modes, ScreenStates, HookStates

\* A sound value can be turned off.
LEMMA SoundUndoable == ASSUME NEW p, Sound(p) PROVE Undoable(p)
BY DEF Sound, Undoable, Values, Modes, ScreenStates, Impls

\* Cleaned hides the window, or sets the displays again if it can.
LEMMA CleanedType ==
  ASSUME NEW p \in Values, NEW s \in Cleaned(p)
  PROVE  /\ s \in ScreenStates
         /\ p.mode.impl = "window" => ~s.shown /\ s.physical = p.screen.physical
         /\ p.mode.impl = "virtual" => s.shown = p.screen.shown
<1>1. p.mode \in Modes /\ p.screen \in ScreenStates
  BY DEF Values
<1>2. p.mode.impl \in Impls /\ p.mode.saved \in BOOLEAN
  BY <1>1 DEF Modes
<1>3. CASE p.mode.impl = "window"
  BY <1>1, <1>3 DEF Cleaned, ScreenStates
<1>4. CASE p.mode.impl = "virtual"
  <2>1. PICK on \in {p.screen.physical, p.screen.physical \/ p.mode.saved} :
          s = [p.screen EXCEPT !.physical = on, !.plugged = FALSE]
    BY <1>4 DEF Cleaned, Restored
  <2>2. on \in BOOLEAN
    BY <1>1, <1>2, <2>1 DEF ScreenStates
  <2> QED BY <1>1, <1>4, <2>1, <2>2 DEF ScreenStates
<1> QED BY <1>2, <1>3, <1>4 DEF Impls

\* turn_off_privacy that returns Ok leaves the mode off with no effect behind, also
\* when TurnOnGuard runs it half-way through turning on; displays that could not be
\* set again are noted.
LEMMA TurnedOffIsOff ==
  ASSUME NEW p, Undoable(p), NEW q \in TurnedOff(p)
  PROVE  Off(q) /\ q.mode.impl = p.mode.impl
<1>1. p \in Values
  BY DEF Undoable
<1>2. p.mode \in Modes /\ p.hook \in HookStates /\ p.neglected \in SUBSET Impls
  BY <1>1 DEF Values
<1>3. p.mode.impl \in Impls
  BY <1>2 DEF Modes
<1>4. PICK s \in Cleaned(p) :
        q = [ mode    |-> NewMode(p.mode.impl),
              screen  |-> s,
              hook    |-> unhook(p.hook),
              neglected |-> IF p.mode.impl = "virtual" /\ ~s.physical
                          THEN p.neglected \cup {"virtual"} ELSE p.neglected \ {p.mode.impl} ]
  BY DEF TurnedOff
<1>5. /\ s \in ScreenStates
      /\ p.mode.impl = "window" => ~s.shown /\ s.physical = p.screen.physical
      /\ p.mode.impl = "virtual" => s.shown = p.screen.shown
  BY <1>1, CleanedType
<1>6. /\ q.mode \in Modes /\ q.mode.owner = NoOwner /\ ~q.mode.added
      /\ q.mode.impl = p.mode.impl
  BY <1>3, <1>4 DEF NewMode, Modes
<1>7. q.hook \in HookStates /\ q.hook # "running"
  BY <1>2, <1>4 DEF unhook, HookStates
<1>8. q.screen = s /\ q.neglected \in SUBSET Impls
  BY <1>2, <1>4 DEF Impls
<1>9. q \in Values
  BY <1>4, <1>5, <1>6, <1>7, <1>8 DEF Values
<1>10. /\ "window" \notin q.neglected => ~s.shown
       /\ "virtual" \notin q.neglected => s.physical
  BY <1>3, <1>4, <1>5 DEF Undoable, Impls
<1> QED BY <1>5, <1>6, <1>7, <1>8, <1>9, <1>10 DEF Off, Sound, ScreenStates

\* An error of turn_off_privacy leaves all but the hook alone.
LEMMA ErrorsKeep ==
  ASSUME NEW p \in Values, NEW q \in TurnOffErrors(p)
  PROVE  /\ q \in Values /\ q.mode = p.mode /\ q.screen = p.screen /\ q.neglected = p.neglected
         /\ q.hook \in {p.hook, "leaving", "none"}
<1>1. p.hook \in HookStates
  BY DEF Values
<1>2. CASE q = p
  BY <1>2
<1>3. CASE q = [p EXCEPT !.hook = unhook(p.hook)]
  <2>1. unhook(p.hook) \in HookStates \cap {"leaving", "none"}
    BY DEF unhook, HookStates
  <2> QED BY <1>3, <2>1 DEF Values
<1> QED BY <1>2, <1>3 DEF TurnOffErrors

\* clear, Drop and TurnOnGuard leave a sound value: off, or with the failure noted.
LEMMA UndoneSound ==
  ASSUME NEW p, Undoable(p), NEW q \in Undone(p)
  PROVE  /\ Sound(q) /\ q.mode.impl = p.mode.impl
         /\ q.mode.owner = NoOwner \/ q.mode.impl \in q.neglected
<1>1. CASE q \in TurnedOff(p)
  BY <1>1, TurnedOffIsOff DEF Off
<1>2. ASSUME NEW r \in TurnOffErrors(p), q = [r EXCEPT !.neglected = @ \cup {p.mode.impl}]
      PROVE  Sound(q) /\ q.mode = p.mode /\ q.mode.impl \in q.neglected
  <2>1. p \in Values
    BY DEF Undoable
  <2>2. r \in Values /\ r.mode = p.mode /\ r.screen = p.screen /\ r.neglected = p.neglected
    BY <2>1, ErrorsKeep
  <2>3. p.mode \in Modes /\ p.screen \in ScreenStates /\ p.neglected \in SUBSET Impls
    BY <2>1 DEF Values
  <2>4. p.mode.impl \in Impls
    BY <2>3 DEF Modes
  <2>5. /\ q.mode = p.mode /\ q.screen = p.screen /\ q.hook = r.hook
        /\ q.neglected = p.neglected \cup {p.mode.impl}
    BY <1>2, <2>2 DEF Values
  <2>6. q \in Values
    BY <1>2, <2>2, <2>4, <2>5 DEF Values
  <2>7. /\ "window" \notin q.neglected => p.mode.impl = "virtual" /\ ~p.screen.shown
        /\ "virtual" \notin q.neglected => p.mode.impl = "window" /\ p.screen.physical
    BY <2>4, <2>5 DEF Undoable, Impls
  <2> QED BY <2>3, <2>5, <2>6, <2>7 DEF Sound, Undoable, ScreenStates
<1> QED BY <1>1, <1>2 DEF Undone

\* Another implementation takes the place of one that is off or whose failure is noted.
LEMMA NewModeOff ==
  ASSUME NEW q, Sound(q), q.mode.owner = NoOwner \/ q.mode.impl \in q.neglected,
         NEW k \in Impls
  PROVE  Off([q EXCEPT !.mode = NewMode(k)]) /\ [q EXCEPT !.mode = NewMode(k)].mode.impl = k
<1> DEFINE r == [q EXCEPT !.mode = NewMode(k)]
<1>1. q \in Values
  BY DEF Sound
<1>2. q.mode \in Modes /\ q.screen \in ScreenStates /\ q.neglected \in SUBSET Impls
  BY <1>1 DEF Values
<1>3. /\ NewMode(k) \in Modes /\ NewMode(k).owner = NoOwner /\ NewMode(k).impl = k
      /\ ~NewMode(k).added
  BY DEF NewMode, Modes
<1>4. /\ r.mode = NewMode(k) /\ r.screen = q.screen /\ r.hook = q.hook
      /\ r.neglected = q.neglected
  BY <1>1 DEF Values
<1>5. r \in Values
  BY <1>1, <1>3 DEF Values
<1>6. /\ "window" \notin q.neglected => ~q.screen.shown
      /\ "virtual" \notin q.neglected => q.screen.physical
      /\ q.hook = "running" => q.neglected # {}
  BY <1>2 DEF Sound, ScreenStates
<1> HIDE DEF r
<1>7. Off(r) /\ r.mode.impl = k
  BY <1>2, <1>3, <1>4, <1>5, <1>6 DEF Off, Sound, ScreenStates
<1> QED BY <1>7 DEF r

\* So does one that is dropped.
LEMMA ReplacedOff ==
  ASSUME NEW p, Sound(p), NEW k \in Impls, NEW r \in Replaced(p, k)
  PROVE  Off(r) /\ r.mode.impl = k
<1> DEFINE off == IF p.mode.owner = NoOwner THEN {p} ELSE Undone(p)
           Fine(q) == Sound(q) /\ (q.mode.owner = NoOwner \/ q.mode.impl \in q.neglected)
<1>1. ASSUME NEW q \in off PROVE Fine(q)
  BY <1>1, SoundUndoable, UndoneSound
<1>2. ASSUME NEW q, Fine(q), q.mode.impl = "window"
      PROVE  Off([[q EXCEPT !.screen.shown = FALSE] EXCEPT !.mode = NewMode(k)])
             /\ [[q EXCEPT !.screen.shown = FALSE] EXCEPT !.mode = NewMode(k)].mode.impl = k
  <2> DEFINE u == [q EXCEPT !.screen.shown = FALSE]
  <2>1. q \in Values /\ q.mode \in Modes /\ q.screen \in ScreenStates
    BY <1>2 DEF Sound, Values
  <2>2. u.screen = [q.screen EXCEPT !.shown = FALSE]
    BY <2>1 DEF Values, ScreenStates
  <2>3. u.mode = q.mode /\ u.hook = q.hook /\ u.neglected = q.neglected
    BY <2>1 DEF Values
  <2>4. /\ u.screen \in ScreenStates /\ ~u.screen.shown
        /\ u.screen.physical = q.screen.physical /\ u.screen.plugged = q.screen.plugged
    BY <2>1, <2>2 DEF ScreenStates
  <2>5. u \in Values
    BY <2>1, <2>3, <2>4 DEF Values
  <2>6. "window" \notin u.neglected => q.mode.owner = NoOwner
    BY <1>2, <2>3
  <2> HIDE DEF u
  <2>7. Sound(u) /\ (u.mode.owner = NoOwner \/ u.mode.impl \in u.neglected)
    BY <1>2, <2>1, <2>3, <2>4, <2>5, <2>6 DEF Sound, ScreenStates
  <2>8. Off([u EXCEPT !.mode = NewMode(k)]) /\ [u EXCEPT !.mode = NewMode(k)].mode.impl = k
    BY <2>7, NewModeOff
  <2> QED BY <2>8 DEF u
<1>3. PICK q \in Dropped(p) : r = [q EXCEPT !.mode = NewMode(k)]
  BY DEF Replaced
<1>4. CASE q \in off
  BY <1>1, <1>3, <1>4, NewModeOff
<1>5. ASSUME NEW w \in off, w.mode.impl = "window", q = [w EXCEPT !.screen.shown = FALSE]
      PROVE  Off(r) /\ r.mode.impl = k
  BY <1>1, <1>2, <1>3, <1>5
<1> QED BY <1>3, <1>4, <1>5 DEF Dropped

\* win_topmost_window turns on from a sound mode that is off: the value stays sound
\* whether the window is missing, the hooks are refused or all goes well.
LEMMA WindowSound ==
  ASSUME NEW p, Off(p), p.mode.impl = "window",
         NEW c \in PrivacyConns, NEW o \in WindowOutcomes(p, c)
  PROVE  Sound(o.after) /\ o.result \in {"plugin", "failed", "on"}
<1>1. p \in Values /\ p.mode.owner = NoOwner /\ Sound(p)
  BY DEF Off, Sound
<1>2. p.mode \in Modes /\ p.screen \in ScreenStates /\ p.hook \in HookStates
  BY <1>1 DEF Values
<1>3. CASE o \in {Outcome(p, r) : r \in {"plugin", "failed"}}
  BY <1>1, <1>3 DEF Outcome
<1>4. CASE o \in {Outcome([p EXCEPT !.hook = h], "failed") : h \in HookLeft(p.hook)}
  <2>1. PICK h \in HookLeft(p.hook) : o = Outcome([p EXCEPT !.hook = h], "failed")
    BY <1>4
  <2>2. h \in HookStates /\ (h = "running" => p.neglected # {})
    BY <1>1, <1>2, <2>1 DEF HookLeft, HookStates, Sound
  <2>3. o.result = "failed" /\ o.after = [p EXCEPT !.hook = h]
    BY <2>1 DEF Outcome
  <2> QED BY <1>1, <2>2, <2>3 DEF Sound, Values
<1> DEFINE q == [p EXCEPT !.mode.owner = c, !.screen.shown = TRUE, !.hook = "running"]
<1>5. CASE o \in {Outcome(q, "on") : h \in HookLeft(p.hook) \cap {"none"}}
  <2>1. o.result = "on" /\ o.after = q
    BY <1>5 DEF Outcome
  <2>2. q.mode = [p.mode EXCEPT !.owner = c] /\ q.screen = [p.screen EXCEPT !.shown = TRUE]
        /\ q.hook = "running" /\ q.neglected = p.neglected
    BY <1>1, <1>2 DEF Values, Modes, ScreenStates
  <2>3. q.mode \in Modes /\ q.mode.owner = c /\ q.mode.impl = "window" /\ q.mode.added = p.mode.added
    BY <1>2, <2>2 DEF Modes
  <2>4. /\ q.screen \in ScreenStates /\ q.screen.shown
        /\ q.screen.physical = p.screen.physical /\ q.screen.plugged = p.screen.plugged
    <3> DEFINE s == [p.screen EXCEPT !.shown = TRUE]
    <3>1. s \in ScreenStates /\ s.shown /\ s.physical = p.screen.physical /\ s.plugged = p.screen.plugged
      BY <1>2 DEF ScreenStates
    <3>2. q.screen = s
      BY <2>2
    <3> HIDE DEF q, s
    <3> QED BY <3>1, <3>2
  <2>5. ("virtual" \notin p.neglected => p.screen.physical) /\ (p.mode.added => p.screen.plugged)
    BY <1>1, <1>2 DEF Sound, ScreenStates
  <2>6. q \in Values
    BY <1>1, <2>2, <2>3, <2>4 DEF Values, HookStates
  <2>7. c # NoOwner
    BY NoOwnerAssumption
  <2> HIDE DEF q
  <2> QED BY <2>1, <2>2, <2>3, <2>4, <2>5, <2>6, <2>7 DEF Sound
<1> QED BY <1>3, <1>4, <1>5 DEF WindowOutcomes

\* win_virtual_display turns on from a sound mode that is off: a failure half-way is
\* undone by TurnOnGuard or noted, and dark displays are remembered.
LEMMA VirtualSound ==
  ASSUME NEW p, Off(p), p.mode.impl = "virtual",
         NEW c \in PrivacyConns, NEW o \in VirtualOutcomes(p, c)
  PROVE  Sound(o.after) /\ o.result \in {"plugin", "failed", "on"}
<1> DEFINE r == Remembered(p)
<1>1. p \in Values /\ p.mode.owner = NoOwner /\ Sound(p)
  BY DEF Off, Sound
<1>2. /\ p.mode \in Modes /\ p.screen \in ScreenStates /\ p.hook \in HookStates
      /\ p.neglected \in SUBSET Impls
  BY <1>1 DEF Values
<1>3. /\ "virtual" \notin p.neglected => p.screen.physical
      /\ "window" \notin p.neglected => ~p.screen.shown
      /\ p.mode.added => p.screen.plugged
  BY <1>1, <1>2 DEF Sound, ScreenStates
<1>4. /\ r \in Values /\ r.mode.saved /\ r.mode.impl = "virtual" /\ r.screen.plugged
      /\ r.screen.shown = p.screen.shown /\ r.hook = p.hook /\ r.neglected = p.neglected
  <2>1. r.mode = [p.mode EXCEPT !.saved = TRUE, !.added = @ \/ ~p.screen.plugged]
    BY <1>1, <1>2 DEF Remembered, Values, Modes
  <2>2. r.screen = [p.screen EXCEPT !.plugged = TRUE]
    BY <1>1, <1>2 DEF Remembered, Values, ScreenStates
  <2>3. r.hook = p.hook /\ r.neglected = p.neglected
    BY <1>1 DEF Remembered, Values
  <2>4. (p.mode.added \/ ~p.screen.plugged) \in BOOLEAN
    OBVIOUS
  <2>5. r.mode \in Modes /\ r.mode.saved /\ r.mode.impl = "virtual"
    BY <1>2, <2>1, <2>4 DEF Modes
  <2>6. r.screen \in ScreenStates /\ r.screen.plugged /\ r.screen.shown = p.screen.shown
    BY <1>2, <2>2 DEF ScreenStates
  <2>7. r \in Values
    BY <1>1, <1>2, <2>3, <2>5, <2>6 DEF Values, Remembered
  <2> QED BY <2>3, <2>5, <2>6, <2>7
<1>5. CASE o = Outcome(p, "failed")
  BY <1>1, <1>5 DEF Outcome
<1>6. CASE ~p.screen.physical /\ o = Outcome([p EXCEPT !.mode.saved = FALSE], "failed")
  <2> DEFINE q == [p EXCEPT !.mode.saved = FALSE]
  <2>1. o.after = q /\ o.result = "failed"
    BY <1>6 DEF Outcome
  <2>2. q.mode = [p.mode EXCEPT !.saved = FALSE]
    BY <1>1, <1>2 DEF Values, Modes
  <2>3. q.screen = p.screen /\ q.hook = p.hook /\ q.neglected = p.neglected
    BY <1>1 DEF Values
  <2>4. q.mode \in Modes /\ q.mode.owner = NoOwner /\ q.mode.impl = "virtual"
        /\ q.mode.added = p.mode.added
    BY <1>1, <1>2, <2>2 DEF Modes
  <2>5. q \in Values
    BY <1>1, <2>3, <2>4 DEF Values
  <2> HIDE DEF q
  <2> QED BY <1>1, <1>3, <1>6, <2>1, <2>3, <2>4, <2>5 DEF Sound
<1>7. CASE p.screen.physical /\ o \in GuardOutcomes(p)
  <2>1. PICK q \in {[p EXCEPT !.mode.saved = TRUE], r, [r EXCEPT !.screen.physical = FALSE]} :
          \E u \in Undone(q) : o = Outcome(u, "failed")
    BY <1>7 DEF GuardOutcomes
  <2>2. PICK u \in Undone(q) : o = Outcome(u, "failed")
    BY <2>1
  <2> HIDE DEF r
  <2>3. Undoable(q)
    <3>1. CASE q = [p EXCEPT !.mode.saved = TRUE]
      <4>1. /\ q.mode = [p.mode EXCEPT !.saved = TRUE] /\ q.screen = p.screen
            /\ q.hook = p.hook /\ q.neglected = p.neglected
        BY <1>1, <1>2, <3>1 DEF Values, Modes
      <4>2. q.mode \in Modes /\ q.mode.impl = "virtual" /\ q.mode.added = p.mode.added
        BY <1>2, <4>1 DEF Modes
      <4>3. q \in Values
        BY <1>1, <3>1, <4>1, <4>2 DEF Values
      <4> QED BY <1>3, <4>1, <4>2, <4>3 DEF Undoable
    <3>2. CASE q = r
      BY <1>3, <1>4, <3>2 DEF Undoable
    <3>3. CASE q = [r EXCEPT !.screen.physical = FALSE]
      <4>1. r.screen \in ScreenStates
        BY <1>4 DEF Values
      <4>2. /\ q.mode = r.mode /\ q.screen = [r.screen EXCEPT !.physical = FALSE]
            /\ q.hook = r.hook /\ q.neglected = r.neglected
        BY <1>4, <3>3, <4>1 DEF Values, ScreenStates
      <4>3. /\ q.screen \in ScreenStates /\ q.screen.plugged
            /\ q.screen.shown = r.screen.shown
        BY <1>4, <4>1, <4>2 DEF ScreenStates
      <4>4. q \in Values
        BY <1>4, <3>3, <4>2, <4>3 DEF Values
      <4> QED BY <1>3, <1>4, <4>2, <4>3, <4>4 DEF Undoable
    <3> QED BY <2>1, <3>1, <3>2, <3>3
  <2>4. Sound(u)
    BY <2>2, <2>3, UndoneSound
  <2> QED BY <2>2, <2>4 DEF Outcome
<1>8. CASE o \in {Outcome([r EXCEPT !.mode.owner = c, !.screen.physical = FALSE,
                                   !.hook = g], "on") :
                 g \in HookLeft(p.hook) \cup {"running" : h \in HookLeft(p.hook) \cap {"none"}}}
  <2>1. PICK g \in HookLeft(p.hook) \cup {"running" : h \in HookLeft(p.hook) \cap {"none"}} :
          o = Outcome([r EXCEPT !.mode.owner = c, !.screen.physical = FALSE, !.hook = g], "on")
    BY <1>8
  <2>2. g \in HookStates
    BY <1>2, <2>1 DEF HookLeft, HookStates
  <2> DEFINE q == [r EXCEPT !.mode.owner = c, !.screen.physical = FALSE, !.hook = g]
  <2> HIDE DEF r
  <2>3. q.mode = [r.mode EXCEPT !.owner = c] /\ q.screen = [r.screen EXCEPT !.physical = FALSE]
        /\ q.neglected = r.neglected
    BY <1>4 DEF Values, Modes, ScreenStates
  <2>4. /\ q.mode \in Modes /\ q.mode.owner = c /\ q.mode.impl = "virtual" /\ q.mode.saved
    BY <1>4, <2>3 DEF Values, Modes
  <2>5. /\ q.screen \in ScreenStates /\ ~q.screen.physical /\ q.screen.plugged
        /\ q.screen.shown = p.screen.shown
    BY <1>4, <2>3 DEF Values, ScreenStates
  <2>6. q \in Values
    BY <1>4, <2>2, <2>3, <2>4, <2>5 DEF Values
  <2>7. c # NoOwner
    BY NoOwnerAssumption
  <2>8. o.after = q /\ o.result = "on"
    BY <2>1 DEF Outcome
  <2> HIDE DEF q
  <2> QED BY <1>3, <1>4, <2>3, <2>4, <2>5, <2>6, <2>7, <2>8 DEF Sound
<1> QED BY <1>5, <1>6, <1>7, <1>8 DEF VirtualOutcomes

\* The value is sound whatever turn_on_privacy_sync does: refuse, find the mode on,
\* turn it on, or clear and drop another implementation first.
LEMMA TurnOnSound ==
  ASSUME PrivacyIInv, NEW c \in PrivacyConns, NEW k \in Impls,
         NEW o \in turn_on_privacy_sync(c, k)
  PROVE  Sound(o.after) /\ o.result \in {"plugin", "failed", "on"}
<1>1. Sound(Now) /\ Now.mode = mode
  BY NowSound DEF Now
<1>2. CASE o \in {Outcome(Now, "failed"), Outcome(Now, "on")}
  BY <1>1, <1>2 DEF Outcome
<1>3. ASSUME NEW p, Off(p), p.mode.impl = k, o \in TurnOnOutcomes(p, c)
      PROVE  Sound(o.after) /\ o.result \in {"plugin", "failed", "on"}
  BY <1>3, WindowSound, VirtualSound DEF TurnOnOutcomes, Impls
<1>4. CASE mode.owner = NoOwner /\ mode.impl = k /\ o \in TurnOnOutcomes(Now, c)
  BY <1>1, <1>3, <1>4 DEF Off
<1>5. ASSUME NEW q \in Undone(Now), NEW p \in Replaced(q, k), o \in TurnOnOutcomes(p, c)
      PROVE  Sound(o.after) /\ o.result \in {"plugin", "failed", "on"}
  <2>1. Sound(q)
    BY <1>1, SoundUndoable, UndoneSound
  <2>2. Off(p) /\ p.mode.impl = k
    BY <2>1, ReplacedOff
  <2> QED BY <1>3, <1>5, <2>2
<1> QED BY <1>2, <1>4, <1>5 DEF turn_on_privacy_sync

\* The state takes a sound value.
LEMMA BecomesSound == ASSUME NEW p, Sound(p), Becomes(p) PROVE Sound(Now)'
<1>1. Now' = p
  BY DEF Becomes, Now, Sound, Values
<1> QED BY <1>1 DEF Sound

\* turn_off_privacy leaves a sound value, whatever id asks and whether it fails or not.
LEMMA TurnOffSound ==
  ASSUME PrivacyIInv, NEW id, turn_off_privacy(id)
  PROVE  Sound(Now)'
<1>1. Sound(Now) /\ Undoable(Now)
  BY NowSound, SoundUndoable
<1>2. PICK p \in TurnedOff(Now) \cup TurnOffErrors(Now) \cup {Now} : Becomes(p)
  BY DEF turn_off_privacy
<1>3. CASE p \in TurnedOff(Now)
  BY <1>1, <1>2, <1>3, TurnedOffIsOff, BecomesSound DEF Off
<1>4. CASE p \in TurnOffErrors(Now)
  <2>1. /\ p \in Values /\ p.mode = Now.mode /\ p.screen = Now.screen
        /\ p.neglected = Now.neglected /\ p.hook \in {Now.hook, "leaving", "none"}
    BY <1>1, <1>4, ErrorsKeep DEF Sound
  <2>2. Sound(p)
    BY <1>1, <2>1 DEF Sound
  <2> QED BY <1>2, <2>2, BecomesSound
<1>5. CASE p = Now
  BY <1>1, <1>2, <1>5, BecomesSound
<1> QED BY <1>2, <1>3, <1>4, <1>5

RequestStates == {"out", "idle", "sync", "waiting", "on", "bad", "failed", "undo",
                  "closing", "closed"}

\* Where the connections are and which calls wait for the lock.
RequestsOK == request \in [PrivacyConns -> RequestStates] /\ calls \subseteq PrivacyConns \X Impls

\* What a step must show to keep the invariant.
LEMMA SoundIsInvariant == Sound(Now)' /\ RequestsOK' => PrivacyIInv'
BY DEF PrivacyIInv, PrivacyTypeOK, EffectsHaveOwner, Sound, Now, Values, Modes, ScreenStates,
       HookStates, RequestsOK, RequestStates

\* A step that leaves mode, screen and hook alone keeps them sound.
LEMMA QuietStep ==
  ASSUME PrivacyIInv, UNCHANGED <<mode, screen, hook, neglected>> PROVE Sound(Now)'
BY NowSound DEF Now, Sound

\* Types and EffectsHaveOwner are kept by every step.
THEOREM PrivacyInductive == PrivacySpec => []PrivacyIInv
<1>1. PrivacyInit => PrivacyIInv
  <2> SUFFICES ASSUME PrivacyInit PROVE PrivacyIInv
    OBVIOUS
  <2>1. PICK k \in Impls : mode = NewMode(k)
    BY DEF PrivacyInit
  <2> QED BY <2>1 DEF PrivacyInit, NewMode, PrivacyIInv, PrivacyTypeOK, EffectsHaveOwner
<1>2. PrivacyIInv /\ [PrivacyNext]_privacyVars => PrivacyIInv'
  <2> SUFFICES ASSUME PrivacyIInv, [PrivacyNext]_privacyVars PROVE Sound(Now)' /\ RequestsOK'
    BY SoundIsInvariant
  <2>1. RequestsOK
    BY DEF PrivacyIInv, PrivacyTypeOK, RequestsOK, RequestStates
  <2>2. ASSUME NEW c \in PrivacyConns,
               \/ LogsIn(c) \/ TimesOut(c) \/ TestsCapturer(c) \/ FindsOn(c) \/ Closes(c)
        PROVE  Sound(Now)' /\ RequestsOK'
    <3>1. UNCHANGED <<mode, screen, hook, calls, neglected>>
      BY <2>2 DEF LogsIn, TimesOut, TestsCapturer, FindsOn, Closes
    <3>2. \E r \in RequestStates : request' = [request EXCEPT ![c] = r]
      BY <2>2 DEF LogsIn, TimesOut, TestsCapturer, FindsOn, Closes, RequestStates
    <3> QED BY <2>1, <3>1, <3>2, QuietStep DEF RequestsOK
  <2>3. ASSUME NEW c \in PrivacyConns, Undoes(c) \/ AsksOff(c) \/ ClosesMode(c)
        PROVE  Sound(Now)' /\ RequestsOK'
    <3>1. turn_off_privacy(NoOwner) \/ turn_off_privacy(c)
      BY <2>3 DEF Undoes, AsksOff, ClosesMode
    <3>2. calls' = calls /\ \E r \in RequestStates : request' = [request EXCEPT ![c] = r]
      BY <2>3 DEF Undoes, AsksOff, ClosesMode, RequestStates
    <3> QED BY <2>1, <3>1, <3>2, TurnOffSound DEF RequestsOK
  <2>4. ASSUME NEW c \in PrivacyConns, NEW k \in Impls, AsksOn(c, k)
        PROVE  Sound(Now)' /\ RequestsOK'
    <3>1. UNCHANGED <<mode, screen, hook, neglected>>
      BY <2>4 DEF AsksOn
    <3>2. RequestsOK'
      BY <2>1, <2>4 DEF AsksOn, RequestsOK, RequestStates
    <3> QED BY <3>1, <3>2, QuietStep
  <2>5. ASSUME NEW c \in PrivacyConns, NEW k \in Impls, TurnsOn(c, k)
        PROVE  Sound(Now)' /\ RequestsOK'
    <3>1. PICK o \in turn_on_privacy_sync(c, k) :
            /\ Becomes(o.after)
            /\ request' = IF request[c] \in {"sync", "waiting"}
                          THEN [request EXCEPT ![c] = IF o.result = "plugin" THEN "idle"
                                                      ELSE o.result]
                          ELSE request
      BY <2>5 DEF TurnsOn
    <3>2. Sound(o.after) /\ o.result \in {"plugin", "failed", "on"}
      BY TurnOnSound
    <3>3. Sound(Now)'
      BY <3>1, <3>2, BecomesSound
    <3>4. RequestsOK'
      BY <2>1, <2>5, <3>1, <3>2 DEF TurnsOn, RequestsOK, RequestStates
    <3> QED BY <3>3, <3>4
  <2>6. CASE LocalOff
    BY <2>1, <2>6, TurnOffSound DEF LocalOff, RequestsOK
  <2>7. ASSUME NEW k \in Impls, switch_impl(k) PROVE Sound(Now)' /\ RequestsOK'
    <3>1. PICK p \in Replaced(Now, k) : Becomes(p)
      BY <2>7 DEF switch_impl
    <3>2. Sound(p)
      BY NowSound, ReplacedOff DEF Off
    <3> QED BY <2>1, <2>7, <3>1, <3>2, BecomesSound DEF switch_impl, RequestsOK
  <2>8. CASE HookThreadExits
    BY <2>1, <2>8, NowSound
       DEF HookThreadExits, Now, Sound, Values, HookStates, RequestsOK
  <2>9. CASE PeerPlugs
    <3>1. Sound(Now)
      BY NowSound
    <3>2. screen \in ScreenStates
      BY DEF PrivacyIInv, PrivacyTypeOK, ScreenStates
    <3>3. /\ screen' \in ScreenStates /\ screen'.shown = screen.shown
          /\ screen'.physical = screen.physical /\ screen'.plugged
      BY <2>9, <3>2 DEF PeerPlugs, ScreenStates
    <3>4. Sound(Now)'
      BY <2>9, <3>1, <3>3 DEF PeerPlugs, Now, Sound, Values
    <3> QED BY <2>1, <2>9, <3>4 DEF PeerPlugs, RequestsOK
  <2>10. CASE UNCHANGED privacyVars
    BY <2>1, <2>10, QuietStep DEF privacyVars, RequestsOK
  <2> QED BY <2>2, <2>3, <2>4, <2>5, <2>6, <2>7, <2>8, <2>9, <2>10 DEF PrivacyNext
<1> QED BY <1>1, <1>2, PTL DEF PrivacySpec

\* PRIVACY_MODE, the screen, the hook thread and the connections keep their types.
THEOREM PrivacyTypeCorrect == PrivacySpec => []PrivacyTypeOK
<1>1. PrivacyIInv => PrivacyTypeOK
  BY DEF PrivacyIInv
<1> QED BY <1>1, PrivacyInductive, PTL

\* The window is shown, the displays are dark and input is held back only while a
\* connection owns the mode, or after a clean-up of that implementation whose failure
\* the code ignores; for any number of connections and either driver.
THEOREM EffectsAlwaysHaveOwner == PrivacySpec => []EffectsHaveOwner
<1>1. PrivacyIInv => EffectsHaveOwner
  BY DEF PrivacyIInv
<1> QED BY <1>1, PrivacyInductive, PTL
=============================================================================
