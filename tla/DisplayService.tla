--------------------------- MODULE DisplayService ---------------------------
(***************************************************************************)
(* The display service, src/server/display_service.rs: SYNC_DISPLAYS, its  *)
(* is_synced flag, and the service's thread that sends a changed list of   *)
(* displays to the connections.  A connection also gets the list when it   *)
(* logs in, before it subscribes.  The video services' threads update the  *)
(* list too, and privacy mode by virtual display suspends the messages     *)
(* (temp_ignore_displays_changed) while it plugs displays in and out.      *)
(*                                                                         *)
(* A list of displays is a number.  Wayland, where the list is fixed, and  *)
(* headless virtual displays are left out.                                 *)
(***************************************************************************)
EXTENDS Service, Naturals

CONSTANTS Screens       \* lists of displays the system can have

VARIABLES
  screens,      \* what try_get_displays would return
  sync,         \* SYNC_DISPLAYS
  ignored,      \* TEMP_IGNORE_DISPLAYS_CHANGED
  holder,       \* the thread between temp_ignore_displays_changed and its drop
  display,      \* the ServiceInner
  displayPc,    \* where the service's thread is
  viewer,       \* connections: none, checked, logged, subscribed
  told,         \* the list of displays each connection was sent last
  alone         \* history: connections that were swapped in when there was no other

displayVars == <<screens, sync, ignored, holder, display, displayPc, viewer, told, alone>>

\* Types; the maps of the service stay disjoint and hold subscribed connections only.
DisplayTypeOK ==
  /\ screens \in Screens
  /\ sync \in [displays : Screens \cup {0}, is_synced : BOOLEAN]
  /\ ignored \in BOOLEAN /\ holder \in {"idle", "holding", "dropping"}
  /\ display \in ServiceInner /\ OneMap(display)
  /\ displayPc \in {"head", "loop", "callback", "swap", "bail", "check", "send"}
  /\ \A c \in Conns : c \in Subscribers(display) <=> viewer[c] = "subscribed"
  /\ told \in [Conns -> Screens \cup {0}]
  /\ alone \subseteq display.subscribes

DisplayInit ==
  /\ screens \in Screens
  /\ sync = [displays |-> 0, is_synced |-> FALSE]
  /\ ignored = FALSE /\ holder = "idle"
  /\ display = New /\ displayPc = "head"
  /\ viewer = [c \in Conns |-> "none"]
  /\ told = [c \in Conns |-> 0]
  /\ alone = {}

\* SyncDisplaysInfo::check_changed
check_changed(s, displays) ==
  [displays |-> displays,
   is_synced |-> s.is_synced /\ (displays = s.displays \/ ignored)]
-----------------------------------------------------------------------------
(* The service's thread: GenericService::run and its callback.             *)

\* run enters the callback while somebody is subscribed; the callback leaves when nobody is.
Enter ==
  /\ displayPc \in {"head", "loop"}
  /\ displayPc' = IF ~ok(display) THEN "head"
                  ELSE IF displayPc = "head" THEN "loop"
                  ELSE IF display.new_subscribes # {} THEN "callback" ELSE "check"
  /\ UNCHANGED <<screens, sync, ignored, holder, display, viewer, told, alone>>

\* The callback of snapshot: others are subscribed already.
ResendsForNewcomer == ~ignored /\ display.subscribes # {}

SnapshotCallback ==
  /\ displayPc = "callback"
  /\ \/ /\ ResendsForNewcomer
        /\ sync' = [sync EXCEPT !.is_synced = FALSE]
        /\ displayPc' = "bail"
     \/ /\ ~ResendsForNewcomer
        /\ displayPc' = "swap"
        /\ UNCHANGED sync
  /\ UNCHANGED <<screens, ignored, holder, display, viewer, told, alone>>

\* Drop for ServiceSwap; after `bail' the callback is left and entered again.
SwapDisplays ==
  /\ displayPc \in {"swap", "bail"}
  /\ display' = swap_new_subscribes(display)
  /\ alone' = IF displayPc = "swap" /\ ~ignored /\ display.subscribes = {}
              THEN alone \cup display.new_subscribes ELSE alone
  /\ displayPc' = IF displayPc = "swap" THEN "check" ELSE "head"
  /\ UNCHANGED <<screens, sync, ignored, holder, viewer, told>>

\* check_update_displays, which fails when the displays cannot be listed.
CheckDisplays ==
  /\ displayPc = "check"
  /\ \/ sync' = check_changed(sync, screens) /\ displayPc' = "send"
     \/ sync' = sync /\ displayPc' = "loop"
  /\ UNCHANGED <<screens, ignored, holder, display, viewer, told, alone>>

\* get_update_sync_displays, and the message to the old subscribers.
SendDisplays ==
  /\ displayPc = "send"
  /\ \/ sync.is_synced /\ UNCHANGED <<sync, told, alone>>
     \/ /\ ~sync.is_synced
        /\ sync' = [sync EXCEPT !.is_synced = TRUE]
        /\ told' = [c \in Conns |-> IF c \in display.subscribes THEN sync.displays ELSE told[c]]
        /\ alone' = {}
  /\ displayPc' = "loop"
  /\ UNCHANGED <<screens, ignored, holder, display, viewer>>

DisplayThread == Enter \/ SnapshotCallback \/ SwapDisplays \/ CheckDisplays \/ SendDisplays
-----------------------------------------------------------------------------
(* Connections, other threads and the system.                              *)

\* update_get_sync_displays_on_login: the list is updated, and then read.
LoginChecks(c) ==
  /\ viewer[c] = "none"
  /\ sync' = check_changed(sync, screens)
  /\ viewer' = [viewer EXCEPT ![c] = "checked"]
  /\ UNCHANGED <<screens, ignored, holder, display, displayPc, told, alone>>

LoginReads(c) ==
  /\ viewer[c] = "checked"
  /\ told' = [told EXCEPT ![c] = sync.displays]
  /\ viewer' = [viewer EXCEPT ![c] = "logged"]
  /\ UNCHANGED <<screens, sync, ignored, holder, display, displayPc, alone>>

JoinDisplay(c) ==
  /\ viewer[c] = "logged"
  /\ display' = on_subscribe(display, c, TRUE)
  /\ viewer' = [viewer EXCEPT ![c] = "subscribed"]
  /\ UNCHANGED <<screens, sync, ignored, holder, displayPc, told, alone>>

LeaveDisplay(c) ==
  /\ viewer[c] = "subscribed"
  /\ display' = on_unsubscribe(display, c)
  /\ viewer' = [viewer EXCEPT ![c] = "none"]
  /\ told' = [told EXCEPT ![c] = 0]
  /\ alone' = alone \ {c}
  /\ UNCHANGED <<screens, sync, ignored, holder, displayPc>>

\* check_displays_changed, called by a video service.
VideoChecks ==
  /\ sync' = check_changed(sync, screens)
  /\ sync' # sync
  /\ UNCHANGED <<screens, ignored, holder, display, displayPc, viewer, told, alone>>

ScreensChange ==
  /\ screens' \in Screens \ {screens}
  /\ UNCHANGED <<sync, ignored, holder, display, displayPc, viewer, told, alone>>

\* temp_ignore_displays_changed
Ignore ==
  /\ holder = "idle"
  /\ ignored' = TRUE /\ holder' = "holding"
  /\ UNCHANGED <<screens, sync, display, displayPc, viewer, told, alone>>

\* Its drop: the two stores.
StopIgnoring ==
  /\ holder = "holding"
  /\ ignored' = FALSE /\ holder' = "dropping"
  /\ UNCHANGED <<screens, sync, display, displayPc, viewer, told, alone>>

\* Mutant: the drop triggers no message.
TriggerNothing ==
  /\ holder = "dropping"
  /\ holder' = "idle"
  /\ UNCHANGED <<screens, sync, ignored, display, displayPc, viewer, told, alone>>

TriggerMessage ==
  /\ holder = "dropping"
  /\ sync' = [sync EXCEPT !.is_synced = FALSE]
  /\ holder' = "idle"
  /\ UNCHANGED <<screens, ignored, display, displayPc, viewer, told, alone>>

DisplayNext ==
  \/ DisplayThread
  \/ \E c \in Conns : LoginChecks(c) \/ LoginReads(c) \/ JoinDisplay(c) \/ LeaveDisplay(c)
  \/ VideoChecks \/ ScreensChange
  \/ Ignore \/ StopIgnoring \/ TriggerMessage

DisplaySpec == DisplayInit /\ [][DisplayNext]_displayVars
-----------------------------------------------------------------------------
\* Unless a message is due, every old subscriber was sent the current list, whoever found the
\* change first and also when messages were suspended meanwhile.  The exception is one that
\* became a subscriber when there was no other: run brings newcomers up to date only for the
\* sake of others, and relies on the list they got when they logged in, which may be older
\* than a message that was sent between (SyncDisplaysInfo, run).
DisplaysKnown ==
  holder = "idle" /\ sync.is_synced =>
    \A c \in display.subscribes \ alone : told[c] = sync.displays
=============================================================================
