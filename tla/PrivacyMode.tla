---------------------------- MODULE PrivacyMode ----------------------------
(***************************************************************************)
(* The privacy mode of the Windows server: PRIVACY_MODE with its two kinds *)
(* of implementation (privacy_mode.rs, privacy_mode/win_topmost_window.rs, *)
(* privacy_mode/win_virtual_display.rs), the thread of the input hooks     *)
(* (privacy_mode/win_input.rs) and the connections that ask for the mode   *)
(* (server/connection.rs).  An action is a section under the lock of       *)
(* PRIVACY_MODE; the thread of the hooks runs beside it.                   *)
(***************************************************************************)
EXTENDS Naturals

CONSTANTS PrivacyConns,  \* connection ids
          NoOwner,       \* INVALID_PRIVACY_MODE_CONN_ID
          Amyuni         \* the virtual display driver is Amyuni's: turning on is slow

ASSUME NoOwnerAssumption == NoOwner \notin PrivacyConns
ASSUME AmyuniAssumption == Amyuni \in BOOLEAN

\* "window": win_mag and win_exclude_from_capture, both win_topmost_window.
Impls == {"window", "virtual"}

VARIABLES
  mode,      \* PRIVACY_MODE: implementation, conn_id, whether displays are
             \* remembered, whether virtual displays were added
  screen,    \* the privacy window is shown, the physical displays are on, some
             \* virtual display is plugged in
  hook,      \* the hook thread: CUR_HOOK_THREAD_ID is 0 when it is "none"
  request,   \* where each connection is
  calls,     \* turn_on_privacy_sync calls that wait for the lock, with impl_key
  neglected  \* history: the implementations whose clean-up failed where the error is
             \* ignored, until they are turned off completely

privacyVars == <<mode, screen, hook, request, calls, neglected>>

\* PrivacyModeImpl::new.
NewMode(k) == [impl |-> k, owner |-> NoOwner, saved |-> FALSE, added |-> FALSE]

\* One type invariant for the module.
PrivacyTypeOK ==
  /\ mode \in [impl : Impls, owner : PrivacyConns \cup {NoOwner},
               saved : BOOLEAN, added : BOOLEAN]
  /\ screen \in [shown : BOOLEAN, physical : BOOLEAN, plugged : BOOLEAN]
  /\ hook \in {"none", "running", "leaving"}
  /\ request \in [PrivacyConns -> {"out", "idle", "sync", "waiting", "on", "bad",
                                   "failed", "undo", "closing", "closed"}]
  /\ calls \subseteq PrivacyConns \X Impls
  /\ neglected \subseteq Impls

PrivacyInit ==
  /\ mode \in {NewMode(k) : k \in Impls}
  /\ screen = [shown |-> FALSE, physical |-> TRUE, plugged |-> FALSE]
  /\ hook = "none"
  /\ request = [c \in PrivacyConns |-> "out"]
  /\ calls = {}
  /\ neglected = {}
-----------------------------------------------------------------------------
(* Turning off.  A value `p' holds mode, screen, hook and neglected.       *)

Now == [mode |-> mode, screen |-> screen, hook |-> hook, neglected |-> neglected]

Becomes(p) ==
  /\ mode' = p.mode /\ screen' = p.screen
  /\ hook' = p.hook /\ neglected' = p.neglected

\* unhook: asks the hook thread to leave.
unhook(h) == IF h = "none" THEN "none" ELSE "leaving"

\* restore: the remembered displays are set again, if Windows takes the settings
\* (allow_err!); the virtual displays that were added are plugged out, and all of
\* them if none was.
Restored(s, m) == {[s EXCEPT !.physical = on, !.plugged = FALSE] :
                     on \in {s.physical, s.physical \/ m.saved}}

Cleaned(p) == IF p.mode.impl = "window" THEN {[p.screen EXCEPT !.shown = FALSE]}
                                        ELSE Restored(p.screen, p.mode)

\* turn_off_privacy of the current implementation, once the id is accepted, when it
\* returns Ok: displays that were not set again are forgotten all the same.
TurnedOff(p) ==
  {[ mode    |-> NewMode(p.mode.impl),
     screen  |-> s,
     hook    |-> unhook(p.hook),
     neglected |-> IF p.mode.impl = "virtual" /\ ~s.physical
                  THEN p.neglected \cup {"virtual"} ELSE p.neglected \ {p.mode.impl} ] :
     s \in Cleaned(p)}

\* When it returns an error: the message of unhook cannot be posted, or the privacy
\* window is not found after it was.
TurnOffErrors(p) ==
  {p : h \in {p.hook} \ {"none"}}
  \cup IF p.mode.impl = "window" THEN {[p EXCEPT !.hook = unhook(p.hook)]} ELSE {}

\* clear, Drop and TurnOnGuard call turn_off_privacy and ignore its error.
Undone(p) ==
  TurnedOff(p) \cup {[q EXCEPT !.neglected = @ \cup {p.mode.impl}] : q \in TurnOffErrors(p)}

\* Drop of PrivacyModeImpl; with the window's, a process of its own that shows it ends.
Dropped(p) ==
  LET off == IF p.mode.owner = NoOwner THEN {p} ELSE Undone(p)
  IN  off \cup {[q EXCEPT !.screen.shown = FALSE] : q \in {q \in off : q.mode.impl = "window"}}

\* Another implementation takes the place of one that is dropped.
Replaced(p, k) == {[q EXCEPT !.mode = NewMode(k)] : q \in Dropped(p)}

\* check_off_conn_id.
MayTurnOff(m, id) == m.owner = NoOwner \/ id = NoOwner \/ m.owner = id

\* The caller logs or sends the error of turn_off_privacy; the mode stays as it is.
turn_off_privacy(id) ==
  \E p \in IF MayTurnOff(mode, id) THEN TurnedOff(Now) \cup TurnOffErrors(Now) ELSE {Now} :
    Becomes(p)
-----------------------------------------------------------------------------
(* Turning on: the outcomes of turn_on_privacy of an implementation that is *)
(* off, each with what turn_on_privacy_sync returns.                       *)

Outcome(p, result) == [after |-> p, result |-> result]

\* Before hook() runs, a thread that was asked to leave may have left.
HookLeft(h) == IF h = "leaving" THEN {"leaving", "none"} ELSE {h}

\* The privacy window is missing, cannot be started or is not found; the hooks are
\* refused, or those of a thread that has not left yet are found; all went well.
WindowOutcomes(p, c) ==
  {Outcome(p, r) : r \in {"plugin", "failed"}}
  \cup {Outcome([p EXCEPT !.hook = h], "failed") : h \in HookLeft(p.hook)}
  \cup {Outcome([p EXCEPT !.mode.owner = c, !.screen.shown = TRUE, !.hook = "running"],
                "on") : h \in HookLeft(p.hook) \cap {"none"}}

\* What set_displays and ensure_virtual_display remember.
Remembered(p) == [p EXCEPT !.mode.saved = TRUE, !.mode.added = @ \/ ~p.screen.plugged,
                           !.screen.plugged = TRUE]

\* Mutated form of GuardOutcomes: an early return leaves what was done.
UnguardedOutcomes(p) ==
  {Outcome(q, "failed") :
     q \in {[p EXCEPT !.mode.saved = TRUE],
            Remembered(p),
            [Remembered(p) EXCEPT !.screen.physical = FALSE]}}

\* The steps before the displays' settings are committed, and the one after, may
\* fail: TurnOnGuard turns the mode off again, if it can.
GuardOutcomes(p) ==
  {Outcome(u, "failed") :
     u \in UNION {Undone(q) : q \in {[p EXCEPT !.mode.saved = TRUE],
                                     Remembered(p),
                                     [Remembered(p) EXCEPT !.screen.physical = FALSE]}}}

\* No virtual display is supported, or no physical one is on: set_displays forgets
\* what it remembered.  The mode is on although its hooks are not (allow_err!):
\* hook() was refused, or found the thread it replaces.
VirtualOutcomes(p, c) ==
  {Outcome(p, "failed")}
  \cup IF ~p.screen.physical THEN {Outcome([p EXCEPT !.mode.saved = FALSE], "failed")} ELSE
    GuardOutcomes(p)
    \cup {Outcome([Remembered(p) EXCEPT !.mode.owner = c, !.screen.physical = FALSE,
                                        !.hook = g], "on") :
            g \in HookLeft(p.hook) \cup {"running" : h \in HookLeft(p.hook) \cap {"none"}}}

TurnOnOutcomes(p, c) ==
  IF p.mode.impl = "window" THEN WindowOutcomes(p, c) ELSE VirtualOutcomes(p, c)

\* turn_on_privacy_sync: refused if the mode is somebody else's, nothing to do if it
\* is on already; another implementation is cleared and replaced first.
turn_on_privacy_sync(c, k) ==
  IF mode.owner \notin {NoOwner, c} THEN {Outcome(Now, "failed")}
  ELSE IF mode.owner = c /\ mode.impl = k THEN {Outcome(Now, "on")}
  ELSE IF mode.impl = k THEN TurnOnOutcomes(Now, c)
  ELSE UNION {TurnOnOutcomes(p, c) : p \in UNION {Replaced(q, k) : q \in Undone(Now)}}
-----------------------------------------------------------------------------
(* Connections.                                                            *)

\* check_privacy_mode_on at login.
LogsIn(c) ==
  /\ request[c] = "out"
  /\ request' = [request EXCEPT ![c] = IF mode.owner = NoOwner THEN "idle" ELSE "closed"]
  /\ UNCHANGED <<mode, screen, hook, calls, neglected>>

\* turn_on_privacy, up to the lock of turn_on_privacy_sync: with a slow
\* implementation in a thread of its own.  A connection has one such thread at most.
AsksOn(c, k) ==
  /\ request[c] = "idle"
  /\ \A t \in calls : t[1] # c
  /\ calls' = calls \cup {<<c, k>>}
  /\ request' = [request EXCEPT ![c] =
                   IF mode.impl = "virtual" /\ Amyuni THEN "waiting" ELSE "sync"]
  /\ UNCHANGED <<mode, screen, hook, neglected>>

\* The call gets the lock; its result counts if the connection still waits for it.
TurnsOn(c, k) ==
  /\ <<c, k>> \in calls
  /\ calls' = calls \ {<<c, k>>}
  /\ \E o \in turn_on_privacy_sync(c, k) :
       /\ Becomes(o.after)
       /\ request' = IF request[c] \in {"sync", "waiting"}
                     THEN [request EXCEPT ![c] = IF o.result = "plugin" THEN "idle"
                                                 ELSE o.result]
                     ELSE request

\* 7.5 s are over.
TimesOut(c) ==
  /\ request[c] = "waiting"
  /\ request' = [request EXCEPT ![c] = "failed"]
  /\ UNCHANGED <<mode, screen, hook, calls, neglected>>

\* check_privacy_mode_err: only the window's capturer is tested.
TestsCapturer(c) ==
  /\ request[c] = "on"
  /\ \E r \in {"idle"} \cup IF mode.impl = "window" THEN {"bad"} ELSE {} :
       request' = [request EXCEPT ![c] = r]
  /\ UNCHANGED <<mode, screen, hook, calls, neglected>>

\* After an error: is_in_privacy_mode.
FindsOn(c) ==
  /\ request[c] = "failed"
  /\ request' = [request EXCEPT ![c] = IF mode.owner = NoOwner THEN "idle" ELSE "undo"]
  /\ UNCHANGED <<mode, screen, hook, calls, neglected>>

\* The calls of turn_off_privacy_to_msg: after an error with no id, after a failed
\* test, at the peer's request and when the connection ends with the mode on.
Undoes(c) ==
  /\ request[c] = "undo"
  /\ turn_off_privacy(NoOwner)
  /\ request' = [request EXCEPT ![c] = "idle"]
  /\ UNCHANGED <<calls>>

AsksOff(c) ==
  /\ request[c] \in {"idle", "bad"}
  /\ turn_off_privacy(c)
  /\ request' = [request EXCEPT ![c] = "idle"]
  /\ UNCHANGED <<calls>>

Closes(c) ==
  /\ request[c] = "idle"
  /\ request' = [request EXCEPT ![c] = IF mode.owner = c THEN "closing" ELSE "closed"]
  /\ UNCHANGED <<mode, screen, hook, calls, neglected>>

ClosesMode(c) ==
  /\ request[c] = "closing"
  /\ turn_off_privacy(c)
  /\ request' = [request EXCEPT ![c] = "closed"]
  /\ UNCHANGED <<calls>>
-----------------------------------------------------------------------------
(* Everyone else.                                                          *)

\* Ctrl+P on the local keyboard, Data::Close of the ipc, reset_all of the displays.
LocalOff ==
  /\ turn_off_privacy(NoOwner)
  /\ UNCHANGED <<request, calls>>

\* switch: the option privacy-mode-impl-key.  The implementation that is replaced
\* turns itself off when it is dropped.
switch_impl(k) ==
  /\ mode.impl # k
  /\ \E p \in Replaced(Now, k) : Becomes(p)
  /\ UNCHANGED <<request, calls>>

\* The hook thread gets the message of unhook.
HookThreadExits ==
  /\ hook = "leaving"
  /\ hook' = "none"
  /\ UNCHANGED <<mode, screen, request, calls, neglected>>

\* A peer asks for a virtual display of its own.
PeerPlugs ==
  /\ mode.owner = NoOwner
  /\ ~screen.plugged
  /\ screen' = [screen EXCEPT !.plugged = TRUE]
  /\ UNCHANGED <<mode, hook, request, calls, neglected>>

PrivacyNext ==
  \/ \E c \in PrivacyConns :
       \/ LogsIn(c) \/ TimesOut(c) \/ TestsCapturer(c) \/ FindsOn(c) \/ Undoes(c)
       \/ AsksOff(c) \/ Closes(c) \/ ClosesMode(c)
       \/ \E k \in Impls : AsksOn(c, k) \/ TurnsOn(c, k)
  \/ LocalOff
  \/ \E k \in Impls : switch_impl(k)
  \/ HookThreadExits
  \/ PeerPlugs

PrivacySpec == PrivacyInit /\ [][PrivacyNext]_privacyVars
-----------------------------------------------------------------------------
(* Properties.                                                             *)

\* However turning on or off fails half-way, implementations are switched and requests
\* overlap, the window is shown, the physical displays are off and local input is
\* held back only while some connection owns the mode of that implementation: what
\* turn_on_privacy has done is undone by TurnOnGuard, clear, Drop or turn_off_privacy.
\* An effect outlives its owner only if a clean-up of that implementation failed where
\* the code ignores the error, and only until the implementation is turned off again.
EffectsHaveOwner ==
  /\ "window" \notin neglected => (screen.shown <=> (mode.owner # NoOwner /\ mode.impl = "window"))
  /\ "virtual" \notin neglected =>
       /\ ~screen.physical <=> (mode.owner # NoOwner /\ mode.impl = "virtual")
       /\ ~screen.physical => mode.saved
  /\ mode.added => screen.plugged
  /\ hook = "running" => mode.owner # NoOwner \/ neglected # {}
=============================================================================
