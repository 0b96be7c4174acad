------------------------------ MODULE KeyInput ------------------------------
(***************************************************************************)
(* The keys remote users hold down: handle_key_ and fix_key_down_timeout   *)
(* of src/server/input_service.rs, and the input thread that each          *)
(* connection of src/server/connection.rs feeds.                           *)
(*                                                                         *)
(* A key pressed for a peer must come up again when the peer is gone       *)
(* without having released it.  KEYS_DOWN records what is held; a loop     *)
(* releases what is held for too long, the cursor service whatever is held *)
(* when its last subscriber leaves, and so does the end of the process.    *)
(*                                                                         *)
(* A key of the model is pressed in one way: through rdev (the map and     *)
(* translate modes), as a hotkey between Windows machines, or in the       *)
(* legacy mode as a control key, a function key or a character.  Left out: *)
(* macOS, where a queue runs the handlers, Wayland, where the map mode     *)
(* records nothing, sequences, which hold no key, and a portable service   *)
(* that takes the events over.                                             *)
(***************************************************************************)
EXTENDS Naturals, Sequences

CONSTANTS KeyConns,    \* connections (their ids are never reused)
          RdevKeys, ControlKeys, CharKeys,
          HotKeys,       \* Win2winHotkey: shortcuts the client has not translated
          FunctionKeys,  \* CtrlAltDel and LockScreen, which no key stands for
          Modifiers,   \* keys that modify others
          NoKey,       \* none
          MaxInputs    \* bound on the events the peers send

Keys == RdevKeys \cup ControlKeys \cup CharKeys \cup HotKeys \cup FunctionKeys

ASSUME ModifiersAssumption == Modifiers \subseteq RdevKeys \cup ControlKeys
ASSUME NoKeyAssumption == NoKey \notin Keys
ASSUME MaxInputsAssumption == MaxInputs \in Nat \ {0}

VARIABLES
  linux,              \* cfg!(target_os = "linux"), or else Windows
  open,               \* connections that live
  pressed_modifiers,  \* Connection::pressed_modifiers
  tx_input,           \* the channel to each input thread
  sent,               \* number of events sent so far
  input,              \* where the input thread of each connection is
  keys_down,          \* KEYS_DOWN
  aged,               \* records of it older than the limit
  held,               \* the keys that are down in the system
  fixing,             \* calls of fix_key_down_timeout: what is left to do
  subscribed,         \* the cursor service has run: may_reset of its thread
  end,                \* how far fix_key_down_timeout_at_exit has come
  unrecorded          \* history: held keys of which KEYS_DOWN knows nothing

connVars == <<linux, open, pressed_modifiers>>
recordVars == <<keys_down, aged>>
inputVars == <<tx_input, sent>>
keyVars == <<connVars, inputVars, input, recordVars, held, fixing, subscribed, end,
             unrecorded>>

EXITING == end # "no"

\* The threads that call fix_key_down_timeout.
Fixers == {"loop", "cursor", "exit"}
NotFixing == [todo |-> {}, key |-> NoKey]

\* A key goes down or up, or is pressed: both.
Events == {e \in [key : Keys, down : BOOLEAN, press : BOOLEAN] : ~(e.down /\ e.press)}
NoEvent == [key |-> NoKey, down |-> FALSE, press |-> FALSE]

KeyInit ==
  /\ linux \in BOOLEAN
  /\ open = {}
  /\ pressed_modifiers = [c \in KeyConns |-> {}]
  /\ tx_input = [c \in KeyConns |-> <<>>]
  /\ sent = 0
  /\ input = [c \in KeyConns |-> [at |-> "new", event |-> NoEvent]]
  /\ keys_down = {} /\ aged = {} /\ held = {}
  /\ fixing = [f \in Fixers |-> NotFixing]
  /\ subscribed = FALSE
  /\ end = "no"
  /\ unrecorded = {}
-----------------------------------------------------------------------------
(* The connection.                                                         *)

\* Connection::start: an input thread of its own.
ConnOpens(c) ==
  /\ end # "gone"
  /\ input[c].at = "new"
  /\ open' = open \cup {c}
  /\ input' = [input EXCEPT ![c].at = "recv"]
  /\ UNCHANGED <<linux, pressed_modifiers, inputVars, recordVars, held, fixing, subscribed,
                 end, unrecorded>>

\* A KeyEvent of the peer.  On Linux a key that goes down counts as pressed and
\* released, unless it is a modifier.
KeyEvent(c) ==
  /\ end # "gone"
  /\ c \in open
  /\ sent < MaxInputs
  /\ sent' = sent + 1
  /\ \E e \in Events :
       LET is_press == IF linux THEN (e.press \/ e.down) /\ e.key \notin Modifiers
                       ELSE e.press
       IN /\ tx_input' = [tx_input EXCEPT ![c] = Append(@, [e EXCEPT !.press = is_press])]
          /\ pressed_modifiers' =
               IF e.key \notin Modifiers \cap RdevKeys THEN pressed_modifiers
               ELSE [pressed_modifiers EXCEPT
                       ![c] = IF is_press THEN @ \cup {e.key} ELSE @ \ {e.key}]
  /\ UNCHANGED <<linux, open, input, recordVars, held, fixing, subscribed, end, unrecorded>>

\* Drop for Connection: release_pressed_modifiers, and the channel has no sender.
ConnCloses(c) ==
  /\ end # "gone"
  /\ c \in open
  /\ open' = open \ {c}
  /\ held' = held \ pressed_modifiers[c]
  /\ unrecorded' = unrecorded \ pressed_modifiers[c]
  /\ pressed_modifiers' = [pressed_modifiers EXCEPT ![c] = {}]
  /\ UNCHANGED <<linux, inputVars, input, recordVars, fixing, subscribed, end>>
-----------------------------------------------------------------------------
(* The input thread of a connection.                                       *)

\* record_pressed_key
record_pressed_key(k, down) ==
  /\ keys_down' = IF down THEN keys_down \cup {k} ELSE keys_down \ {k}
  /\ aged' = aged \ {k}

\* Keys are released, and k goes down or up in the system.  One that goes down while
\* it has no record, or while the process ends, is nobody's to release.
Simulate(released, k, down) ==
  LET up == IF down THEN released ELSE released \cup {k}
      pressed == IF down THEN {k} ELSE {}
  IN /\ held' = (held \ up) \cup pressed
     /\ unrecorded' = (unrecorded \ (up \cup {k}))
                    \cup {p \in pressed : p \notin keys_down' \/ EXITING}

\* handle_key_ is called with an event, and ignores it while the process ends.
handle_key(e) ==
  IF EXITING THEN [at |-> "recv", event |-> NoEvent] ELSE [at |-> "record", event |-> e]

\* handle_input: the next message, also one left in the channel of a connection
\* that is gone.
Recv(c) ==
  /\ end # "gone"
  /\ input[c].at = "recv"
  /\ tx_input[c] # <<>>
  /\ LET e == Head(tx_input[c])
     IN input' = [input EXCEPT ![c] = handle_key([e EXCEPT !.down = @ \/ e.press])]
  /\ tx_input' = [tx_input EXCEPT ![c] = Tail(@)]
  /\ UNCHANGED <<connVars, sent, recordVars, held, fixing, subscribed, end, unrecorded>>

\* Disconnected, and nothing left.
InputEnds(c) ==
  /\ end # "gone"
  /\ input[c].at = "recv"
  /\ tx_input[c] = <<>>
  /\ c \notin open
  /\ input' = [input EXCEPT ![c].at = "ended"]
  /\ UNCHANGED <<connVars, inputVars, recordVars, held, fixing, subscribed, end, unrecorded>>

\* Back from handle_key_: a key that was pressed is handled again, now going up.
Returned(c) ==
  LET e == input[c].event
  IN IF e.press /\ e.down THEN handle_key([e EXCEPT !.down = FALSE])
     ELSE [at |-> "recv", event |-> NoEvent]

\* sim_rdev_rawkey_position and _virtual: the record comes first.
RdevRecords(c) ==
  /\ end # "gone"
  /\ input[c].at = "record"
  /\ input[c].event.key \in RdevKeys
  /\ record_pressed_key(input[c].event.key, input[c].event.down)
  /\ input' = [input EXCEPT ![c].at = "simulate"]
  /\ UNCHANGED <<connVars, inputVars, held, fixing, subscribed, end, unrecorded>>

\* simulate_
RdevSimulates(c) ==
  /\ end # "gone"
  /\ input[c].at = "simulate"
  /\ UNCHANGED recordVars
  /\ Simulate({}, input[c].event.key, input[c].event.down)
  /\ input' = [input EXCEPT ![c] = Returned(c)]
  /\ UNCHANGED <<connVars, inputVars, fixing, subscribed, end>>

\* fix_modifiers: the modifiers an event does not list are released, whoever
\* pressed them, and without a look at KEYS_DOWN.
fix_modifiers(listed, k) == Modifiers \ (listed \cup {k})

\* legacy_keyboard_mode, with ENIGO locked.  A key going down first releases the
\* modifiers the event does not list (the ones it lists are pressed and released
\* again, unless they are down); a character that no key stands for is typed as a
\* sequence and holds nothing.
LegacyKey(c) ==
  LET k == input[c].event.key
      down == input[c].event.down
  IN /\ end # "gone"
     /\ input[c].at = "record"
     /\ k \in ControlKeys \cup CharKeys
     /\ record_pressed_key(k, down)
     /\ \E listed \in IF down THEN SUBSET Modifiers ELSE {Modifiers} :
          LET released == fix_modifiers(listed, k)
          IN \/ Simulate(released, k, down)
             \/ /\ k \in CharKeys /\ down
                /\ held' = held \ released
                /\ unrecorded' = unrecorded \ released
     /\ input' = [input EXCEPT ![c] = Returned(c)]
     /\ UNCHANGED <<connVars, inputVars, fixing, subscribed, end>>

\* legacy_keyboard_mode of a function key: going down it presses the modifiers that
\* the event lists and that are not down, as any key does, and is_function_key returns
\* before release_keys.
FunctionKey(c) ==
  /\ end # "gone"
  /\ input[c].at = "record"
  /\ input[c].event.key \in FunctionKeys
  /\ \E listed \in IF input[c].event.down THEN SUBSET Modifiers ELSE {Modifiers} :
       LET released == fix_modifiers(listed, NoKey)
           pressed == IF input[c].event.down THEN listed \ held ELSE {}
       IN /\ held' = (held \ released) \cup pressed
          /\ unrecorded' = (unrecorded \ released)
                              \cup {p \in pressed : p \notin keys_down \/ EXITING}
  /\ input' = [input EXCEPT ![c] = Returned(c)]
  /\ UNCHANGED <<connVars, inputVars, recordVars, fixing, subscribed, end>>

\* simulate_win2win_hotkey, on Windows only, records nothing: the shortcut is typed in
\* full, or else its key goes down and up with the client's.
HotKey(c) ==
  /\ end # "gone"
  /\ input[c].at = "record"
  /\ input[c].event.key \in HotKeys
  /\ UNCHANGED recordVars
  /\ \/ ~linux /\ Simulate({}, input[c].event.key, input[c].event.down)
     \/ (linux \/ input[c].event.down) /\ UNCHANGED <<held, unrecorded>>
  /\ input' = [input EXCEPT ![c] = Returned(c)]
  /\ UNCHANGED <<connVars, inputVars, fixing, subscribed, end>>
-----------------------------------------------------------------------------
(* Releasing what nobody released: fix_key_down_timeout.                   *)

\* Time passes: a record exceeds 360 s.
RecordAges(k) ==
  /\ end # "gone"
  /\ k \in keys_down \ aged
  /\ aged' = aged \cup {k}
  /\ UNCHANGED <<connVars, inputVars, input, keys_down, held, fixing, subscribed, end,
                 unrecorded>>

\* fix_key_down_timeout starts: the records are cloned and unlocked; the ages that
\* count are the cloned ones.
fix_key_down_timeout(f, force) ==
  /\ fixing[f] = NotFixing
  /\ fixing' = [fixing EXCEPT ![f].todo = IF force THEN keys_down ELSE aged]

\* Mutated form of LoopFixes: the loop rests while nobody is connected.
LoopFixesWhileOpen ==
  /\ end # "gone"
  /\ open # {}
  /\ aged # {}
  /\ fix_key_down_timeout("loop", FALSE)
  /\ UNCHANGED <<connVars, inputVars, input, recordVars, held, subscribed, end, unrecorded>>

\* fix_key_down_timeout_loop, every 10 s.
LoopFixes ==
  /\ end # "gone"
  /\ aged # {}
  /\ fix_key_down_timeout("loop", FALSE)
  /\ UNCHANGED <<connVars, inputVars, input, recordVars, held, subscribed, end, unrecorded>>

\* ServiceTmpl::repeat of the cursor service, with subscribers.
CursorRuns ==
  /\ end # "gone"
  /\ open # {}
  /\ fixing["cursor"] = NotFixing
  /\ ~subscribed
  /\ subscribed' = TRUE
  /\ UNCHANGED <<connVars, inputVars, input, recordVars, held, fixing, end, unrecorded>>

\* StateCursor::reset: the last subscriber has left.
CursorResets ==
  /\ end # "gone"
  /\ open = {}
  /\ subscribed
  /\ subscribed' = FALSE
  /\ fix_key_down_timeout("cursor", TRUE)
  /\ UNCHANGED <<connVars, inputVars, input, recordVars, held, end, unrecorded>>

\* fix_key_down_timeout_at_exit: handle_key_ stops, ...
ExitStarts ==
  /\ end = "no"
  /\ end' = "exiting"
  /\ UNCHANGED <<connVars, inputVars, input, recordVars, held, fixing, subscribed,
                 unrecorded>>

\* ... and all that is down is released.
ExitFixes ==
  /\ end = "exiting"
  /\ end' = "fixing"
  /\ fix_key_down_timeout("exit", TRUE)
  /\ UNCHANGED <<connVars, inputVars, input, recordVars, held, subscribed, unrecorded>>

\* The loop over the clone: record_pressed_key, ...
FixRemoves(f) ==
  /\ end # "gone"
  /\ fixing[f].key = NoKey
  /\ \E k \in fixing[f].todo :
       /\ record_pressed_key(k, FALSE)
       /\ fixing' = [fixing EXCEPT ![f] = [todo |-> @.todo \ {k}, key |-> k]]
  /\ UNCHANGED <<connVars, inputVars, input, held, subscribed, end, unrecorded>>

\* ... release_record_key: record_key_to_key knows no key for the record of a
\* character, which record_key_is_chr does not accept.
FixReleases(f) ==
  /\ end # "gone"
  /\ fixing[f].key # NoKey
  /\ UNCHANGED recordVars
  /\ IF fixing[f].key \in CharKeys THEN UNCHANGED <<held, unrecorded>>
     ELSE Simulate({}, fixing[f].key, FALSE)
  /\ fixing' = [fixing EXCEPT ![f].key = NoKey]
  /\ UNCHANGED <<connVars, inputVars, input, subscribed, end>>

\* Keys that a thread is about to press or release.
UnderWay == {input[c].event.key : c \in {d \in KeyConns : input[d].at = "simulate"}}
              \cup {fixing[f].key : f \in Fixers}

\* std::process::exit, in the middle of whatever the other threads do.
ProcessExits ==
  /\ end = "fixing"
  /\ fixing["exit"] = NotFixing
  /\ end' = "gone"
  /\ open' = {}
  /\ unrecorded' = unrecorded \cup (held \cap UnderWay)
  /\ UNCHANGED <<linux, pressed_modifiers, inputVars, input, recordVars, held, fixing,
                 subscribed>>

Fixes ==
  \/ LoopFixes \/ CursorResets \/ ExitFixes
  \/ \E f \in Fixers : FixRemoves(f) \/ FixReleases(f)

InputThread(c) ==
  \/ Recv(c) \/ InputEnds(c) \/ RdevRecords(c) \/ RdevSimulates(c) \/ LegacyKey(c)
  \/ FunctionKey(c) \/ HotKey(c)

KeyNext ==
  \/ \E c \in KeyConns : ConnOpens(c) \/ KeyEvent(c) \/ ConnCloses(c) \/ InputThread(c)
  \/ Fixes
  \/ CursorRuns
  \/ ExitStarts
  \/ ProcessExits
  \/ \E k \in Keys : RecordAges(k)

KeySpec == KeyInit /\ [][KeyNext]_keyVars

\* Every thread runs, and time passes.
KeyFairness ==
  /\ \A c \in KeyConns : WF_keyVars(InputThread(c))
  /\ WF_keyVars(LoopFixes)
  /\ WF_keyVars(CursorResets)
  /\ WF_keyVars(ExitFixes)
  /\ \A f \in Fixers : WF_keyVars(FixRemoves(f) \/ FixReleases(f))
  /\ \A k \in Keys : WF_keyVars(RecordAges(k))
-----------------------------------------------------------------------------
(* Properties.                                                             *)

\* Once no peer is connected, no key stays down, whatever was still in the channel
\* of an input thread when its connection ended.  fix_key_down_timeout is there for
\* this.  It cannot release what KEYS_DOWN does not tell it: characters of the legacy
\* mode, whose record record_key_to_key does not map to a key; hotkeys, which have no
\* record; modifiers that a function key has pressed; and keys that went down or up
\* while another thread removed their record or ended the process.
KeysComeUp ==
  KeyFairness => (<>[](open = {}) => <>[](held \subseteq CharKeys \cup unrecorded))
=============================================================================
