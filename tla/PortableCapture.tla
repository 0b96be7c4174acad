-------------------------- MODULE PortableCapture --------------------------
(***************************************************************************)
(* The shared memory of src/server/portable_service.rs: run_capture of the *)
(* service process writes frames of the primary display into it, the       *)
(* CapturerPortable of the video service reads them.  No lock is shared by *)
(* the two processes: an action accesses one part of the memory.           *)
(*                                                                         *)
(* Frames are what they show.  The frame rate (timeout_ms) is left out,    *)
(* except that the client writes it together with the fields beside it.    *)
(***************************************************************************)
EXTENDS Naturals

CONSTANTS PrimaryScreens,    \* what the primary display can be: its index and its size
          NoScreen,
          CounterMax,        \* i32::MAX
          MaxScreenChanges,  \* bound: changes of the primary display
          MaxCaptureErrors   \* bound: captures that fail for good

ASSUME ScreensAssumption == PrimaryScreens \subseteq [index : {0, 1}, size : Nat \ {0}]
ASSUME NoScreenAssumption == NoScreen \notin PrimaryScreens
ASSUME CounterMaxAssumption == CounterMax \in Nat \ {0}

VARIABLES
  mem,       \* CapturerPara, FrameInfo with the frame, WOULDBLOCK, the frame counter
  server,    \* run_capture
  client,    \* the video service with its CapturerPortable
  screen,    \* the primary display
  request,   \* history: what became of the client's latest request for a capturer
  changes, errors

captureVars == <<mem, server, client, screen, request, changes, errors>>

\* After memset(0).
Zeroed == [recreate |-> FALSE, display |-> 0, wouldblock |-> FALSE, w |-> 0, r |-> 0,
           frame |-> NoScreen]

CaptureInit ==
  /\ screen \in PrimaryScreens
  /\ mem = Zeroed
  /\ server = [at |-> "para", capturer |-> NoScreen, current_display |-> 0, last_display |-> 0,
               reread |-> 0, first_frame_captured |-> FALSE, iw |-> 0]
  /\ client = [at |-> "new", display |-> screen, shown |-> NoScreen, recreate |-> FALSE,
               current_display |-> 0]
  /\ request = "none"
  /\ changes = 0
  /\ errors = 0

\* The display an index stands for: the primary one, or another.
DisplayAt(i) == IF i = screen.index THEN screen ELSE [index |-> i, size |-> 1]

serverOnly == <<client, screen, changes>>
clientOnly == <<server, screen, changes, errors>>
-----------------------------------------------------------------------------
(* run_capture.                                                            *)

\* c = None
Dropped == [server EXCEPT !.at = "para", !.capturer = NoScreen, !.last_display = 0,
                          !.first_frame_captured = FALSE]

ServerGoes(to) == server' = [server EXCEPT !.at = to]

\* The head of the loop: a capturer is dropped when another one is asked for, and the
\* parameters are read again.
ReadsPara ==
  /\ server.at = "para"
  /\ IF server.capturer = NoScreen
     THEN /\ server' = [server EXCEPT !.at = "create", !.current_display = mem.display]
          /\ request' = IF request = "posted" THEN "taken" ELSE request
     ELSE /\ server' = IF mem.recreate \/ mem.display # server.last_display
                       THEN Dropped
                       ELSE [server EXCEPT !.at = "gate"]
          /\ UNCHANGED request
  /\ UNCHANGED <<mem, serverOnly, errors>>

CreatesCapturer ==
  /\ server.at = "create"
  /\ server' = [server EXCEPT !.at = "reread", !.capturer = DisplayAt(server.current_display),
                              !.last_display = server.current_display, !.current_display = 0,
                              !.first_frame_captured = FALSE]
  /\ UNCHANGED <<mem, request, serverOnly, errors>>

\* set_para(recreate: false), with the other fields as they are: they are read...
RereadsPara ==
  /\ server.at = "reread"
  /\ server' = [server EXCEPT !.at = "set", !.reread = mem.display]
  /\ UNCHANGED <<mem, request, serverOnly, errors>>

\* ... and written.  A request posted since the head of the loop is lost, unless the
\* server goes on to find its display.
SetsPara ==
  /\ server.at = "set"
  /\ mem' = [mem EXCEPT !.recreate = FALSE, !.display = server.reread]
  /\ request' = IF /\ request = "posted"
                   /\ server.reread \in {server.last_display, 1 - mem.display}
                THEN "lost" ELSE request
  /\ server' = [server EXCEPT !.at = "gate", !.reread = 0]
  /\ UNCHANGED <<serverOnly, errors>>

\* counter_equal: the client has read the last frame.
Gate ==
  /\ server.at = "gate"
  /\ ServerGoes(IF server.first_frame_captured /\ mem.w # mem.r THEN "para" ELSE "frame")
  /\ UNCHANGED <<mem, request, serverOnly, errors>>

CapturesFrame ==
  /\ server.at = "frame"
  /\ mem' = [mem EXCEPT !.frame = server.capturer, !.wouldblock = TRUE]
  /\ ServerGoes("count")
  /\ UNCHANGED <<request, serverOnly, errors>>

\* increase_counter: a read and a write.
ReadsCounter ==
  /\ server.at = "count"
  /\ server' = [server EXCEPT !.at = "increase", !.iw = mem.w]
  /\ UNCHANGED <<mem, request, serverOnly, errors>>

increase_counter ==
  /\ server.at = "increase"
  /\ mem' = [mem EXCEPT !.w = IF server.iw = CounterMax THEN 0 ELSE server.iw + 1]
  /\ server' = [server EXCEPT !.at = "para", !.first_frame_captured = TRUE, !.iw = 0]
  /\ UNCHANGED <<request, serverOnly, errors>>

\* Nothing has changed on the screen.
WouldBlock ==
  /\ server.at = "frame"
  /\ mem' = [mem EXCEPT !.wouldblock = TRUE]
  /\ ServerGoes("para")
  /\ UNCHANGED <<request, serverOnly, errors>>

\* No capturer could be created; the desktop has changed; DXGI has failed too often,
\* which is told to the client.
CaptureFails ==
  /\ errors < MaxCaptureErrors
  /\ errors' = errors + 1
  /\ \/ /\ server.at = "create"
        /\ server' = [server EXCEPT !.at = "para", !.current_display = 0]
        /\ UNCHANGED mem
     \/ /\ server.at = "frame"
        /\ server' = Dropped
        /\ mem' \in {mem, [mem EXCEPT !.wouldblock = FALSE]}
  /\ UNCHANGED <<request, serverOnly>>
-----------------------------------------------------------------------------
(* The video service.                                                      *)

ClientGoes(to) == client' = [client EXCEPT !.at = to]

\* CapturerPortable::new: memset, then the parameters; the size is that of the display
\* with the index.
ClearsMemory ==
  /\ client.at = "new"
  /\ mem' = Zeroed
  /\ ClientGoes("post")
  /\ UNCHANGED <<request, clientOnly>>

\* Mutated form of PostsPara: no other capturer is asked for.
PostsDisplay ==
  /\ client.at = "post"
  /\ mem' = [mem EXCEPT !.display = client.display.index, !.wouldblock = TRUE]
  /\ client' = [client EXCEPT !.at = "poll", !.display = DisplayAt(@.index)]
  /\ request' = "posted"
  /\ UNCHANGED clientOnly

PostsPara ==
  /\ client.at = "post"
  /\ mem' = [mem EXCEPT !.recreate = TRUE, !.display = client.display.index,
                        !.wouldblock = TRUE]
  /\ client' = [client EXCEPT !.at = "poll", !.display = DisplayAt(@.index)]
  /\ request' = "posted"
  /\ UNCHANGED clientOnly

\* frame: a new timeout is written with the fields read before.
ReadsTimeout ==
  /\ client.at = "poll"
  /\ client' = [client EXCEPT !.at = "timeout", !.recreate = mem.recreate,
                              !.current_display = mem.display]
  /\ UNCHANGED <<mem, request, clientOnly>>

WritesTimeout ==
  /\ client.at = "timeout"
  /\ mem' = [mem EXCEPT !.recreate = client.recreate, !.display = client.current_display]
  /\ client' = [client EXCEPT !.at = "check", !.recreate = FALSE, !.current_display = 0]
  /\ UNCHANGED <<request, clientOnly>>

\* counter_ready; without a frame, an error ends the run of the video service, which
\* starts again.
ChecksCounter ==
  /\ client.at \in {"poll", "check"}
  /\ \/ /\ mem.w # mem.r
        /\ mem' = [mem EXCEPT !.r = mem.w]
        /\ ClientGoes("read")
     \/ /\ mem.w = mem.r
        /\ client' = IF mem.wouldblock THEN [client EXCEPT !.at = "poll"]
                     ELSE [client EXCEPT !.at = "new", !.display = screen]
        /\ UNCHANGED mem
  /\ UNCHANGED <<request, clientOnly>>

\* A frame of another size is skipped.
ReadsFrame ==
  /\ client.at = "read"
  /\ client' = [client EXCEPT !.at = "poll",
                  !.shown = IF mem.frame # NoScreen /\ mem.frame.size = client.display.size
                            THEN mem.frame ELSE @]
  /\ UNCHANGED <<mem, request, clientOnly>>

\* The video service finds that the display is another one, and starts again.
SwitchesDisplay ==
  /\ client.at = "poll"
  /\ client.display # screen
  /\ client' = [client EXCEPT !.at = "new", !.display = screen]
  /\ UNCHANGED <<mem, request, clientOnly>>

ScreenChanges ==
  /\ changes < MaxScreenChanges
  /\ changes' = changes + 1
  /\ screen' \in PrimaryScreens \ {screen}
  /\ UNCHANGED <<mem, server, client, request, errors>>

Capture ==
  \/ ReadsPara \/ CreatesCapturer \/ RereadsPara \/ SetsPara \/ Gate
  \/ ReadsCounter \/ increase_counter

Show ==
  ClearsMemory \/ PostsPara \/ WritesTimeout \/ ChecksCounter \/ ReadsFrame

CaptureNext ==
  \/ Capture \/ CapturesFrame \/ WouldBlock \/ CaptureFails
  \/ Show \/ ReadsTimeout \/ SwitchesDisplay \/ ScreenChanges

CaptureSpec == CaptureInit /\ [][CaptureNext]_captureVars

\* Both loops go on, the client's one looks at the displays again and again, and the
\* screen changes now and then.
CaptureFairness ==
  /\ WF_captureVars(Capture)
  /\ WF_captureVars(Show)
  /\ SF_captureVars(CapturesFrame)
  /\ SF_captureVars(SwitchesDisplay)
-----------------------------------------------------------------------------
(* Properties.                                                             *)

\* Whatever display the service process was capturing, and wherever its loop and the
\* client's meet in the memory, the client comes to show the display as it is: no
\* frame is waited for by one side and already taken by the other, no frame of an
\* old size is skipped for ever.  Excepted are requests the server has overwritten
\* between reading and writing CapturerPara (set_para in run_capture).
FramesFlow ==
  CaptureFairness => <>[](request = "lost" \/ client.shown = screen)
=============================================================================
