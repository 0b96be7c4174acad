--------------------------- MODULE CursorService ---------------------------
(***************************************************************************)
(* The mouse cursor service: run_cursor and MouseCursorSub of src/server/  *)
(* input_service.rs, polled by ServiceTmpl::repeat (service.rs), and the   *)
(* client that keeps the cursors it was sent.                              *)
(*                                                                         *)
(* The thread sends a cursor when it changes, and brings new subscribers   *)
(* up to date with a snapshot.  A cursor's image is sent to a client once; *)
(* after that only its id is.                                              *)
(***************************************************************************)
EXTENDS Service, Naturals, Sequences

CONSTANTS Cursors,   \* the system's cursors (hcursor)
          NoCursor,  \* no cursor: 0, a hidden cursor, or an empty message
          MaxCursors   \* bound on the messages in a connection's unbounded queue

ASSUME NoCursorAssumption == NoCursor \notin Cursors
ASSUME MaxCursorsAssumption == MaxCursors \in Nat \ {0}

VARIABLES
  service,             \* the ServiceInner
  cached,              \* MouseCursorSub::cached of each subscriber
  cursor_pc,           \* where the service's thread is
  may_reset,           \* the local of repeat
  hcursor,             \* StateCursor: the last cursor sent
  cursor_data,         \* its message, which a snapshot sends
  cached_cursor_data,  \* cursors whose image was read
  cursor,              \* what get_cursor would return now
  rx,                  \* messages on their way to each client
  client_has,          \* images each client keeps
  shown,               \* the cursor each client shows
  missed               \* history: joined between a snapshot's send and its swap

threadVars == <<cursor_pc, may_reset, hcursor, cursor_data, cached_cursor_data>>
clientVars == <<rx, client_has, shown>>
cursorVars == <<service, cached, threadVars, cursor, clientVars, missed>>

Messages == [image : BOOLEAN, id : Cursors]

\* One type invariant for the module.
CursorTypeOK ==
  /\ service \in ServiceInner
  /\ cached \in [Conns -> SUBSET Cursors]
  /\ cursor_pc \in {"head", "poll", "snapshot", "send_new", "swap", "exit"}
  /\ may_reset \in BOOLEAN
  /\ hcursor \in Cursors \cup {NoCursor}
  /\ cursor_data \in Cursors \cup {NoCursor}
  /\ cached_cursor_data \in SUBSET Cursors
  /\ cursor \in Cursors \cup {NoCursor}
  /\ rx \in [Conns -> Seq(Messages)]
  /\ client_has \in [Conns -> SUBSET Cursors]
  /\ shown \in [Conns -> Cursors \cup {NoCursor}]
  /\ missed \in SUBSET Conns

CursorInit ==
  /\ service = New
  /\ cached = [c \in Conns |-> {}]
  /\ cursor_pc = "head"
  /\ may_reset = FALSE
  /\ hcursor = NoCursor
  /\ cursor_data = NoCursor
  /\ cached_cursor_data = {}
  /\ cursor \in Cursors \cup {NoCursor}
  /\ rx = [c \in Conns |-> <<>>]
  /\ client_has = [c \in Conns |-> {}]
  /\ shown = [c \in Conns |-> NoCursor]
  /\ missed = {}
-----------------------------------------------------------------------------
(* The service's thread.                                                   *)

\* Mutated form of SendCursor: an image the service has read before is not sent again,
\* whoever the subscriber is.
SendServiceCached(S, h) ==
  /\ \A c \in S : Len(rx[c]) < MaxCursors
  /\ rx' = [c \in Conns |->
              IF c \in S /\ h # NoCursor
              THEN Append(rx[c], [image |-> h \notin cached_cursor_data, id |-> h])
              ELSE rx[c]]
  /\ cached' = [c \in Conns |-> IF c \in S /\ h # NoCursor THEN cached[c] \cup {h}
                                                           ELSE cached[c]]

\* MouseCursorSub::send for every subscriber in S.  The message of NoCursor is
\* empty: it has no effect on the client.
SendCursor(S, h) ==
  /\ \A c \in S : Len(rx[c]) < MaxCursors
  /\ rx' = [c \in Conns |->
              IF c \in S /\ h # NoCursor
              THEN Append(rx[c], [image |-> h \notin cached[c], id |-> h])
              ELSE rx[c]]
  /\ cached' = [c \in Conns |-> IF c \in S /\ h # NoCursor THEN cached[c] \cup {h}
                                                           ELSE cached[c]]

\* repeat: there are subscribers, call run_cursor.
Poll ==
  /\ cursor_pc = "head"
  /\ service.active
  /\ has_subscribes(service)
  /\ cursor_pc' = "poll"
  /\ may_reset' = TRUE
  /\ UNCHANGED <<service, cached, hcursor, cursor_data, cached_cursor_data, cursor,
                 clientVars, missed>>

\* Mutated form of Reset: the cursor sent last is not forgotten.
ResetPartly ==
  /\ cursor_pc = "head"
  /\ service.active
  /\ ~has_subscribes(service)
  /\ may_reset
  /\ may_reset' = FALSE
  /\ cursor_data' = NoCursor
  /\ cached_cursor_data' = {}
  /\ UNCHANGED <<service, cached, cursor_pc, hcursor, cursor, clientVars, missed>>

\* repeat: nobody is left, StateCursor::reset.
Reset ==
  /\ cursor_pc = "head"
  /\ service.active
  /\ ~has_subscribes(service)
  /\ may_reset
  /\ may_reset' = FALSE
  /\ hcursor' = NoCursor
  /\ cursor_data' = NoCursor
  /\ cached_cursor_data' = {}
  /\ UNCHANGED <<service, cached, cursor_pc, cursor, clientVars, missed>>

\* repeat: joined.
ExitCursor ==
  /\ cursor_pc = "head"
  /\ ~service.active
  /\ cursor_pc' = "exit"
  /\ UNCHANGED <<service, cached, may_reset, hcursor, cursor_data, cached_cursor_data,
                 cursor, clientVars, missed>>

\* run_cursor: the cursor is hidden or still the same.
SameCursor ==
  /\ cursor_pc = "poll"
  /\ cursor \in {NoCursor, hcursor}
  /\ cursor_pc' = "snapshot"
  /\ UNCHANGED <<service, cached, may_reset, hcursor, cursor_data, cached_cursor_data,
                 cursor, clientVars, missed>>

\* run_cursor: another cursor, from the cache or read now; send_shared.
NewCursor ==
  /\ cursor_pc = "poll"
  /\ cursor \notin {NoCursor, hcursor}
  /\ cursor_pc' = "snapshot"
  /\ hcursor' = cursor
  /\ cursor_data' = cursor
  /\ cached_cursor_data' = cached_cursor_data \cup {cursor}
  /\ SendCursor(service.subscribes, cursor)
  /\ missed' = missed \ service.subscribes
  /\ UNCHANGED <<service, may_reset, cursor, client_has, shown>>

\* get_cursor fails, or get_cursor_data does for an image not read yet: `?'
\* returns, and repeat tries again a second later.
PollFails ==
  /\ cursor_pc = "poll"
  /\ cursor_pc' = "head"
  /\ UNCHANGED <<service, cached, may_reset, hcursor, cursor_data, cached_cursor_data,
                 cursor, clientVars, missed>>

\* sp.snapshot: called back only when someone is new.
Snapshot ==
  /\ cursor_pc = "snapshot"
  /\ cursor_pc' = IF service.new_subscribes # {} THEN "send_new" ELSE "head"
  /\ UNCHANGED <<service, cached, may_reset, hcursor, cursor_data, cached_cursor_data,
                 cursor, clientVars, missed>>

\* The callback: send_new_subscribes.
SendNew ==
  /\ cursor_pc = "send_new"
  /\ cursor_pc' = "swap"
  /\ SendCursor(service.new_subscribes, cursor_data)
  /\ UNCHANGED <<service, may_reset, hcursor, cursor_data, cached_cursor_data, cursor,
                 client_has, shown, missed>>

\* Drop for ServiceSwap.
Swap ==
  /\ cursor_pc = "swap"
  /\ cursor_pc' = "head"
  /\ service' = swap_new_subscribes(service)
  /\ UNCHANGED <<cached, may_reset, hcursor, cursor_data, cached_cursor_data, cursor,
                 clientVars, missed>>

CursorThread ==
  \/ Poll \/ Reset \/ ExitCursor \/ SameCursor \/ NewCursor \/ PollFails
  \/ Snapshot \/ SendNew \/ Swap
-----------------------------------------------------------------------------
(* Subscribers, their clients and the system.                              *)

\* on_subscribe: a connection that is not in `subscribes' gets a MouseCursorSub
\* with an empty cache.
Subscribe(c) ==
  /\ service' = on_subscribe(service, c, TRUE)
  /\ cached' = IF c \in service.subscribes THEN cached ELSE [cached EXCEPT ![c] = {}]
  /\ missed' = IF cursor_pc = "swap" /\ c \notin Subscribers(service)
             THEN missed \cup {c} ELSE missed
  /\ UNCHANGED <<threadVars, cursor, clientVars>>

Unsubscribe(c) ==
  /\ c \in Subscribers(service)
  /\ service' = on_unsubscribe(service, c)
  /\ missed' = missed \ {c}
  /\ UNCHANGED <<cached, threadVars, cursor, clientVars>>

\* The client gets a message: it keeps an image, and shows the cursor with that
\* id if it has its image.
Receive(c) ==
  /\ rx[c] # <<>>
  /\ rx' = [rx EXCEPT ![c] = Tail(@)]
  /\ LET m == Head(rx[c])
         has == IF m.image THEN client_has[c] \cup {m.id} ELSE client_has[c]
     IN /\ client_has' = [client_has EXCEPT ![c] = has]
        /\ shown' = [shown EXCEPT ![c] = IF m.id \in has THEN m.id ELSE NoCursor]
  /\ UNCHANGED <<service, cached, threadVars, cursor, missed>>

\* The system's cursor changes or is hidden.
CursorChanges ==
  /\ cursor' \in (Cursors \cup {NoCursor}) \ {cursor}
  /\ UNCHANGED <<service, cached, threadVars, clientVars, missed>>

Join ==
  /\ service.active
  /\ service' = deactivate(service)
  /\ UNCHANGED <<cached, threadVars, cursor, clientVars, missed>>

CursorNext ==
  \/ CursorThread
  \/ \E c \in Conns : Subscribe(c) \/ Unsubscribe(c) \/ Receive(c)
  \/ CursorChanges
  \/ Join

CursorSpec == CursorInit /\ [][CursorNext]_cursorVars

-----------------------------------------------------------------------------
(* Properties.                                                             *)

\* "only send id out, require client side cache also" (MouseCursorSub::send): an
\* id is never sent to a client that was not sent the image before it, however
\* often the connection leaves and comes back.
IdsAreKnown ==
  \A c \in Conns : rx[c] # <<>> =>
    LET m == Head(rx[c]) IN m.image \/ m.id \in client_has[c]

\* The cursor a client ends up with once its queue is empty.
LastSent(c) == IF rx[c] = <<>> THEN shown[c] ELSE rx[c][Len(rx[c])].id

\* Between two polls every old subscriber has been sent the cursor that was
\* polled last, also one that joined while it changed.  The exception is one that
\* joined between a snapshot's send and its swap: it waits for the next change.
SubscribersUpToDate ==
  cursor_pc = "head" /\ hcursor # NoCursor =>
    \A c \in service.subscribes \ missed : LastSent(c) = hcursor

=============================================================================
