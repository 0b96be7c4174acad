-------------------------- MODULE SubscribersProofs --------------------------
(***************************************************************************)
(* What the services promise their subscribers, for any number of          *)
(* connections: the display service, the mouse cursor service, and which   *)
(* services a connection is subscribed to.                                 *)
(***************************************************************************)
EXTENDS Subscriptions, CursorService, DisplayService, ServiceProofs

(* DisplayService.                                                         *)

\* Where connections are; messages are suspended while, and only while, somebody
\* holds the guard of temp_ignore_displays_changed.
DisplayAux ==
  /\ viewer \in [Conns -> {"none", "checked", "logged", "subscribed"}]
  /\ ignored <=> holder = "holding"

\* Newcomers are moved among the old subscribers when a message is due to all of
\* them (bail), or when there is no old subscriber.
NewcomersCovered ==
  /\ displayPc = "bail" => ~sync.is_synced
  /\ displayPc = "swap" /\ holder = "idle" /\ sync.is_synced => display.subscribes = {}

\* The inductive invariant.
DisplayIInv == DisplayTypeOK /\ DisplayAux /\ NewcomersCovered /\ DisplaysKnown

\* check_changed keeps the type, never marks the list as sent, and hides a change
\* only while changes are ignored.
LEMMA CheckChanged ==
  ASSUME DisplayTypeOK, DisplayAux
  PROVE  LET s == check_changed(sync, screens)
         IN  /\ s \in [displays : Screens \cup {0}, is_synced : BOOLEAN]
             /\ s.is_synced => sync.is_synced
             /\ s.is_synced /\ holder = "idle" => s.displays = sync.displays
<1> DEFINE b == sync.is_synced /\ (screens = sync.displays \/ ignored)
<1>1. b \in BOOLEAN
  OBVIOUS
<1>2. check_changed(sync, screens) = [displays |-> screens, is_synced |-> b]
  BY DEF check_changed
<1>3. screens \in Screens /\ sync.is_synced \in BOOLEAN
  BY DEF DisplayTypeOK
<1>4. b => sync.is_synced /\ (screens = sync.displays \/ ignored)
  OBVIOUS
<1> HIDE DEF b
<1> QED BY <1>1, <1>2, <1>3, <1>4 DEF DisplayAux

\* Every step of the service's thread, the connections, the video services and the
\* guard keeps the invariant.
LEMMA DisplayStep == DisplayIInv /\ [DisplayNext]_displayVars => DisplayIInv'
<1> SUFFICES ASSUME DisplayIInv, [DisplayNext]_displayVars PROVE DisplayIInv'
  OBVIOUS
<1>0. DisplayTypeOK /\ DisplayAux /\ NewcomersCovered /\ DisplaysKnown
  BY DEF DisplayIInv
<1>t. /\ display \in ServiceInner /\ OneMap(display)
      /\ sync \in [displays : Screens \cup {0}, is_synced : BOOLEAN]
  BY <1>0 DEF DisplayTypeOK
<1>c. ASSUME sync' = check_changed(sync, screens),
             UNCHANGED <<screens, ignored, holder, display, told, alone>>
      PROVE  /\ sync' \in [displays : Screens \cup {0}, is_synced : BOOLEAN]
             /\ sync'.is_synced => sync.is_synced
             /\ DisplaysKnown'
  BY <1>0, <1>c, CheckChanged DEF DisplaysKnown
<1>1. CASE Enter
  BY <1>0, <1>1 DEF Enter, DisplayIInv, DisplayTypeOK, DisplayAux, NewcomersCovered, DisplaysKnown
<1>2. CASE SnapshotCallback
  <2>1. CASE ResendsForNewcomer
    <3>1. sync' = [sync EXCEPT !.is_synced = FALSE] /\ displayPc' = "bail"
      BY <1>2, <2>1 DEF SnapshotCallback
    <3>2. sync' \in [displays : Screens \cup {0}, is_synced : BOOLEAN] /\ ~sync'.is_synced
      BY <1>t, <3>1
    <3> QED BY <1>0, <1>2, <3>1, <3>2
            DEF SnapshotCallback, DisplayIInv, DisplayTypeOK, DisplayAux, NewcomersCovered, DisplaysKnown
  <2>2. CASE ~ResendsForNewcomer
    <3>1. displayPc' = "swap" /\ sync' = sync
      BY <1>2, <2>2 DEF SnapshotCallback
    <3>2. holder = "idle" => display.subscribes = {}
      BY <1>0, <2>2 DEF ResendsForNewcomer, DisplayAux
    <3> QED BY <1>0, <1>2, <3>1, <3>2
            DEF SnapshotCallback, DisplayIInv, DisplayTypeOK, DisplayAux, NewcomersCovered, DisplaysKnown
  <2> QED BY <2>1, <2>2
<1>3. CASE SwapDisplays
  <2>1. /\ display' \in ServiceInner /\ OneMap(display')
        /\ display'.subscribes = Subscribers(display)
        /\ Subscribers(display') = Subscribers(display)
    BY <1>3, <1>t, SwapMoves DEF SwapDisplays
  <2>2. alone' \subseteq display'.subscribes
    BY <1>0, <1>3, <2>1 DEF SwapDisplays, DisplayTypeOK, Subscribers
  <2>3. displayPc' \in {"check", "head"}
    BY <1>3 DEF SwapDisplays
  <2>4. DisplaysKnown'
    <3> SUFFICES ASSUME holder = "idle", sync.is_synced,
                        NEW c \in Subscribers(display) \ alone'
                 PROVE  told[c] = sync.displays
      BY <1>3, <2>1 DEF SwapDisplays, DisplaysKnown
    <3>1. displayPc = "swap" /\ display.subscribes = {}
      BY <1>0, <1>3 DEF SwapDisplays, NewcomersCovered
    <3>2. alone' = alone \cup display.new_subscribes
      BY <1>0, <1>3, <3>1 DEF SwapDisplays, DisplayAux
    <3> QED BY <3>1, <3>2 DEF Subscribers
  <2> QED BY <1>0, <1>3, <2>1, <2>2, <2>3, <2>4
          DEF SwapDisplays, DisplayIInv, DisplayTypeOK, DisplayAux, NewcomersCovered
<1>4. CASE CheckDisplays
  <2>1. sync' = check_changed(sync, screens) \/ sync' = sync
    BY <1>4 DEF CheckDisplays
  <2>2. displayPc' \in {"send", "loop"} /\ UNCHANGED <<screens, ignored, holder, display, viewer, told, alone>>
    BY <1>4 DEF CheckDisplays
  <2>3. sync' \in [displays : Screens \cup {0}, is_synced : BOOLEAN] /\ DisplaysKnown'
    BY <1>0, <1>c, <1>t, <2>1, <2>2 DEF DisplaysKnown
  <2> QED BY <1>0, <2>2, <2>3 DEF DisplayIInv, DisplayTypeOK, DisplayAux, NewcomersCovered
<1>5. CASE SendDisplays
  <2>1. CASE sync.is_synced
    BY <1>0, <1>5, <2>1
       DEF SendDisplays, DisplayIInv, DisplayTypeOK, DisplayAux, NewcomersCovered, DisplaysKnown
  <2>2. CASE ~sync.is_synced
    <3>1. /\ sync' = [sync EXCEPT !.is_synced = TRUE] /\ alone' = {} /\ displayPc' = "loop"
          /\ told' = [c \in Conns |-> IF c \in display.subscribes THEN sync.displays ELSE told[c]]
          /\ UNCHANGED <<screens, ignored, holder, display, viewer>>
      BY <1>5, <2>2 DEF SendDisplays
    <3>2. /\ sync' \in [displays : Screens \cup {0}, is_synced : BOOLEAN]
          /\ sync'.displays = sync.displays
      BY <1>t, <3>1
    <3>3. sync.displays \in Screens \cup {0}
      BY <1>t
    <3>4. told' \in [Conns -> Screens \cup {0}]
      BY <1>0, <3>1, <3>3 DEF DisplayTypeOK
    <3>5. DisplaysKnown'
      BY <1>t, <3>1, <3>2 DEF DisplaysKnown, ServiceInner
    <3> QED BY <1>0, <3>1, <3>2, <3>4, <3>5
            DEF DisplayIInv, DisplayTypeOK, DisplayAux, NewcomersCovered
  <2> QED BY <2>1, <2>2
<1>6. ASSUME NEW c \in Conns, LoginChecks(c) PROVE DisplayIInv'
  <2>1. UNCHANGED <<screens, ignored, holder, display, displayPc, told, alone>>
        /\ sync' = check_changed(sync, screens)
    BY <1>6 DEF LoginChecks
  <2>2. /\ viewer' \in [Conns -> {"none", "checked", "logged", "subscribed"}]
        /\ \A d \in Conns : viewer'[d] = "subscribed" <=> viewer[d] = "subscribed"
    BY <1>0, <1>6 DEF LoginChecks, DisplayAux
  <2> QED BY <1>0, <1>c, <2>1, <2>2 DEF DisplayIInv, DisplayTypeOK, DisplayAux, NewcomersCovered
<1>7. ASSUME NEW c \in Conns, LoginReads(c) PROVE DisplayIInv'
  <2>1. c \notin Subscribers(display)
    BY <1>0, <1>7 DEF LoginReads, DisplayTypeOK
  <2>2. told' \in [Conns -> Screens \cup {0}] /\ \A d \in display.subscribes : told'[d] = told[d]
    BY <1>0, <1>7, <2>1 DEF LoginReads, DisplayTypeOK, Subscribers, ServiceInner
  <2>3. /\ viewer' \in [Conns -> {"none", "checked", "logged", "subscribed"}]
        /\ \A d \in Conns : viewer'[d] = "subscribed" <=> viewer[d] = "subscribed"
    BY <1>0, <1>7 DEF LoginReads, DisplayAux
  <2>4. UNCHANGED <<screens, sync, ignored, holder, display, displayPc, alone>>
    BY <1>7 DEF LoginReads
  <2> QED BY <1>0, <2>2, <2>3, <2>4
          DEF DisplayIInv, DisplayTypeOK, DisplayAux, NewcomersCovered, DisplaysKnown
<1>8. ASSUME NEW c \in Conns, JoinDisplay(c) PROVE DisplayIInv'
  <2>1. /\ display' \in ServiceInner /\ OneMap(display')
        /\ display'.subscribes = display.subscribes
        /\ Subscribers(display') = Subscribers(display) \cup {c}
    BY <1>8, <1>t, SubscribeAdds DEF JoinDisplay
  <2>2. /\ viewer' \in [Conns -> {"none", "checked", "logged", "subscribed"}]
        /\ \A d \in Conns : viewer'[d] = "subscribed" <=> d = c \/ viewer[d] = "subscribed"
    BY <1>0, <1>8 DEF JoinDisplay, DisplayAux
  <2>3. UNCHANGED <<screens, sync, ignored, holder, displayPc, told, alone>>
    BY <1>8 DEF JoinDisplay
  <2> QED BY <1>0, <2>1, <2>2, <2>3
          DEF DisplayIInv, DisplayTypeOK, DisplayAux, NewcomersCovered, DisplaysKnown
<1>9. ASSUME NEW c \in Conns, LeaveDisplay(c) PROVE DisplayIInv'
  <2>1. /\ display' \in ServiceInner /\ OneMap(display')
        /\ display'.subscribes = display.subscribes \ {c}
        /\ Subscribers(display') = Subscribers(display) \ {c}
    BY <1>9, <1>t, UnsubscribeRemoves DEF LeaveDisplay
  <2>2. /\ viewer' \in [Conns -> {"none", "checked", "logged", "subscribed"}]
        /\ \A d \in Conns : viewer'[d] = "subscribed" <=> d # c /\ viewer[d] = "subscribed"
    BY <1>0, <1>9 DEF LeaveDisplay, DisplayAux
  <2>3. told' \in [Conns -> Screens \cup {0}] /\ \A d \in Conns \ {c} : told'[d] = told[d]
    BY <1>0, <1>9 DEF LeaveDisplay, DisplayTypeOK
  <2>4. UNCHANGED <<screens, sync, ignored, holder, displayPc>> /\ alone' = alone \ {c}
    BY <1>9 DEF LeaveDisplay
  <2>5. DisplayTypeOK'
    BY <1>0, <2>1, <2>2, <2>3, <2>4 DEF DisplayTypeOK
  <2>6. DisplaysKnown'
    BY <1>0, <1>t, <2>1, <2>3, <2>4 DEF DisplaysKnown, ServiceInner
  <2> QED BY <1>0, <2>1, <2>2, <2>4, <2>5, <2>6 DEF DisplayIInv, DisplayAux, NewcomersCovered
<1>10. CASE VideoChecks
  <2>1. UNCHANGED <<screens, ignored, holder, display, displayPc, viewer, told, alone>>
        /\ sync' = check_changed(sync, screens)
    BY <1>10 DEF VideoChecks
  <2> QED BY <1>0, <1>c, <2>1 DEF DisplayIInv, DisplayTypeOK, DisplayAux, NewcomersCovered
<1>11. CASE ScreensChange
  BY <1>0, <1>11
     DEF ScreensChange, DisplayIInv, DisplayTypeOK, DisplayAux, NewcomersCovered, DisplaysKnown
<1>12. CASE Ignore \/ StopIgnoring
  <2>1. holder' # "idle" /\ holder' \in {"holding", "dropping"} /\ ignored' \in BOOLEAN
        /\ (ignored' <=> holder' = "holding")
    BY <1>12 DEF Ignore, StopIgnoring
  <2>2. UNCHANGED <<screens, sync, display, displayPc, viewer, told, alone>>
    BY <1>12 DEF Ignore, StopIgnoring
  <2> QED BY <1>0, <2>1, <2>2
          DEF DisplayIInv, DisplayTypeOK, DisplayAux, NewcomersCovered, DisplaysKnown
<1>13. CASE TriggerMessage
  <2>1. sync' \in [displays : Screens \cup {0}, is_synced : BOOLEAN] /\ ~sync'.is_synced
    BY <1>t, <1>13 DEF TriggerMessage
  <2> QED BY <1>0, <1>13, <2>1
          DEF TriggerMessage, DisplayIInv, DisplayTypeOK, DisplayAux, NewcomersCovered, DisplaysKnown
<1>14. CASE UNCHANGED displayVars
  BY <1>0, <1>14
     DEF displayVars, DisplayIInv, DisplayTypeOK, DisplayAux, NewcomersCovered, DisplaysKnown
<1> QED BY <1>1, <1>2, <1>3, <1>4, <1>5, <1>6, <1>7, <1>8, <1>9, <1>10, <1>11, <1>12, <1>13, <1>14
        DEF DisplayNext, DisplayThread

\* The invariant holds of the display service from its start.
THEOREM DisplayInductive == DisplaySpec => []DisplayIInv
<1>1. DisplayInit => DisplayIInv
  <2> SUFFICES ASSUME DisplayInit PROVE DisplayIInv
    OBVIOUS
  <2>1. DisplayTypeOK
    <3>1. told \in [Conns -> Screens \cup {0}] /\ \A c \in Conns : viewer[c] # "subscribed"
      BY DEF DisplayInit
    <3>2. sync \in [displays : Screens \cup {0}, is_synced : BOOLEAN]
      BY DEF DisplayInit
    <3> QED BY <3>1, <3>2, NewService DEF DisplayInit, DisplayTypeOK
  <2>2. DisplayAux
    BY DEF DisplayInit, DisplayAux
  <2>3. NewcomersCovered /\ DisplaysKnown
    BY DEF DisplayInit, NewcomersCovered, DisplaysKnown
  <2> QED BY <2>1, <2>2, <2>3 DEF DisplayIInv
<1> QED BY <1>1, DisplayStep, PTL DEF DisplaySpec

\* Every old subscriber was sent the current list of displays unless a message is
\* due, whoever noticed a change and whether or not messages were suspended.
THEOREM DisplaysAlwaysKnown == DisplaySpec => []DisplaysKnown
<1>1. DisplayIInv => DisplaysKnown
  BY DEF DisplayIInv
<1> QED BY <1>1, DisplayInductive, PTL
-----------------------------------------------------------------------------
(* CursorService.                                                          *)

\* Queue `q' of a client that keeps the images `has': every id in it is known when its
\* turn comes.
Known(q, has) ==
  \A i \in 1..Len(q) :
    \/ q[i].image
    \/ q[i].id \in has
    \/ \E j \in 1..Len(q) : j < i /\ q[j].image /\ q[j].id = q[i].id

\* The images in `C' are with the client or on their way.
OnTheirWay(q, has, C) ==
  \A h \in C : h \in has \/ \E j \in 1..Len(q) : q[j].image /\ q[j].id = h

\* Why ids are known: the cache of a MouseCursorSub, which is emptied when the
\* connection subscribes again, holds no more than its client will have.
QueuesKnown ==
  \A c \in Conns : Known(rx[c], client_has[c]) /\ OnTheirWay(rx[c], client_has[c], cached[c])

\* Why subscribers are up to date: the state's cursor is the message a snapshot sends;
\* old subscribers have it wherever the thread is, new ones from the snapshot on.
UpToDate ==
  /\ cursor_data = hcursor
  /\ hcursor # NoCursor =>
       /\ \A c \in service.subscribes \ missed : LastSent(c) = hcursor
       /\ cursor_pc = "swap" =>
            \A c \in service.new_subscribes \ missed : LastSent(c) = hcursor

\* The inductive invariant.
CursorIInv == CursorTypeOK /\ OneMap(service) /\ QueuesKnown /\ UpToDate

\* MouseCursorSub::send: the image goes along unless the cache has it.
LEMMA SendKeepsKnown ==
  ASSUME NEW q \in Seq(Messages), NEW has \in SUBSET Cursors, NEW C \in SUBSET Cursors,
         NEW h \in Cursors, Known(q, has), OnTheirWay(q, has, C)
  PROVE  LET r == Append(q, [image |-> h \notin C, id |-> h])
         IN  r \in Seq(Messages) /\ Known(r, has) /\ OnTheirWay(r, has, C \cup {h})
<1> DEFINE b == h \notin C
           m == [image |-> b, id |-> h]
           r == Append(q, m)
<1>1. b \in BOOLEAN /\ (b <=> h \notin C)
  OBVIOUS
<1> HIDE DEF b
<1>2. m \in Messages /\ m.image = b /\ m.id = h
  BY <1>1 DEF Messages
<1> HIDE DEF m
<1>3. /\ r \in Seq(Messages) /\ Len(r) = Len(q) + 1 /\ Len(q) \in Nat /\ r[Len(q) + 1] = m
      /\ \A i \in 1..Len(q) : r[i] = q[i]
  BY <1>2
<1> HIDE DEF r
<1>4. OnTheirWay(r, has, C \cup {h})
  <2> SUFFICES ASSUME NEW g \in C \cup {h}, g \notin has
               PROVE  \E j \in 1..Len(r) : r[j].image /\ r[j].id = g
    BY DEF OnTheirWay
  <2>1. CASE g \in C
    <3>1. PICK j \in 1..Len(q) : q[j].image /\ q[j].id = g
      BY <2>1 DEF OnTheirWay
    <3> QED BY <1>3, <3>1
  <2>2. CASE g \notin C
    BY <1>1, <1>2, <1>3, <2>2
  <2> QED BY <2>1, <2>2
<1>5. Known(r, has)
  <2> SUFFICES ASSUME NEW i \in 1..Len(r), ~r[i].image, r[i].id \notin has
               PROVE  \E j \in 1..Len(r) : j < i /\ r[j].image /\ r[j].id = r[i].id
    BY DEF Known
  <2>1. CASE i \in 1..Len(q)
    <3>1. PICK j \in 1..Len(q) : j < i /\ q[j].image /\ q[j].id = q[i].id
      BY <1>3, <2>1 DEF Known
    <3> QED BY <1>3, <2>1, <3>1
  <2>2. CASE i = Len(q) + 1
    <3>1. h \in C /\ h \notin has /\ r[i].id = h
      BY <1>1, <1>2, <1>3, <2>2
    <3>2. PICK j \in 1..Len(q) : q[j].image /\ q[j].id = h
      BY <3>1 DEF OnTheirWay
    <3> QED BY <1>3, <2>2, <3>1, <3>2
  <2> QED BY <1>3, <2>1, <2>2
<1> QED BY <1>3, <1>4, <1>5 DEF r, m, b

\* The client takes the first message: it has the image of its id, and the rest stays
\* known.
LEMMA ReceiveKeepsKnown ==
  ASSUME NEW q \in Seq(Messages), q # <<>>, NEW has \in SUBSET Cursors,
         NEW C \in SUBSET Cursors, Known(q, has), OnTheirWay(q, has, C)
  PROVE  LET new == IF Head(q).image THEN has \cup {Head(q).id} ELSE has
         IN  /\ new \in SUBSET Cursors
             /\ Head(q).id \in new
             /\ Known(Tail(q), new)
             /\ OnTheirWay(Tail(q), new, C)
<1> DEFINE m == Head(q)
           r == Tail(q)
           new == IF m.image THEN has \cup {m.id} ELSE has
<1>1. /\ m = q[1] /\ m \in Messages /\ r \in Seq(Messages) /\ Len(r) = Len(q) - 1
      /\ Len(q) \in Nat \ {0} /\ \A i \in 1..Len(r) : r[i] = q[i + 1]
  OBVIOUS
<1>2. m.id \in Cursors /\ new \in SUBSET Cursors
  BY <1>1 DEF Messages
<1>3. m.id \in new
  <2>1. q[1].image \/ q[1].id \in has
    BY <1>1 DEF Known
  <2> QED BY <1>1, <2>1
<1>4. has \subseteq new /\ (q[1].image => q[1].id \in new)
  BY <1>1
<1> HIDE DEF m, r, new
<1>5. OnTheirWay(r, new, C)
  <2> SUFFICES ASSUME NEW h \in C, h \notin new
               PROVE  \E j \in 1..Len(r) : r[j].image /\ r[j].id = h
    BY DEF OnTheirWay
  <2>1. PICK j \in 1..Len(q) : q[j].image /\ q[j].id = h
    BY <1>4 DEF OnTheirWay
  <2>2. j # 1 /\ j - 1 \in 1..Len(r) /\ r[j - 1] = q[j]
    BY <1>1, <1>4, <2>1
  <2> QED BY <2>1, <2>2
<1>6. Known(r, new)
  <2> SUFFICES ASSUME NEW i \in 1..Len(r), ~r[i].image, r[i].id \notin new
               PROVE  \E j \in 1..Len(r) : j < i /\ r[j].image /\ r[j].id = r[i].id
    BY DEF Known
  <2>1. i + 1 \in 1..Len(q) /\ r[i] = q[i + 1]
    BY <1>1
  <2>2. PICK j \in 1..Len(q) : j < i + 1 /\ q[j].image /\ q[j].id = r[i].id
    BY <1>4, <2>1 DEF Known
  <2>3. j # 1 /\ j - 1 \in 1..Len(r) /\ j - 1 < i /\ r[j - 1] = q[j]
    BY <1>1, <1>4, <2>2
  <2> QED BY <2>2, <2>3
<1> QED BY <1>2, <1>3, <1>5, <1>6 DEF m, r, new

\* Sending to a set of subscribers: whoever gets the cursor ends up with it.
LEMMA SendFacts ==
  ASSUME CursorTypeOK, QueuesKnown, NEW S \in SUBSET Conns, NEW h \in Cursors \cup {NoCursor},
         SendCursor(S, h), UNCHANGED <<client_has, shown>>
  PROVE  /\ rx' \in [Conns -> Seq(Messages)] /\ cached' \in [Conns -> SUBSET Cursors]
         /\ QueuesKnown'
         /\ h # NoCursor => \A c \in S : LastSent(c)' = h
         /\ \A c \in Conns \ S : LastSent(c)' = LastSent(c)
<1> DEFINE new(c) == Append(rx[c], [image |-> h \notin cached[c], id |-> h])
<1>1. ASSUME NEW c \in Conns
      PROVE  /\ rx[c] \in Seq(Messages) /\ client_has[c] \in SUBSET Cursors
             /\ cached[c] \in SUBSET Cursors
             /\ Known(rx[c], client_has[c]) /\ OnTheirWay(rx[c], client_has[c], cached[c])
  BY DEF CursorTypeOK, QueuesKnown
<1>2. ASSUME NEW c \in S, h # NoCursor
      PROVE  /\ rx'[c] = new(c) /\ cached'[c] = cached[c] \cup {h}
             /\ rx'[c] \in Seq(Messages) /\ cached'[c] \in SUBSET Cursors
             /\ Known(rx'[c], client_has[c]) /\ OnTheirWay(rx'[c], client_has[c], cached'[c])
             /\ rx'[c] # <<>> /\ rx'[c][Len(rx'[c])].id = h
  <2>1. c \in Conns /\ h \in Cursors
    BY <1>2
  <2>2. rx'[c] = new(c) /\ cached'[c] = cached[c] \cup {h}
    BY <1>2, <2>1 DEF SendCursor
  <2>3. /\ new(c) \in Seq(Messages) /\ Known(new(c), client_has[c])
        /\ OnTheirWay(new(c), client_has[c], cached[c] \cup {h})
    BY <1>1, <2>1, SendKeepsKnown
  <2>4. new(c) # <<>> /\ new(c)[Len(new(c))].id = h
    <3> DEFINE m == [image |-> h \notin cached[c], id |-> h]
    <3>1. m.id = h
      OBVIOUS
    <3>2. m \in Messages
      <4>1. (h \notin cached[c]) \in BOOLEAN
        OBVIOUS
      <4> QED BY <2>1, <4>1 DEF Messages
    <3> HIDE DEF m
    <3>3. Append(rx[c], m) # <<>> /\ Append(rx[c], m)[Len(Append(rx[c], m))] = m
      BY <1>1, <2>1, <3>2
    <3> QED BY <3>1, <3>3 DEF m
  <2> HIDE DEF new
  <2> QED BY <1>1, <2>1, <2>2, <2>3, <2>4
<1> HIDE DEF new
<1>3. ASSUME NEW c \in Conns, c \notin S \/ h = NoCursor
      PROVE  rx'[c] = rx[c] /\ cached'[c] = cached[c]
  BY <1>3 DEF SendCursor
<1>4. rx' \in [Conns -> Seq(Messages)]
  <2>1. \A c \in Conns : rx'[c] \in Seq(Messages)
    BY <1>1, <1>2, <1>3
  <2> QED BY <2>1 DEF SendCursor
<1>5. cached' \in [Conns -> SUBSET Cursors]
  <2>1. \A c \in Conns : cached'[c] \in SUBSET Cursors
    BY <1>1, <1>2, <1>3
  <2> QED BY <2>1 DEF SendCursor
<1>6. QueuesKnown'
  BY <1>1, <1>2, <1>3 DEF QueuesKnown
<1>7. h # NoCursor => \A c \in S : LastSent(c)' = h
  BY <1>2 DEF LastSent
<1>8. \A c \in Conns \ S : LastSent(c)' = LastSent(c)
  BY <1>3 DEF LastSent
<1> QED BY <1>4, <1>5, <1>6, <1>7, <1>8

\* A client that takes a message ends up with the same cursor.
LEMMA ReceiveFacts ==
  ASSUME CursorTypeOK, QueuesKnown, NEW c \in Conns, Receive(c)
  PROVE  /\ rx' \in [Conns -> Seq(Messages)] /\ client_has' \in [Conns -> SUBSET Cursors]
         /\ shown' \in [Conns -> Cursors \cup {NoCursor}]
         /\ QueuesKnown'
         /\ \A d \in Conns : LastSent(d)' = LastSent(d)
<1> DEFINE q == rx[c]
           m == Head(q)
           has == IF m.image THEN client_has[c] \cup {m.id} ELSE client_has[c]
<1>1. /\ q \in Seq(Messages) /\ q # <<>> /\ client_has[c] \in SUBSET Cursors
      /\ cached[c] \in SUBSET Cursors
      /\ Known(q, client_has[c]) /\ OnTheirWay(q, client_has[c], cached[c])
  BY DEF CursorTypeOK, QueuesKnown, Receive
<1>2. /\ has \in SUBSET Cursors /\ m.id \in has /\ Known(Tail(q), has)
      /\ OnTheirWay(Tail(q), has, cached[c])
  BY <1>1, ReceiveKeepsKnown
<1>3. /\ rx' = [rx EXCEPT ![c] = Tail(q)] /\ client_has' = [client_has EXCEPT ![c] = has]
      /\ shown' = [shown EXCEPT ![c] = IF m.id \in has THEN m.id ELSE NoCursor]
      /\ cached' = cached
  BY DEF Receive
<1>4. Tail(q) \in Seq(Messages)
  BY <1>1
<1>5. IF Tail(q) = <<>> THEN m.id = q[Len(q)].id ELSE Tail(q)[Len(Tail(q))] = q[Len(q)]
  <2> DEFINE t == Tail(q)
  <2>1. /\ Len(q) \in Nat \ {0} /\ Len(t) = Len(q) - 1 /\ m = q[1]
        /\ \A i \in 1..Len(q) - 1 : t[i] = q[i + 1]
    BY <1>1
  <2>2. t \in Seq(Messages)
    BY <1>4
  <2> HIDE DEF t
  <2>3. CASE t = <<>>
    <3>1. Len(q) = 1
      BY <2>1, <2>3
    <3> QED BY <2>1, <2>3, <3>1 DEF t
  <2>4. CASE t # <<>>
    <3>1. Len(q) - 1 \in 1..Len(q) - 1
      BY <2>1, <2>2, <2>4
    <3>2. t[Len(t)] = q[Len(q)]
      BY <2>1, <3>1
    <3> QED BY <2>4, <3>2 DEF t
  <2> QED BY <2>3, <2>4
<1> HIDE DEF has, m, q
<1>6. rx' \in [Conns -> Seq(Messages)] /\ client_has' \in [Conns -> SUBSET Cursors]
  BY <1>2, <1>3, <1>4 DEF CursorTypeOK
<1>7. shown' \in [Conns -> Cursors \cup {NoCursor}]
  BY <1>2, <1>3 DEF CursorTypeOK
<1>8. rx'[c] = Tail(q) /\ client_has'[c] = has /\ shown'[c] = m.id
  BY <1>2, <1>3 DEF CursorTypeOK
<1>9. \A d \in Conns \ {c} : rx'[d] = rx[d] /\ client_has'[d] = client_has[d] /\ shown'[d] = shown[d]
  BY <1>3 DEF CursorTypeOK
<1>10. QueuesKnown'
  BY <1>2, <1>3, <1>8, <1>9 DEF QueuesKnown
<1>11. LastSent(c)' = LastSent(c)
  BY <1>1, <1>5, <1>8 DEF LastSent, q
<1>12. \A d \in Conns \ {c} : LastSent(d)' = LastSent(d)
  BY <1>9 DEF LastSent
<1> QED BY <1>6, <1>7, <1>10, <1>11, <1>12

\* Steps that leave the service and what was sent alone.
LEMMA CursorQuiet ==
  ASSUME CursorIInv, UNCHANGED <<service, cached, rx, client_has, shown, missed>>
  PROVE  /\ service' \in ServiceInner /\ OneMap(service') /\ QueuesKnown'
         /\ \A c \in Conns : LastSent(c)' = LastSent(c)
BY DEF CursorIInv, CursorTypeOK, QueuesKnown, LastSent

\* The thread keeps the invariant.
LEMMA CursorThreadStep == CursorIInv /\ CursorThread => CursorIInv'
<1> SUFFICES ASSUME CursorIInv, CursorThread PROVE CursorIInv'
  OBVIOUS
<1>0. /\ CursorTypeOK /\ OneMap(service) /\ QueuesKnown /\ UpToDate
      /\ service \in ServiceInner /\ service.subscribes \subseteq Conns
      /\ service.new_subscribes \subseteq Conns
  BY DEF CursorIInv, CursorTypeOK, ServiceInner
<1>1. CASE Poll \/ ExitCursor \/ SameCursor \/ PollFails \/ Snapshot
  <2>1. /\ UNCHANGED <<service, cached, rx, client_has, shown, missed>>
        /\ UNCHANGED <<hcursor, cursor_data, cached_cursor_data, cursor>>
        /\ cursor_pc' \in {"poll", "exit", "snapshot", "head", "send_new"}
        /\ may_reset' \in BOOLEAN
    BY <1>0, <1>1
       DEF Poll, ExitCursor, SameCursor, PollFails, Snapshot, clientVars, CursorTypeOK
  <2> QED BY <1>0, <2>1, CursorQuiet DEF CursorIInv, CursorTypeOK, UpToDate
<1>2. CASE Reset
  <2>1. /\ UNCHANGED <<service, cached, rx, client_has, shown, missed>>
        /\ UNCHANGED <<cursor, cursor_pc>>
        /\ hcursor' = NoCursor /\ cursor_data' = NoCursor /\ cached_cursor_data' = {}
        /\ may_reset' = FALSE
    BY <1>2 DEF Reset, clientVars
  <2> QED BY <1>0, <2>1, CursorQuiet DEF CursorIInv, CursorTypeOK, UpToDate
<1>3. CASE NewCursor
  <2>1. /\ cursor \in Cursors /\ cursor # NoCursor /\ cursor_pc' = "snapshot"
        /\ hcursor' = cursor /\ cursor_data' = cursor
        /\ cached_cursor_data' = cached_cursor_data \cup {cursor}
        /\ SendCursor(service.subscribes, cursor) /\ missed' = missed \ service.subscribes
        /\ UNCHANGED <<service, may_reset, cursor, client_has, shown>>
    BY <1>0, <1>3 DEF NewCursor, CursorTypeOK
  <2>2. /\ rx' \in [Conns -> Seq(Messages)] /\ cached' \in [Conns -> SUBSET Cursors]
        /\ QueuesKnown' /\ \A c \in service.subscribes : LastSent(c)' = cursor
    BY <1>0, <2>1, SendFacts
  <2> QED BY <1>0, <2>1, <2>2 DEF CursorIInv, CursorTypeOK, UpToDate
<1>4. CASE SendNew
  <2>1. /\ cursor_pc' = "swap" /\ SendCursor(service.new_subscribes, cursor_data)
        /\ UNCHANGED <<service, may_reset, hcursor, cursor_data, cached_cursor_data, cursor,
                       client_has, shown, missed>>
    BY <1>4 DEF SendNew
  <2>2. cursor_data \in Cursors \cup {NoCursor}
    BY <1>0 DEF CursorTypeOK
  <2>3. /\ rx' \in [Conns -> Seq(Messages)] /\ cached' \in [Conns -> SUBSET Cursors]
        /\ QueuesKnown'
        /\ cursor_data # NoCursor => \A c \in service.new_subscribes : LastSent(c)' = cursor_data
        /\ \A c \in Conns \ service.new_subscribes : LastSent(c)' = LastSent(c)
    BY <1>0, <2>1, <2>2, SendFacts
  <2>4. UpToDate'
    BY <1>0, <2>1, <2>3 DEF UpToDate
  <2> QED BY <1>0, <2>1, <2>3, <2>4 DEF CursorIInv, CursorTypeOK
<1>5. CASE Swap
  <2>1. /\ service' \in ServiceInner /\ OneMap(service')
        /\ service'.subscribes = service.subscribes \cup service.new_subscribes
    BY <1>0, <1>5, SwapMoves DEF Swap, Subscribers
  <2>2. /\ cursor_pc = "swap" /\ cursor_pc' = "head"
        /\ UNCHANGED <<cached, may_reset, hcursor, cursor_data, cached_cursor_data, cursor,
                       rx, client_has, shown, missed>>
    BY <1>5 DEF Swap, clientVars
  <2>3. QueuesKnown' /\ \A c \in Conns : LastSent(c)' = LastSent(c)
    BY <1>0, <2>2 DEF QueuesKnown, LastSent
  <2>4. UpToDate'
    BY <1>0, <2>1, <2>2, <2>3 DEF UpToDate
  <2> QED BY <1>0, <2>1, <2>2, <2>3, <2>4 DEF CursorIInv, CursorTypeOK
<1> QED BY <1>1, <1>2, <1>3, <1>4, <1>5 DEF CursorThread

\* So do the connections, their clients and the system.
LEMMA CursorStep == CursorIInv /\ [CursorNext]_cursorVars => CursorIInv'
<1> SUFFICES ASSUME CursorIInv, [CursorNext]_cursorVars PROVE CursorIInv'
  OBVIOUS
<1>0. /\ CursorTypeOK /\ OneMap(service) /\ QueuesKnown /\ UpToDate
      /\ service \in ServiceInner /\ service.subscribes \subseteq Conns
      /\ service.new_subscribes \subseteq Conns
  BY DEF CursorIInv, CursorTypeOK, ServiceInner
<1>1. ASSUME NEW c \in Conns, Subscribe(c) PROVE CursorIInv'
  <2>1. /\ service' \in ServiceInner /\ OneMap(service')
        /\ service'.subscribes = service.subscribes
        /\ service'.new_subscribes \subseteq service.new_subscribes \cup {c}
        /\ Subscribers(service') = Subscribers(service) \cup {c}
    <3>1. service' = on_subscribe(service, c, TRUE)
      BY <1>1 DEF Subscribe
    <3>2. service'.new_subscribes \subseteq service.new_subscribes \cup {c}
      BY <1>0, <3>1 DEF on_subscribe, ServiceInner
    <3> QED BY <1>0, <3>1, <3>2, SubscribeAdds
  <2>2. /\ cached' = IF c \in service.subscribes THEN cached ELSE [cached EXCEPT ![c] = {}]
        /\ missed' = IF cursor_pc = "swap" /\ c \notin Subscribers(service)
                     THEN missed \cup {c} ELSE missed
        /\ UNCHANGED <<cursor_pc, may_reset, hcursor, cursor_data, cached_cursor_data, cursor,
                       rx, client_has, shown>>
    BY <1>1 DEF Subscribe, threadVars, clientVars
  <2>3. cached' \in [Conns -> SUBSET Cursors] /\ \A d \in Conns : cached'[d] \subseteq cached[d]
    BY <1>0, <2>2 DEF CursorTypeOK
  <2>4. QueuesKnown'
    BY <1>0, <2>2, <2>3 DEF QueuesKnown, OnTheirWay
  <2>5. \A d \in Conns : LastSent(d)' = LastSent(d)
    BY <2>2 DEF LastSent
  <2>6. missed \subseteq missed' /\ missed' \subseteq Conns
    BY <1>0, <2>2 DEF CursorTypeOK
  <2>7. UpToDate'
    <3>1. cursor_pc = "swap" => service'.new_subscribes \ missed' \subseteq service.new_subscribes \ missed
      <4>1. CASE c \in service.subscribes
        BY <1>0, <2>1, <2>6, <4>1 DEF OneMap
      <4>2. CASE c \notin service.subscribes
        BY <2>1, <2>2, <2>6, <4>2 DEF Subscribers
      <4> QED BY <4>1, <4>2
    <3> QED BY <1>0, <2>1, <2>2, <2>5, <2>6, <3>1 DEF UpToDate
  <2> QED BY <1>0, <2>1, <2>2, <2>3, <2>4, <2>6, <2>7 DEF CursorIInv, CursorTypeOK
<1>2. ASSUME NEW c \in Conns, Unsubscribe(c) PROVE CursorIInv'
  <2>1. /\ service' \in ServiceInner /\ OneMap(service')
        /\ service'.subscribes = service.subscribes \ {c}
        /\ service'.new_subscribes \subseteq service.new_subscribes \ {c}
    <3>1. /\ service' = on_unsubscribe(service, c)
      BY <1>2 DEF Unsubscribe
    <3>2. service'.new_subscribes \subseteq service.new_subscribes \ {c}
      BY <1>0, <3>1 DEF on_unsubscribe, ServiceInner, OneMap
    <3> QED BY <1>0, <3>1, <3>2, UnsubscribeRemoves
  <2>2. /\ missed' = missed \ {c}
        /\ UNCHANGED <<cached, cursor_pc, may_reset, hcursor, cursor_data, cached_cursor_data,
                       cursor, rx, client_has, shown>>
    BY <1>2 DEF Unsubscribe, threadVars, clientVars
  <2>3. QueuesKnown' /\ \A d \in Conns : LastSent(d)' = LastSent(d)
    BY <1>0, <2>2 DEF QueuesKnown, LastSent
  <2>4. UpToDate'
    BY <1>0, <2>1, <2>2, <2>3 DEF UpToDate
  <2> QED BY <1>0, <2>1, <2>2, <2>3, <2>4 DEF CursorIInv, CursorTypeOK
<1>3. ASSUME NEW c \in Conns, Receive(c) PROVE CursorIInv'
  <2>1. UNCHANGED <<service, cached, cursor_pc, may_reset, hcursor, cursor_data,
                    cached_cursor_data, cursor, missed>>
    BY <1>3 DEF Receive, threadVars
  <2> QED BY <1>0, <1>3, <2>1, ReceiveFacts DEF CursorIInv, CursorTypeOK, UpToDate
<1>4. CASE CursorChanges
  <2>1. /\ UNCHANGED <<service, cached, rx, client_has, shown, missed>>
        /\ UNCHANGED <<cursor_pc, may_reset, hcursor, cursor_data, cached_cursor_data>>
        /\ cursor' \in Cursors \cup {NoCursor}
    BY <1>4 DEF CursorChanges, threadVars, clientVars
  <2> QED BY <1>0, <2>1, CursorQuiet DEF CursorIInv, CursorTypeOK, UpToDate
<1>5. CASE Join
  <2>1. /\ service' \in ServiceInner /\ OneMap(service')
        /\ service'.subscribes = service.subscribes
        /\ service'.new_subscribes = service.new_subscribes
    BY <1>0, <1>5, DeactivateKeeps DEF Join
  <2>2. UNCHANGED <<cached, cursor_pc, may_reset, hcursor, cursor_data, cached_cursor_data,
                    cursor, rx, client_has, shown, missed>>
    BY <1>5 DEF Join, threadVars, clientVars
  <2>3. QueuesKnown' /\ \A d \in Conns : LastSent(d)' = LastSent(d)
    BY <1>0, <2>2 DEF QueuesKnown, LastSent
  <2> QED BY <1>0, <2>1, <2>2, <2>3 DEF CursorIInv, CursorTypeOK, UpToDate
<1>6. CASE UNCHANGED cursorVars
  <2>1. /\ UNCHANGED <<service, cached, rx, client_has, shown, missed>>
        /\ UNCHANGED <<cursor_pc, may_reset, hcursor, cursor_data, cached_cursor_data, cursor>>
    BY <1>6 DEF cursorVars, threadVars, clientVars
  <2> QED BY <1>0, <2>1, CursorQuiet DEF CursorIInv, CursorTypeOK, UpToDate
<1> QED BY <1>1, <1>2, <1>3, <1>4, <1>5, <1>6, CursorThreadStep DEF CursorNext

\* The invariant holds of the cursor service from its start.
THEOREM CursorInductive == CursorSpec => []CursorIInv
<1>1. CursorInit => CursorIInv
  <2> SUFFICES ASSUME CursorInit PROVE CursorIInv
    OBVIOUS
  <2>1. CursorTypeOK
    <3>1. rx \in [Conns -> Seq(Messages)]
      BY DEF CursorInit
    <3>2. cached \in [Conns -> SUBSET Cursors] /\ client_has \in [Conns -> SUBSET Cursors]
      BY DEF CursorInit
    <3> QED BY <3>1, <3>2, NewService DEF CursorInit, CursorTypeOK
  <2>2. QueuesKnown
    BY DEF CursorInit, QueuesKnown, Known, OnTheirWay
  <2>3. OneMap(service) /\ UpToDate
    BY NewService DEF CursorInit, UpToDate
  <2> QED BY <2>1, <2>2, <2>3 DEF CursorIInv
<1> QED BY <1>1, CursorStep, PTL DEF CursorSpec

\* A client is never sent an id whose image it was not sent before, for any number
\* of connections that leave and come back.
THEOREM IdsAlwaysKnown == CursorSpec => []IdsAreKnown
<1>1. CursorIInv => IdsAreKnown
  <2> SUFFICES ASSUME CursorIInv, NEW c \in Conns, rx[c] # <<>>
               PROVE  Head(rx[c]).image \/ Head(rx[c]).id \in client_has[c]
    BY DEF IdsAreKnown
  <2>1. rx[c] \in Seq(Messages) /\ Known(rx[c], client_has[c])
    BY DEF CursorIInv, CursorTypeOK, QueuesKnown
  <2>2. Head(rx[c]) = rx[c][1] /\ 1 \in 1..Len(rx[c])
    BY <2>1
  <2> QED BY <2>1, <2>2 DEF Known
<1> QED BY <1>1, CursorInductive, PTL

\* Old subscribers have been sent the cursor that was polled last.
THEOREM SubscribersAlwaysUpToDate == CursorSpec => []SubscribersUpToDate
<1>1. CursorIInv => SubscribersUpToDate
  BY DEF CursorIInv, UpToDate, SubscribersUpToDate
<1> QED BY <1>1, CursorInductive, PTL
-----------------------------------------------------------------------------
(* Subscriptions.                                                          *)

\* When flags `f' permit a subscription to `s', and when they require it.
Permitted(s, f) ==
  /\ s = "clipboard" => can_sub_clipboard_service(f)
  /\ s = "file_clipboard" => file_transfer_enabled(f)
  /\ s = "pos" => f["show_remote_cursor"]
  /\ s = "window_focus" => f["follow_remote_window"]
  /\ s = "cursor" => f["keyboard"] \/ f["show_remote_cursor"]
  /\ s = "audio" => audio_enabled(f)

Required(s, f) ==
  \/ s = "clipboard" /\ can_sub_clipboard_service(f)
  \/ s = "pos" /\ f["show_remote_cursor"]
  \/ s = "cursor" /\ (peer_keyboard_enabled(f) \/ f["show_remote_cursor"])
  \/ s = "audio" /\ audio_enabled(f)

\* A call of Server::subscribe that suits the flags.
Suits(call, f) ==
  /\ call[2] => Permitted(call[1], f)
  /\ Required(call[1], f) => call[2]

NotCalled(s, calls) == \A i \in 1..Len(calls) : calls[i][1] # s

\* The maps of a service: only services that take snapshots have new subscribers.
MapsOK ==
  \A s \in Services : /\ OneMap(svc[s])
                      /\ s \notin NeedSnapshot => svc[s].new_subscribes = {}

\* The lock is held by the connection in Server::subscribe, which has a call to make.
\* A connection is missed by is_subed only in a service that takes snapshots.
CallsOK ==
  /\ \A c \in Conns : stage[c] # "idle" => server_lock = c /\ todo[c] # <<>>
  /\ \A c \in Conns : stage[c] = "read_new" /\ Target(c) \notin NeedSnapshot =>
       c \notin svc[Target(c)].subscribes
  /\ \A c \in Conns, s \in Services : <<c, s>> \in raced => s \in NeedSnapshot

\* What is left of a closed connection, and what one has before its login: its switches
\* do not reach the sound.
EndsOK ==
  \A c \in Conns :
    /\ phase[c] = "closed" => todo[c] = <<>> /\ \A s \in Services : ~SubscribedTo(c, s)
    /\ phase[c] = "login" => ~SubscribedTo(c, "audio") /\ NotCalled("audio", todo[c])

\* A service no call is due for suits the flags; the calls that are due make the others
\* suit.
Consistent ==
  \A c \in Conns, s \in Services : phase[c] # "closed" =>
    /\ \A i \in 1..Len(todo[c]) : Suits(todo[c][i], flag[c])
    /\ NotCalled(s, todo[c]) =>
         /\ SubscribedTo(c, s) => Permitted(s, flag[c]) \/ <<c, s>> \in raced
         /\ phase[c] = "subed" /\ Required(s, flag[c]) => SubscribedTo(c, s)

\* The inductive invariant.
SubsIInv == SubsTypeOK /\ MapsOK /\ CallsOK /\ EndsOK /\ Consistent

CallSet == Services \X BOOLEAN

\* A list of calls made for flags `f' that were changed to `g' suits them, and leaves out
\* only services the change does not matter to (`e' is excepted).
Covers(calls, f, g, e) ==
  /\ calls \in Seq(CallSet)
  /\ \A i \in 1..Len(calls) : Suits(calls[i], g)
  /\ \A s \in Services \ e : NotCalled(s, calls) =>
       (Permitted(s, f) => Permitted(s, g)) /\ (Required(s, g) => Required(s, f))

\* A single call, a pair and a triple of them.
LEMMA CallLists ==
  ASSUME NEW g, NEW s1 \in Services, NEW b1 \in BOOLEAN, NEW s2 \in Services, NEW b2 \in BOOLEAN,
         NEW s3 \in Services, NEW b3 \in BOOLEAN,
         b1 => Permitted(s1, g), Required(s1, g) => b1
  PROVE  /\ LET l == << <<s1, b1>> >>
            IN  /\ l \in Seq(CallSet) /\ \A i \in 1..Len(l) : Suits(l[i], g)
                /\ \A s : NotCalled(s, l) => s # s1
         /\ (b2 => Permitted(s2, g)) /\ (Required(s2, g) => b2) =>
              LET l == << <<s1, b1>>, <<s2, b2>> >>
              IN  /\ l \in Seq(CallSet) /\ \A i \in 1..Len(l) : Suits(l[i], g)
                  /\ \A s : NotCalled(s, l) => s # s1 /\ s # s2
         /\ (b2 => Permitted(s2, g)) /\ (Required(s2, g) => b2)
            /\ (b3 => Permitted(s3, g)) /\ (Required(s3, g) => b3) =>
              LET l == << <<s1, b1>>, <<s2, b2>>, <<s3, b3>> >>
              IN  /\ l \in Seq(CallSet) /\ \A i \in 1..Len(l) : Suits(l[i], g)
                  /\ \A s : NotCalled(s, l) => s # s1 /\ s # s2 /\ s # s3
<1>1. <<s1, b1>> \in CallSet /\ <<s2, b2>> \in CallSet /\ <<s3, b3>> \in CallSet
  BY DEF CallSet
<1>2. Suits(<<s1, b1>>, g)
  BY DEF Suits
<1>3. (b2 => Permitted(s2, g)) /\ (Required(s2, g) => b2) => Suits(<<s2, b2>>, g)
  BY DEF Suits
<1>4. (b3 => Permitted(s3, g)) /\ (Required(s3, g) => b3) => Suits(<<s3, b3>>, g)
  BY DEF Suits
<1>5. <<s1, b1>>[1] = s1 /\ <<s2, b2>>[1] = s2 /\ <<s3, b3>>[1] = s3
  OBVIOUS
<1>6. ASSUME NEW x1 \in CallSet, NEW x2 \in CallSet, NEW x3 \in CallSet
      PROVE  /\ <<x1>> \in Seq(CallSet) /\ Len(<<x1>>) = 1 /\ <<x1>>[1] = x1
             /\ <<x1, x2>> \in Seq(CallSet) /\ Len(<<x1, x2>>) = 2
             /\ <<x1, x2>>[1] = x1 /\ <<x1, x2>>[2] = x2
             /\ <<x1, x2, x3>> \in Seq(CallSet) /\ Len(<<x1, x2, x3>>) = 3
             /\ <<x1, x2, x3>>[1] = x1 /\ <<x1, x2, x3>>[2] = x2 /\ <<x1, x2, x3>>[3] = x3
  OBVIOUS
<1> DEFINE p1 == <<s1, b1>>
           p2 == <<s2, b2>>
           p3 == <<s3, b3>>
<1> HIDE DEF p1, p2, p3
<1>7. /\ p1 \in CallSet /\ p2 \in CallSet /\ p3 \in CallSet
      /\ p1[1] = s1 /\ p2[1] = s2 /\ p3[1] = s3
      /\ Suits(p1, g)
      /\ (b2 => Permitted(s2, g)) /\ (Required(s2, g) => b2) => Suits(p2, g)
      /\ (b3 => Permitted(s3, g)) /\ (Required(s3, g) => b3) => Suits(p3, g)
  BY <1>1, <1>2, <1>3, <1>4, <1>5 DEF p1, p2, p3
<1> DEFINE l1 == <<p1>>
           l2 == <<p1, p2>>
           l3 == <<p1, p2, p3>>
<1> HIDE DEF l1, l2, l3
<1>8. l1 \in Seq(CallSet) /\ Len(l1) = 1 /\ l1[1] = p1
  BY <1>6, <1>7 DEF l1
<1>9. l2 \in Seq(CallSet) /\ Len(l2) = 2 /\ l2[1] = p1 /\ l2[2] = p2
  BY <1>6, <1>7 DEF l2
<1>10. l3 \in Seq(CallSet) /\ Len(l3) = 3 /\ l3[1] = p1 /\ l3[2] = p2 /\ l3[3] = p3
  BY <1>6, <1>7 DEF l3
<1>11. (\A i \in 1..1 : i = 1) /\ (\A i \in 1..2 : i = 1 \/ i = 2) /\ (\A i \in 1..3 : i = 1 \/ i = 2 \/ i = 3)
       /\ 1 \in 1..1 /\ {1, 2} \subseteq 1..2 /\ {1, 2, 3} \subseteq 1..3
  OBVIOUS
<1>12. (\A i \in 1..Len(l1) : Suits(l1[i], g)) /\ \A s : NotCalled(s, l1) => s # s1
  BY <1>7, <1>8, <1>11 DEF NotCalled
<1>13. /\ (b2 => Permitted(s2, g)) /\ (Required(s2, g) => b2) => \A i \in 1..Len(l2) : Suits(l2[i], g)
       /\ \A s : NotCalled(s, l2) => s # s1 /\ s # s2
  BY <1>7, <1>9, <1>11 DEF NotCalled
<1>14. /\ (b2 => Permitted(s2, g)) /\ (Required(s2, g) => b2)
         /\ (b3 => Permitted(s3, g)) /\ (Required(s3, g) => b3) =>
           \A i \in 1..Len(l3) : Suits(l3[i], g)
       /\ \A s : NotCalled(s, l3) => s # s1 /\ s # s2 /\ s # s3
  BY <1>7, <1>10, <1>11 DEF NotCalled
<1> QED BY <1>8, <1>9, <1>10, <1>12, <1>13, <1>14 DEF l1, l2, l3, p1, p2, p3

\* The conditions the handlers compute are Booleans and suit the flags.
LEMMA ConditionsSuit ==
  ASSUME NEW g \in [Flags -> BOOLEAN]
  PROVE  /\ can_sub_clipboard_service(g) \in BOOLEAN
         /\ can_sub_file_clipboard_service(g) \in BOOLEAN
         /\ audio_enabled(g) \in BOOLEAN
         /\ g["show_remote_cursor"] \in BOOLEAN /\ g["follow_remote_window"] \in BOOLEAN
         /\ (g["keyboard"] \/ g["show_remote_cursor"]) \in BOOLEAN
         /\ (peer_keyboard_enabled(g) \/ g["show_remote_cursor"]) \in BOOLEAN
         /\ Permitted("clipboard", g) <=> can_sub_clipboard_service(g)
         /\ Required("clipboard", g) <=> can_sub_clipboard_service(g)
         /\ can_sub_file_clipboard_service(g) => Permitted("file_clipboard", g)
         /\ ~Required("file_clipboard", g)
         /\ Permitted("audio", g) <=> audio_enabled(g)
         /\ Required("audio", g) <=> audio_enabled(g)
         /\ Permitted("pos", g) <=> g["show_remote_cursor"]
         /\ Required("pos", g) <=> g["show_remote_cursor"]
         /\ Permitted("window_focus", g) <=> g["follow_remote_window"]
         /\ ~Required("window_focus", g)
         /\ Permitted("cursor", g) <=> g["keyboard"] \/ g["show_remote_cursor"]
         /\ Required("cursor", g) <=> peer_keyboard_enabled(g) \/ g["show_remote_cursor"]
         /\ peer_keyboard_enabled(g) => g["keyboard"]
         /\ Permitted("video", g) /\ ~Required("video", g)
<1>1. \A x \in Flags : g[x] \in BOOLEAN
  OBVIOUS
<1>2. /\ can_sub_clipboard_service(g) \in BOOLEAN
      /\ can_sub_file_clipboard_service(g) \in BOOLEAN
      /\ audio_enabled(g) \in BOOLEAN
  BY DEF can_sub_clipboard_service, can_sub_file_clipboard_service, audio_enabled
<1>3. g["show_remote_cursor"] \in BOOLEAN /\ g["follow_remote_window"] \in BOOLEAN
  BY <1>1 DEF Flags
<1>4. /\ (g["keyboard"] \/ g["show_remote_cursor"]) \in BOOLEAN
      /\ (peer_keyboard_enabled(g) \/ g["show_remote_cursor"]) \in BOOLEAN
  OBVIOUS
<1>5. /\ Permitted("clipboard", g) <=> can_sub_clipboard_service(g)
      /\ Required("clipboard", g) <=> can_sub_clipboard_service(g)
      /\ Permitted("file_clipboard", g) <=> file_transfer_enabled(g)
      /\ ~Required("file_clipboard", g)
      /\ Permitted("audio", g) <=> audio_enabled(g)
      /\ Required("audio", g) <=> audio_enabled(g)
      /\ Permitted("pos", g) <=> g["show_remote_cursor"]
      /\ Required("pos", g) <=> g["show_remote_cursor"]
      /\ Permitted("window_focus", g) <=> g["follow_remote_window"]
      /\ ~Required("window_focus", g)
      /\ Permitted("cursor", g) <=> g["keyboard"] \/ g["show_remote_cursor"]
      /\ Required("cursor", g) <=> peer_keyboard_enabled(g) \/ g["show_remote_cursor"]
      /\ Permitted("video", g) /\ ~Required("video", g)
  BY DEF Permitted, Required
<1>6. /\ can_sub_file_clipboard_service(g) => file_transfer_enabled(g)
      /\ peer_keyboard_enabled(g) => g["keyboard"]
  BY DEF can_sub_file_clipboard_service, peer_keyboard_enabled
<1> QED BY <1>2, <1>3, <1>4, <1>5, <1>6

\* The registry calls of one operation, as a list of one.
LEMMA OneCall ==
  ASSUME NEW g, NEW s1 \in Services, NEW b1 \in BOOLEAN,
         b1 => Permitted(s1, g), Required(s1, g) => b1
  PROVE  LET l == << <<s1, b1>> >>
         IN  /\ l \in Seq(CallSet) /\ \A i \in 1..Len(l) : Suits(l[i], g)
             /\ \A s : NotCalled(s, l) => s # s1
BY CallLists

\* The same for two calls.
LEMMA TwoCalls ==
  ASSUME NEW g, NEW s1 \in Services, NEW b1 \in BOOLEAN, NEW s2 \in Services, NEW b2 \in BOOLEAN,
         b1 => Permitted(s1, g), Required(s1, g) => b1,
         b2 => Permitted(s2, g), Required(s2, g) => b2
  PROVE  LET l == << <<s1, b1>>, <<s2, b2>> >>
         IN  /\ l \in Seq(CallSet) /\ \A i \in 1..Len(l) : Suits(l[i], g)
             /\ \A s : NotCalled(s, l) => s # s1 /\ s # s2
BY CallLists, ZenonT(60)

\* The same for three calls.
LEMMA ThreeCalls ==
  ASSUME NEW g, NEW s1 \in Services, NEW b1 \in BOOLEAN, NEW s2 \in Services, NEW b2 \in BOOLEAN,
         NEW s3 \in Services, NEW b3 \in BOOLEAN,
         b1 => Permitted(s1, g), Required(s1, g) => b1,
         b2 => Permitted(s2, g), Required(s2, g) => b2,
         b3 => Permitted(s3, g), Required(s3, g) => b3
  PROVE  LET l == << <<s1, b1>>, <<s2, b2>>, <<s3, b3>> >>
         IN  /\ l \in Seq(CallSet) /\ \A i \in 1..Len(l) : Suits(l[i], g)
             /\ \A s : NotCalled(s, l) => s # s1 /\ s # s2 /\ s # s3
BY CallLists, ZenonT(60)

\* The services whose conditions look at a flag.
Reach(p) ==
  {s \in Services :
     \/ p \in {"keyboard", "disable_keyboard"} /\ s \in {"clipboard", "cursor"}
     \/ p \in {"clipboard", "disable_clipboard"} /\ s = "clipboard"
     \/ p \in {"audio", "disable_audio"} /\ s = "audio"
     \/ p \in {"file", "enable_file_transfer"} /\ s = "file_clipboard"
     \/ p = "show_remote_cursor" /\ s \in {"cursor", "pos"}
     \/ p = "follow_remote_window" /\ s = "window_focus"}

\* A change of one flag matters to no other service.
LEMMA ChangeReaches ==
  ASSUME NEW f \in [Flags -> BOOLEAN], NEW p \in Flags, NEW b \in BOOLEAN,
         NEW s \in Services \ Reach(p)
  PROVE  LET g == [f EXCEPT ![p] = b]
         IN  (Permitted(s, g) <=> Permitted(s, f)) /\ (Required(s, g) <=> Required(s, f))
<1> DEFINE g == [f EXCEPT ![p] = b]
<1>1. g \in [Flags -> BOOLEAN] /\ \A x \in Flags : x # p => g[x] = f[x]
  OBVIOUS
<1> HIDE DEF g
<1>2. /\ p # "keyboard" => g["keyboard"] = f["keyboard"]
      /\ p # "clipboard" => g["clipboard"] = f["clipboard"]
      /\ p # "audio" => g["audio"] = f["audio"]
      /\ p # "file" => g["file"] = f["file"]
      /\ p # "show_remote_cursor" => g["show_remote_cursor"] = f["show_remote_cursor"]
      /\ p # "follow_remote_window" => g["follow_remote_window"] = f["follow_remote_window"]
      /\ p # "disable_audio" => g["disable_audio"] = f["disable_audio"]
      /\ p # "enable_file_transfer" => g["enable_file_transfer"] = f["enable_file_transfer"]
      /\ p # "disable_clipboard" => g["disable_clipboard"] = f["disable_clipboard"]
      /\ p # "disable_keyboard" => g["disable_keyboard"] = f["disable_keyboard"]
  BY <1>1 DEF Flags
<1>3. p \notin {"keyboard", "disable_keyboard"} =>
        (peer_keyboard_enabled(g) <=> peer_keyboard_enabled(f))
  BY <1>2 DEF peer_keyboard_enabled
<1>4. p \notin {"audio", "disable_audio"} => (audio_enabled(g) <=> audio_enabled(f))
  BY <1>2 DEF audio_enabled
<1>5. p \notin {"file", "enable_file_transfer"} =>
        (file_transfer_enabled(g) <=> file_transfer_enabled(f))
  BY <1>2 DEF file_transfer_enabled
<1>6. p \notin {"clipboard", "disable_clipboard"} =>
        (clipboard_enabled(g) <=> clipboard_enabled(f))
  BY <1>2 DEF clipboard_enabled
<1>7. p \notin {"keyboard", "disable_keyboard", "clipboard", "disable_clipboard"} =>
        (can_sub_clipboard_service(g) <=> can_sub_clipboard_service(f))
  BY <1>3, <1>6 DEF can_sub_clipboard_service
<1>8. CASE s = "video"
  BY <1>8 DEF Permitted, Required, g
<1>9. CASE s = "cursor"
  <2>1. p \notin {"keyboard", "disable_keyboard", "show_remote_cursor"}
    BY <1>9 DEF Reach, Services
  <2>2. /\ peer_keyboard_enabled(g) <=> peer_keyboard_enabled(f)
        /\ g["keyboard"] = f["keyboard"] /\ g["show_remote_cursor"] = f["show_remote_cursor"]
    BY <2>1, <1>2, <1>3
  <2>3. (Permitted(s, g) <=> Permitted(s, f)) /\ (Required(s, g) <=> Required(s, f))
    BY <2>2, <1>9 DEF Permitted, Required
  <2> QED BY <2>3 DEF g
<1>10. CASE s = "audio"
  <2>1. audio_enabled(g) <=> audio_enabled(f)
    BY <1>10, <1>4 DEF Reach, Services
  <2>3. (Permitted(s, g) <=> Permitted(s, f)) /\ (Required(s, g) <=> Required(s, f))
    BY <2>1, <1>10 DEF Permitted, Required
  <2> QED BY <2>3 DEF g
<1>11. CASE s = "pos"
  <2>1. g["show_remote_cursor"] = f["show_remote_cursor"]
    BY <1>11, <1>2 DEF Reach, Services
  <2>3. (Permitted(s, g) <=> Permitted(s, f)) /\ (Required(s, g) <=> Required(s, f))
    BY <2>1, <1>11 DEF Permitted, Required
  <2> QED BY <2>3 DEF g
<1>12. CASE s = "window_focus"
  <2>1. g["follow_remote_window"] = f["follow_remote_window"]
    BY <1>12, <1>2 DEF Reach, Services
  <2>3. (Permitted(s, g) <=> Permitted(s, f)) /\ (Required(s, g) <=> Required(s, f))
    BY <2>1, <1>12 DEF Permitted, Required
  <2> QED BY <2>3 DEF g
<1>13. CASE s = "clipboard"
  <2>1. can_sub_clipboard_service(g) <=> can_sub_clipboard_service(f)
    BY <1>13, <1>7 DEF Reach, Services
  <2>3. (Permitted(s, g) <=> Permitted(s, f)) /\ (Required(s, g) <=> Required(s, f))
    BY <2>1, <1>13 DEF Permitted, Required
  <2> QED BY <2>3 DEF g
<1>14. CASE s = "file_clipboard"
  <2>1. file_transfer_enabled(g) <=> file_transfer_enabled(f)
    BY <1>14, <1>5 DEF Reach, Services
  <2>3. (Permitted(s, g) <=> Permitted(s, f)) /\ (Required(s, g) <=> Required(s, f))
    BY <2>1, <1>14 DEF Permitted, Required
  <2> QED BY <2>3 DEF g
<1> QED BY <1>8, <1>9, <1>10, <1>11, <1>12, <1>13, <1>14 DEF Services

\* The calls of a switched permission cover the change, except that the sound is left
\* alone before the login.
LEMMA SwitchCovers ==
  ASSUME NEW f \in [Flags -> BOOLEAN], NEW p \in Permissions, NEW b \in BOOLEAN,
         NEW a \in BOOLEAN
  PROVE  LET g == [f EXCEPT ![p] = b]
             calls == SwitchPermissionCalls(p, g, a)
         IN  /\ Covers(calls, f, g, IF a THEN {} ELSE {"audio"})
             /\ ~a => NotCalled("audio", calls)
<1> DEFINE g == [f EXCEPT ![p] = b]
<1>0. p \in Flags
  BY DEF Flags, Permissions
<1>1. g \in [Flags -> BOOLEAN]
  BY <1>0
<1>2. \A s \in Services \ Reach(p) :
        (Permitted(s, g) <=> Permitted(s, f)) /\ (Required(s, g) <=> Required(s, f))
  BY <1>0, ChangeReaches
<1> HIDE DEF g
<1>3. CASE p = "keyboard"
  <2> DEFINE b1 == can_sub_clipboard_service(g)
             b2 == can_sub_file_clipboard_service(g)
             b3 == g["keyboard"] \/ g["show_remote_cursor"]
             l == << <<"clipboard", b1>>, <<"file_clipboard", b2>>, <<"cursor", b3>> >>
  <2>1. SwitchPermissionCalls(p, g, a) = l
    BY <1>3 DEF SwitchPermissionCalls
  <2>a. /\ b1 \in BOOLEAN /\ (b1 => Permitted("clipboard", g)) /\ (Required("clipboard", g) => b1)
        /\ b2 \in BOOLEAN /\ (b2 => Permitted("file_clipboard", g)) /\ (Required("file_clipboard", g) => b2)
        /\ b3 \in BOOLEAN /\ (b3 => Permitted("cursor", g)) /\ (Required("cursor", g) => b3)
    BY <1>1, ConditionsSuit
  <2> HIDE DEF b1, b2, b3
  <2>2. /\ l \in Seq(CallSet) /\ \A i \in 1..Len(l) : Suits(l[i], g)
        /\ \A s : NotCalled(s, l) => s # "clipboard" /\ s # "file_clipboard" /\ s # "cursor"
    <3>1. "clipboard" \in Services /\ "file_clipboard" \in Services /\ "cursor" \in Services
      BY DEF Services
    <3> QED BY ONLY <2>a, <3>1, ThreeCalls, ZenonT(60)
  <2>3. \A s \in Services : NotCalled(s, l) => s \notin Reach(p)
    BY <2>2, <1>3 DEF Reach
  <2>5. NotCalled("audio", l)
    BY DEF NotCalled
  <2> HIDE DEF l
  <2>4. Covers(l, f, g, {})
    BY <2>2, <2>3, <1>2 DEF Covers
  <2> QED BY <2>1, <2>4, <2>5 DEF Covers, g
<1>4. CASE p = "clipboard"
  <2> DEFINE b1 == can_sub_clipboard_service(g)
             l == << <<"clipboard", b1>> >>
  <2>1. SwitchPermissionCalls(p, g, a) = l
    BY <1>4 DEF SwitchPermissionCalls
  <2>a. /\ b1 \in BOOLEAN /\ (b1 => Permitted("clipboard", g)) /\ (Required("clipboard", g) => b1)
    BY <1>1, ConditionsSuit
  <2> HIDE DEF b1
  <2>2. /\ l \in Seq(CallSet) /\ \A i \in 1..Len(l) : Suits(l[i], g)
        /\ \A s : NotCalled(s, l) => s # "clipboard"
    BY <2>a, OneCall DEF Services
  <2>3. \A s \in Services : NotCalled(s, l) => s \notin Reach(p)
    BY <2>2, <1>4 DEF Reach
  <2>5. NotCalled("audio", l)
    BY DEF NotCalled
  <2> HIDE DEF l
  <2>4. Covers(l, f, g, {})
    BY <2>2, <2>3, <1>2 DEF Covers
  <2> QED BY <2>1, <2>4, <2>5 DEF Covers, g
<1>5. CASE p = "audio" /\ a
  <2> DEFINE b1 == audio_enabled(g)
             l == << <<"audio", b1>> >>
  <2>1. SwitchPermissionCalls(p, g, a) = l
    BY <1>5 DEF SwitchPermissionCalls
  <2>a. /\ b1 \in BOOLEAN /\ (b1 => Permitted("audio", g)) /\ (Required("audio", g) => b1)
    BY <1>1, ConditionsSuit
  <2> HIDE DEF b1
  <2>2. /\ l \in Seq(CallSet) /\ \A i \in 1..Len(l) : Suits(l[i], g)
        /\ \A s : NotCalled(s, l) => s # "audio"
    BY <2>a, OneCall DEF Services
  <2>3. \A s \in Services : NotCalled(s, l) => s \notin Reach(p)
    BY <2>2, <1>5 DEF Reach
  <2> HIDE DEF l
  <2>4. Covers(l, f, g, {})
    BY <2>2, <2>3, <1>2 DEF Covers
  <2> QED BY <2>1, <2>4, <1>5 DEF Covers, g
<1>6. CASE p = "file"
  <2> DEFINE b1 == can_sub_file_clipboard_service(g)
             l == << <<"file_clipboard", b1>> >>
  <2>1. SwitchPermissionCalls(p, g, a) = l
    BY <1>6 DEF SwitchPermissionCalls
  <2>a. /\ b1 \in BOOLEAN /\ (b1 => Permitted("file_clipboard", g)) /\ (Required("file_clipboard", g) => b1)
    BY <1>1, ConditionsSuit
  <2> HIDE DEF b1
  <2>2. /\ l \in Seq(CallSet) /\ \A i \in 1..Len(l) : Suits(l[i], g)
        /\ \A s : NotCalled(s, l) => s # "file_clipboard"
    BY <2>a, OneCall DEF Services
  <2>3. \A s \in Services : NotCalled(s, l) => s \notin Reach(p)
    BY <2>2, <1>6 DEF Reach
  <2>5. NotCalled("audio", l)
    BY DEF NotCalled
  <2> HIDE DEF l
  <2>4. Covers(l, f, g, {})
    BY <2>2, <2>3, <1>2 DEF Covers
  <2> QED BY <2>1, <2>4, <2>5 DEF Covers, g
<1>7. CASE p = "audio" /\ ~a
  <2>1. SwitchPermissionCalls(p, g, a) = <<>>
    BY <1>7 DEF SwitchPermissionCalls
  <2>2. <<>> \in Seq(CallSet) /\ Len(<<>>) = 0 /\ \A i \in 1..0 : FALSE
    OBVIOUS
  <2>3. \A s \in Services \ {"audio"} : s \notin Reach(p)
    BY <1>7 DEF Reach
  <2>4. Covers(<<>>, f, g, {"audio"}) /\ NotCalled("audio", <<>>)
    BY <2>2, <2>3, <1>2 DEF Covers, NotCalled
  <2> QED BY <2>1, <2>4, <1>7 DEF g
<1> QED BY <1>3, <1>4, <1>5, <1>6, <1>7 DEF Permissions

\* So do the calls of a changed option.
LEMMA OptionCovers ==
  ASSUME NEW f \in [Flags -> BOOLEAN], NEW p \in Flags \ Permissions, NEW b \in BOOLEAN
  PROVE  LET g == [f EXCEPT ![p] = b] IN Covers(UpdateOptionCalls(p, g), f, g, {})
<1> DEFINE g == [f EXCEPT ![p] = b]
<1>1. g \in [Flags -> BOOLEAN]
  OBVIOUS
<1>2. \A s \in Services \ Reach(p) :
        (Permitted(s, g) <=> Permitted(s, f)) /\ (Required(s, g) <=> Required(s, f))
  BY ChangeReaches
<1> HIDE DEF g
<1>3. CASE p = "show_remote_cursor"
  <2> DEFINE b1 == peer_keyboard_enabled(g) \/ g["show_remote_cursor"]
             b2 == g["show_remote_cursor"]
             l == << <<"cursor", b1>>, <<"pos", b2>> >>
  <2>1. UpdateOptionCalls(p, g) = l
    BY <1>3 DEF UpdateOptionCalls
  <2>a. /\ b1 \in BOOLEAN /\ (b1 => Permitted("cursor", g)) /\ (Required("cursor", g) => b1)
        /\ b2 \in BOOLEAN /\ (b2 => Permitted("pos", g)) /\ (Required("pos", g) => b2)
    BY <1>1, ConditionsSuit
  <2> HIDE DEF b1, b2
  <2>2. /\ l \in Seq(CallSet) /\ \A i \in 1..Len(l) : Suits(l[i], g)
        /\ \A s : NotCalled(s, l) => s # "cursor" /\ s # "pos"
    BY <2>a, TwoCalls, ZenonT(60) DEF Services
  <2>3. \A s \in Services : NotCalled(s, l) => s \notin Reach(p)
    BY <2>2, <1>3 DEF Reach
  <2> HIDE DEF l
  <2>4. Covers(l, f, g, {})
    BY <2>2, <2>3, <1>2 DEF Covers
  <2> QED BY <2>1, <2>4 DEF Covers, g
<1>4. CASE p = "follow_remote_window"
  <2> DEFINE b1 == g["follow_remote_window"]
             l == << <<"window_focus", b1>> >>
  <2>1. UpdateOptionCalls(p, g) = l
    BY <1>4 DEF UpdateOptionCalls
  <2>a. /\ b1 \in BOOLEAN /\ (b1 => Permitted("window_focus", g)) /\ (Required("window_focus", g) => b1)
    BY <1>1, ConditionsSuit
  <2> HIDE DEF b1
  <2>2. /\ l \in Seq(CallSet) /\ \A i \in 1..Len(l) : Suits(l[i], g)
        /\ \A s : NotCalled(s, l) => s # "window_focus"
    BY <2>a, OneCall DEF Services
  <2>3. \A s \in Services : NotCalled(s, l) => s \notin Reach(p)
    BY <2>2, <1>4 DEF Reach
  <2> HIDE DEF l
  <2>4. Covers(l, f, g, {})
    BY <2>2, <2>3, <1>2 DEF Covers
  <2> QED BY <2>1, <2>4 DEF Covers, g
<1>5. CASE p = "disable_audio"
  <2> DEFINE b1 == audio_enabled(g)
             l == << <<"audio", b1>> >>
  <2>1. UpdateOptionCalls(p, g) = l
    BY <1>5 DEF UpdateOptionCalls
  <2>a. /\ b1 \in BOOLEAN /\ (b1 => Permitted("audio", g)) /\ (Required("audio", g) => b1)
    BY <1>1, ConditionsSuit
  <2> HIDE DEF b1
  <2>2. /\ l \in Seq(CallSet) /\ \A i \in 1..Len(l) : Suits(l[i], g)
        /\ \A s : NotCalled(s, l) => s # "audio"
    BY <2>a, OneCall DEF Services
  <2>3. \A s \in Services : NotCalled(s, l) => s \notin Reach(p)
    BY <2>2, <1>5 DEF Reach
  <2> HIDE DEF l
  <2>4. Covers(l, f, g, {})
    BY <2>2, <2>3, <1>2 DEF Covers
  <2> QED BY <2>1, <2>4 DEF Covers, g
<1>6. CASE p = "enable_file_transfer"
  <2> DEFINE b1 == can_sub_file_clipboard_service(g)
             l == << <<"file_clipboard", b1>> >>
  <2>1. UpdateOptionCalls(p, g) = l
    BY <1>6 DEF UpdateOptionCalls
  <2>a. /\ b1 \in BOOLEAN /\ (b1 => Permitted("file_clipboard", g)) /\ (Required("file_clipboard", g) => b1)
    BY <1>1, ConditionsSuit
  <2> HIDE DEF b1
  <2>2. /\ l \in Seq(CallSet) /\ \A i \in 1..Len(l) : Suits(l[i], g)
        /\ \A s : NotCalled(s, l) => s # "file_clipboard"
    BY <2>a, OneCall DEF Services
  <2>3. \A s \in Services : NotCalled(s, l) => s \notin Reach(p)
    BY <2>2, <1>6 DEF Reach
  <2> HIDE DEF l
  <2>4. Covers(l, f, g, {})
    BY <2>2, <2>3, <1>2 DEF Covers
  <2> QED BY <2>1, <2>4 DEF Covers, g
<1>7. CASE p = "disable_clipboard"
  <2> DEFINE b1 == can_sub_clipboard_service(g)
             l == << <<"clipboard", b1>> >>
  <2>1. UpdateOptionCalls(p, g) = l
    BY <1>7 DEF UpdateOptionCalls
  <2>a. /\ b1 \in BOOLEAN /\ (b1 => Permitted("clipboard", g)) /\ (Required("clipboard", g) => b1)
    BY <1>1, ConditionsSuit
  <2> HIDE DEF b1
  <2>2. /\ l \in Seq(CallSet) /\ \A i \in 1..Len(l) : Suits(l[i], g)
        /\ \A s : NotCalled(s, l) => s # "clipboard"
    BY <2>a, OneCall DEF Services
  <2>3. \A s \in Services : NotCalled(s, l) => s \notin Reach(p)
    BY <2>2, <1>7 DEF Reach
  <2> HIDE DEF l
  <2>4. Covers(l, f, g, {})
    BY <2>2, <2>3, <1>2 DEF Covers
  <2> QED BY <2>1, <2>4 DEF Covers, g
<1>8. CASE p = "disable_keyboard"
  <2> DEFINE b1 == can_sub_clipboard_service(g)
             b2 == can_sub_file_clipboard_service(g)
             b3 == peer_keyboard_enabled(g) \/ g["show_remote_cursor"]
             l == << <<"clipboard", b1>>, <<"file_clipboard", b2>>, <<"cursor", b3>> >>
  <2>1. UpdateOptionCalls(p, g) = l
    BY <1>8 DEF UpdateOptionCalls
  <2>a. /\ b1 \in BOOLEAN /\ (b1 => Permitted("clipboard", g)) /\ (Required("clipboard", g) => b1)
        /\ b2 \in BOOLEAN /\ (b2 => Permitted("file_clipboard", g)) /\ (Required("file_clipboard", g) => b2)
        /\ b3 \in BOOLEAN /\ (b3 => Permitted("cursor", g)) /\ (Required("cursor", g) => b3)
    BY <1>1, ConditionsSuit
  <2> HIDE DEF b1, b2, b3
  <2>2. /\ l \in Seq(CallSet) /\ \A i \in 1..Len(l) : Suits(l[i], g)
        /\ \A s : NotCalled(s, l) => s # "clipboard" /\ s # "file_clipboard" /\ s # "cursor"
    <3>1. "clipboard" \in Services /\ "file_clipboard" \in Services /\ "cursor" \in Services
      BY DEF Services
    <3> QED BY ONLY <2>a, <3>1, ThreeCalls, ZenonT(60)
  <2>3. \A s \in Services : NotCalled(s, l) => s \notin Reach(p)
    BY <2>2, <1>8 DEF Reach
  <2> HIDE DEF l
  <2>4. Covers(l, f, g, {})
    BY <2>2, <2>3, <1>2 DEF Covers
  <2> QED BY <2>1, <2>4 DEF Covers, g
<1> QED BY <1>3, <1>4, <1>5, <1>6, <1>7, <1>8 DEF Flags, Permissions

\* What login grants is permitted, and contains what is required.
LEMMA GrantedSuits ==
  ASSUME NEW f, NEW s \in Services
  PROVE  (s \in Granted(f) => Permitted(s, f)) /\ (Required(s, f) => s \in Granted(f))
<1>1. s \in Granted(f) => Permitted(s, f)
  BY DEF Granted, Permitted, peer_keyboard_enabled, can_sub_file_clipboard_service
<1>2. Required(s, f) => s \in Granted(f)
  BY DEF Granted, Required
<1> QED BY <1>1, <1>2

\* The first call of a list and the others.
LEMMA CallsDivide ==
  ASSUME NEW q \in Seq(CallSet), q # <<>>
  PROVE  /\ Tail(q) \in Seq(CallSet)
         /\ Head(q)[1] \in Services /\ Head(q)[2] \in BOOLEAN
         /\ \A s : NotCalled(s, q) <=> s # Head(q)[1] /\ NotCalled(s, Tail(q))
         /\ \A f : (\A i \in 1..Len(q) : Suits(q[i], f)) =>
              Suits(Head(q), f) /\ \A i \in 1..Len(Tail(q)) : Suits(Tail(q)[i], f)
<1> DEFINE t == Tail(q)
<1>1. /\ t \in Seq(CallSet) /\ Head(q) \in CallSet /\ Head(q) = q[1] /\ 1 \in 1..Len(q)
      /\ \A i \in 1..Len(t) : t[i] = q[i + 1] /\ i + 1 \in 1..Len(q)
      /\ \A i \in 1..Len(q) : i # 1 => i - 1 \in 1..Len(t) /\ q[i] = t[i - 1]
  OBVIOUS
<1>2. Head(q)[1] \in Services /\ Head(q)[2] \in BOOLEAN
  BY <1>1 DEF CallSet
<1> HIDE DEF t
<1>3. \A s : NotCalled(s, q) <=> s # Head(q)[1] /\ NotCalled(s, t)
  BY <1>1 DEF NotCalled
<1>4. \A f : (\A i \in 1..Len(q) : Suits(q[i], f)) =>
             Suits(Head(q), f) /\ \A i \in 1..Len(t) : Suits(t[i], f)
  BY <1>1
<1> QED BY <1>1, <1>2, <1>3, <1>4 DEF t

\* A call that returns leaves its service as it was asked to, or is recorded as raced:
\* whatever the call found, the rest of the state still suits the flags.
LEMMA ReturnKeeps ==
  ASSUME SubsIInv, NEW c \in Conns, todo[c] # <<>>, Return(c), UNCHANGED <<phase, flag>>,
         \A d \in Conns, s \in Services : d # c \/ s # Target(c) =>
           /\ SubscribedTo(d, s)' <=> SubscribedTo(d, s)
           /\ <<d, s>> \in raced' <=> <<d, s>> \in raced,
         Wanted(c) => c \in Subscribers(svc'[Target(c)]),
         ~Wanted(c) /\ c \in Subscribers(svc'[Target(c)]) => <<c, Target(c)>> \in raced'
  PROVE  /\ todo' \in [Conns -> Seq(CallSet)] /\ stage' \in [Conns -> {"idle", "read_new", "act"}]
         /\ EndsOK' /\ Consistent'
<1>1. /\ todo \in [Conns -> Seq(CallSet)] /\ stage \in [Conns -> {"idle", "read_new", "act"}]
      /\ EndsOK /\ Consistent
  BY DEF SubsIInv, SubsTypeOK, CallSet
<1>2. /\ Tail(todo[c]) \in Seq(CallSet)
      /\ Target(c) \in Services
      /\ \A s : NotCalled(s, todo[c]) <=> s # Target(c) /\ NotCalled(s, Tail(todo[c]))
      /\ \A f : (\A i \in 1..Len(todo[c]) : Suits(todo[c][i], f)) =>
           /\ Suits(Head(todo[c]), f)
           /\ \A i \in 1..Len(Tail(todo[c])) : Suits(Tail(todo[c])[i], f)
  BY <1>1, CallsDivide DEF Target
<1> DEFINE t == Tail(todo[c])
<1>3. /\ todo' = [todo EXCEPT ![c] = t]
      /\ stage' = [stage EXCEPT ![c] = "idle"]
  BY DEF Return
<1> HIDE DEF t
<1>4. todo' \in [Conns -> Seq(CallSet)] /\ stage' \in [Conns -> {"idle", "read_new", "act"}]
  BY <1>1, <1>2, <1>3 DEF t
<1>5. todo'[c] = t /\ \A d \in Conns : d # c => todo'[d] = todo[d]
  BY <1>1, <1>3
<1>6. phase[c] # "closed" /\ phase' = phase /\ flag' = flag
  BY <1>1 DEF EndsOK
<1>7. /\ \A i \in 1..Len(t) : Suits(t[i], flag[c])
      /\ Wanted(c) => Permitted(Target(c), flag[c])
      /\ Required(Target(c), flag[c]) => Wanted(c)
  BY <1>1, <1>2, <1>6 DEF Consistent, Suits, Wanted, Target, t
<1>8. EndsOK'
  <2> SUFFICES ASSUME NEW d \in Conns
               PROVE  /\ phase'[d] = "closed" =>
                           todo'[d] = <<>> /\ \A s \in Services : ~SubscribedTo(d, s)'
                      /\ phase'[d] = "login" =>
                           ~SubscribedTo(d, "audio")' /\ NotCalled("audio", todo'[d])
    BY DEF EndsOK
  <2>1. CASE d = c
    <3>1. phase[c] = "login" => "audio" # Target(c) /\ NotCalled("audio", t)
                                /\ ~SubscribedTo(c, "audio")
      BY <1>1, <1>2 DEF EndsOK, t
    <3> QED BY <2>1, <3>1, <1>5, <1>6 DEF Services
  <2>2. CASE d # c
    BY <2>2, <1>1, <1>5, <1>6 DEF EndsOK, Services
  <2> QED BY <2>1, <2>2
<1>9. Consistent'
  <2> SUFFICES ASSUME NEW d \in Conns, NEW s \in Services, phase'[d] # "closed"
               PROVE  /\ \A i \in 1..Len(todo'[d]) : Suits(todo'[d][i], flag'[d])
                      /\ NotCalled(s, todo'[d]) =>
                           /\ SubscribedTo(d, s)' =>
                                Permitted(s, flag'[d]) \/ <<d, s>> \in raced'
                           /\ phase'[d] = "subed" /\ Required(s, flag'[d]) => SubscribedTo(d, s)'
    BY DEF Consistent
  <2>1. CASE d # c
    BY <2>1, <1>1, <1>5, <1>6 DEF Consistent
  <2>2. CASE d = c /\ s # Target(c)
    <3>1. NotCalled(s, t) => NotCalled(s, todo[c])
      BY <2>2, <1>2 DEF t
    <3> QED BY <2>2, <3>1, <1>1, <1>5, <1>6, <1>7 DEF Consistent
  <2>3. CASE d = c /\ s = Target(c)
    <3>1. SubscribedTo(c, s)' <=> c \in Subscribers(svc'[s])
      BY DEF SubscribedTo
    <3> QED BY <2>3, <3>1, <1>5, <1>6, <1>7
  <2> QED BY <2>1, <2>2, <2>3
<1> QED BY <1>4, <1>8, <1>9

\* A handler that only changes flags, and lists the calls this needs.
LEMMA HandlerKeeps ==
  ASSUME SubsIInv, NEW c \in Conns, Free(c), NEW p \in Flags, NEW b \in BOOLEAN, NEW calls,
         NEW e \in SUBSET {"audio"},
         UNCHANGED <<svc, connections, server_lock, phase, stage, raced>>,
         flag' = [flag EXCEPT ![c][p] = b], todo' = [todo EXCEPT ![c] = calls],
         Covers(calls, flag[c], [flag[c] EXCEPT ![p] = b], e),
         phase[c] = "login" => NotCalled("audio", calls), phase[c] # "login" => e = {}
  PROVE  SubsIInv'
<1>1. /\ SubsTypeOK /\ MapsOK /\ CallsOK /\ EndsOK /\ Consistent
      /\ todo \in [Conns -> Seq(CallSet)] /\ flag \in [Conns -> [Flags -> BOOLEAN]]
  BY DEF SubsIInv, SubsTypeOK, CallSet
<1> DEFINE g == [flag[c] EXCEPT ![p] = b]
<1>2. g \in [Flags -> BOOLEAN] /\ flag' = [flag EXCEPT ![c] = g]
  BY <1>1
<1> HIDE DEF g
<1>3. /\ flag' \in [Conns -> [Flags -> BOOLEAN]] /\ flag'[c] = g
      /\ \A d \in Conns : d # c => flag'[d] = flag[d]
  BY <1>1, <1>2
<1>4. /\ calls \in Seq(CallSet) /\ \A i \in 1..Len(calls) : Suits(calls[i], g)
      /\ \A s \in Services \ e : NotCalled(s, calls) =>
           (Permitted(s, flag[c]) => Permitted(s, g)) /\ (Required(s, g) => Required(s, flag[c]))
  BY DEF Covers, g
<1>5. /\ todo' \in [Conns -> Seq(CallSet)] /\ todo'[c] = calls
      /\ \A d \in Conns : d # c => todo'[d] = todo[d]
  BY <1>1, <1>4
<1>6. todo[c] = <<>> /\ phase[c] # "closed" /\ \A s : NotCalled(s, todo[c])
  BY DEF Free, NotCalled
<1>7. /\ svc' = svc /\ connections' = connections /\ server_lock' = server_lock
      /\ phase' = phase /\ stage' = stage /\ raced' = raced
      /\ \A d \in Conns, s \in Services : SubscribedTo(d, s)' <=> SubscribedTo(d, s)
  BY DEF SubscribedTo
<1>8. SubsTypeOK' /\ MapsOK'
  BY <1>1, <1>3, <1>5, <1>7 DEF SubsTypeOK, MapsOK, CallSet
<1>9. CallsOK'
  <2>1. stage[c] = "idle"
    BY <1>1, <1>6 DEF CallsOK
  <2>2. \A d \in Conns : stage'[d] # "idle" => todo'[d] = todo[d] /\ Target(d)' = Target(d)
    BY <2>1, <1>5, <1>7 DEF Target
  <2> QED BY <2>2, <1>1, <1>7 DEF CallsOK
<1>10. EndsOK'
  <2> SUFFICES ASSUME NEW d \in Conns
               PROVE  /\ phase'[d] = "closed" =>
                           todo'[d] = <<>> /\ \A s \in Services : ~SubscribedTo(d, s)'
                      /\ phase'[d] = "login" =>
                           ~SubscribedTo(d, "audio")' /\ NotCalled("audio", todo'[d])
    BY DEF EndsOK
  <2>1. CASE d = c
    BY <2>1, <1>1, <1>5, <1>6, <1>7 DEF EndsOK, Services
  <2>2. CASE d # c
    BY <2>2, <1>1, <1>5, <1>7 DEF EndsOK, Services
  <2> QED BY <2>1, <2>2
<1>11. Consistent'
  <2> SUFFICES ASSUME NEW d \in Conns, NEW s \in Services, phase'[d] # "closed"
               PROVE  /\ \A i \in 1..Len(todo'[d]) : Suits(todo'[d][i], flag'[d])
                      /\ NotCalled(s, todo'[d]) =>
                           /\ SubscribedTo(d, s)' =>
                                Permitted(s, flag'[d]) \/ <<d, s>> \in raced'
                           /\ phase'[d] = "subed" /\ Required(s, flag'[d]) => SubscribedTo(d, s)'
    BY DEF Consistent
  <2>1. CASE d # c
    BY <2>1, <1>1, <1>3, <1>5, <1>7 DEF Consistent
  <2>2. CASE d = c
    <3>1. /\ SubscribedTo(c, s) => Permitted(s, flag[c]) \/ <<c, s>> \in raced
          /\ phase[c] = "subed" /\ Required(s, flag[c]) => SubscribedTo(c, s)
      BY <1>1, <1>6 DEF Consistent
    <3>2. s \in e => phase[c] = "login" /\ ~SubscribedTo(c, s)
      BY <1>1 DEF EndsOK
    <3> QED BY <2>2, <3>1, <3>2, <1>3, <1>4, <1>5, <1>7
  <2> QED BY <2>1, <2>2
<1> QED BY <1>8, <1>9, <1>10, <1>11 DEF SubsIInv

\* A change of display keeps the invariant.
LEMMA SwitchKeeps ==
  ASSUME SubsIInv, NEW c \in Conns, SwitchPermission(c)
  PROVE  SubsIInv'
<1>1. PICK p \in Permissions \cap Toggles, b \in BOOLEAN :
        /\ flag' = [flag EXCEPT ![c][p] = b]
        /\ todo' = [todo EXCEPT ![c] = SwitchPermissionCalls(p, flag'[c], phase[c] # "login")]
  BY DEF SwitchPermission
<1>2. flag \in [Conns -> [Flags -> BOOLEAN]] /\ p \in Flags
  BY DEF SubsIInv, SubsTypeOK, Flags, Permissions
<1>3. flag'[c] = [flag[c] EXCEPT ![p] = b] /\ flag[c] \in [Flags -> BOOLEAN]
  BY <1>1, <1>2
<1> DEFINE a == phase[c] # "login"
           calls == SwitchPermissionCalls(p, [flag[c] EXCEPT ![p] = b], a)
           e == IF a THEN {} ELSE {"audio"}
<1>4. a \in BOOLEAN
  OBVIOUS
<1>5. todo' = [todo EXCEPT ![c] = calls]
  BY <1>1, <1>3
<1> HIDE DEF a
<1>6. Covers(calls, flag[c], [flag[c] EXCEPT ![p] = b], e) /\ (~a => NotCalled("audio", calls))
  BY <1>3, <1>4, SwitchCovers
<1>7. Free(c) /\ UNCHANGED <<svc, connections, server_lock, phase, stage, raced>>
  BY DEF SwitchPermission
<1>8. /\ e \in SUBSET {"audio"}
      /\ phase[c] = "login" => ~a
      /\ phase[c] # "login" => e = {}
  BY DEF a
<1> HIDE DEF calls, e
<1> QED BY <1>1, <1>2, <1>5, <1>6, <1>7, <1>8, HandlerKeeps

\* An option of the client keeps the invariant.
LEMMA OptionKeeps ==
  ASSUME SubsIInv, NEW c \in Conns, UpdateOptions(c)
  PROVE  SubsIInv'
<1>1. PICK p \in Toggles \ Permissions, b \in BOOLEAN :
        /\ flag' = [flag EXCEPT ![c][p] = b]
        /\ todo' = [todo EXCEPT ![c] = UpdateOptionCalls(p, flag'[c])]
  BY DEF UpdateOptions
<1>2. flag \in [Conns -> [Flags -> BOOLEAN]] /\ p \in Flags \ Permissions
  BY TogglesAssumption DEF SubsIInv, SubsTypeOK
<1>3. flag'[c] = [flag[c] EXCEPT ![p] = b] /\ flag[c] \in [Flags -> BOOLEAN]
  BY <1>1, <1>2
<1> DEFINE calls == UpdateOptionCalls(p, [flag[c] EXCEPT ![p] = b])
<1>5. todo' = [todo EXCEPT ![c] = calls]
  BY <1>1, <1>3
<1>6. Covers(calls, flag[c], [flag[c] EXCEPT ![p] = b], {})
  BY <1>2, <1>3, OptionCovers
<1>7. /\ Free(c) /\ UNCHANGED <<svc, connections, server_lock, phase, stage, raced>>
      /\ phase[c] # "login"
  BY DEF UpdateOptions
<1> DEFINE e == {}
<1>8. /\ e \in SUBSET {"audio"} /\ e = {}
      /\ Covers(calls, flag[c], [flag[c] EXCEPT ![p] = b], e)
  BY <1>6
<1> HIDE DEF calls, e
<1> QED BY <1>1, <1>2, <1>5, <1>7, <1>8, HandlerKeeps

\* The services after a connection was added or removed.
LEMMA EndpointKeeps ==
  ASSUME SubsIInv, NEW c \in Conns, AddConnection(c) \/ RemoveConnection(c)
  PROVE  SubsIInv'
<1>1. /\ SubsTypeOK /\ MapsOK /\ CallsOK /\ EndsOK /\ Consistent
      /\ svc \in [Services -> ServiceInner]
      /\ phase \in [Conns -> {"login", "authorized", "subed", "closed"}]
      /\ connections = {d \in Conns : phase[d] = "subed"}
      /\ flag \in [Conns -> [Flags -> BOOLEAN]]
      /\ todo \in [Conns -> Seq(CallSet)]
  BY DEF SubsIInv, SubsTypeOK, CallSet
<1>2. /\ todo[c] = <<>> /\ \A s : NotCalled(s, todo[c])
      /\ phase[c] # "closed"
      /\ server_lock' = server_lock /\ flag' = flag /\ todo' = todo /\ stage' = stage
      /\ server_lock = NoConn
  BY DEF AddConnection, RemoveConnection, Free, NotCalled
<1>3. \A d \in Conns : stage[d] = "idle"
  BY <1>1, <1>2, NoConnAssumption DEF CallsOK
<1>4. CASE AddConnection(c)
  <2>1. /\ phase[c] = "authorized" /\ phase' = [phase EXCEPT ![c] = "subed"]
        /\ connections' = connections \cup {c} /\ raced' = raced
    BY <1>4 DEF AddConnection
  <2>2. /\ phase' \in [Conns -> {"login", "authorized", "subed", "closed"}]
        /\ phase'[c] = "subed" /\ \A d \in Conns : d # c => phase'[d] = phase[d]
        /\ connections' = {d \in Conns : phase'[d] = "subed"}
    BY <1>1, <2>1
  <2>3. ASSUME NEW s \in Services
        PROVE  /\ svc'[s] \in ServiceInner /\ OneMap(svc'[s])
               /\ s \notin NeedSnapshot => svc'[s].new_subscribes = {}
               /\ Subscribers(svc'[s]) =
                    Subscribers(svc[s]) \cup (IF s \in Granted(flag[c]) THEN {c} ELSE {})
    <3>1. svc[s] \in ServiceInner /\ OneMap(svc[s])
          /\ (s \notin NeedSnapshot => svc[s].new_subscribes = {})
      BY <1>1 DEF MapsOK
    <3>2. svc'[s] = IF s \in Granted(flag[c])
                    THEN on_subscribe(svc[s], c, s \in NeedSnapshot) ELSE svc[s]
      BY <1>4 DEF AddConnection
    <3> DEFINE b == s \in NeedSnapshot
    <3>3. b \in BOOLEAN
      OBVIOUS
    <3>4. LET t == on_subscribe(svc[s], c, b)
          IN  /\ t \in ServiceInner
              /\ Subscribers(t) = Subscribers(svc[s]) \cup {c}
              /\ ~b => t.new_subscribes = svc[s].new_subscribes
              /\ b => OneMap(t)
              /\ svc[s].new_subscribes = {} => OneMap(t)
      <4> HIDE DEF b
      <4> QED BY <3>1, <3>3, SubscribeAdds
    <3>5. CASE s \in Granted(flag[c])
      BY <3>1, <3>2, <3>4, <3>5
    <3>6. CASE s \notin Granted(flag[c])
      BY <3>1, <3>2, <3>6
    <3> QED BY <3>5, <3>6
  <2>4. svc' \in [Services -> ServiceInner]
    <3>1. svc' = [s \in Services |-> svc'[s]]
      BY <1>4 DEF AddConnection
    <3> QED BY <3>1, <2>3
  <2>5. \A d \in Conns, s \in Services :
          SubscribedTo(d, s)' <=> SubscribedTo(d, s) \/ (d = c /\ s \in Granted(flag[c]))
    BY <2>3 DEF SubscribedTo
  <2>6. SubsTypeOK' /\ MapsOK'
    BY <1>1, <1>2, <2>1, <2>2, <2>3, <2>4 DEF SubsTypeOK, MapsOK
  <2>7. CallsOK'
    BY <1>1, <1>2, <1>3, <2>1 DEF CallsOK
  <2>8. EndsOK'
    <3> SUFFICES ASSUME NEW d \in Conns
                 PROVE  /\ phase'[d] = "closed" =>
                             todo'[d] = <<>> /\ \A s \in Services : ~SubscribedTo(d, s)'
                        /\ phase'[d] = "login" =>
                             ~SubscribedTo(d, "audio")' /\ NotCalled("audio", todo'[d])
      BY DEF EndsOK
    <3>1. CASE d = c
      BY <3>1, <2>2
    <3>2. CASE d # c
      BY <3>2, <1>1, <1>2, <2>2, <2>5 DEF EndsOK, Services
    <3> QED BY <3>1, <3>2
  <2>9. Consistent'
    <3> SUFFICES ASSUME NEW d \in Conns, NEW s \in Services, phase'[d] # "closed"
                 PROVE  /\ \A i \in 1..Len(todo'[d]) : Suits(todo'[d][i], flag'[d])
                        /\ NotCalled(s, todo'[d]) =>
                             /\ SubscribedTo(d, s)' =>
                                  Permitted(s, flag'[d]) \/ <<d, s>> \in raced'
                             /\ phase'[d] = "subed" /\ Required(s, flag'[d]) =>
                                  SubscribedTo(d, s)'
      BY DEF Consistent
    <3>1. CASE d # c
      BY <3>1, <1>1, <1>2, <2>1, <2>2, <2>5 DEF Consistent
    <3>2. CASE d = c
      <4>1. SubscribedTo(c, s) => Permitted(s, flag[c]) \/ <<c, s>> \in raced
        BY <1>1, <1>2 DEF Consistent
      <4>2. \A i \in 1..Len(todo[c]) : Suits(todo[c][i], flag[c])
        BY <1>1, <1>2 DEF Consistent
      <4> QED BY <3>2, <4>1, <4>2, <1>2, <2>1, <2>5, GrantedSuits
    <3> QED BY <3>1, <3>2
  <2> QED BY <2>6, <2>7, <2>8, <2>9 DEF SubsIInv
<1>5. CASE RemoveConnection(c)
  <2>1. /\ phase' = [phase EXCEPT ![c] = "closed"]
        /\ connections' = connections \ {c} /\ raced' = {r \in raced : r[1] # c}
    BY <1>5 DEF RemoveConnection
  <2>2. /\ phase' \in [Conns -> {"login", "authorized", "subed", "closed"}]
        /\ phase'[c] = "closed" /\ \A d \in Conns : d # c => phase'[d] = phase[d]
        /\ connections' = {d \in Conns : phase'[d] = "subed"}
    BY <1>1, <2>1
  <2>3. ASSUME NEW s \in Services
        PROVE  /\ svc'[s] \in ServiceInner /\ OneMap(svc'[s])
               /\ s \notin NeedSnapshot => svc'[s].new_subscribes = {}
               /\ Subscribers(svc'[s]) = Subscribers(svc[s]) \ {c}
    <3>1. svc[s] \in ServiceInner /\ OneMap(svc[s])
          /\ (s \notin NeedSnapshot => svc[s].new_subscribes = {})
      BY <1>1 DEF MapsOK
    <3>2. svc'[s] = on_unsubscribe(svc[s], c)
      BY <1>5 DEF RemoveConnection
    <3>3. LET t == on_unsubscribe(svc[s], c)
          IN  /\ t \in ServiceInner
              /\ t.new_subscribes \subseteq svc[s].new_subscribes
              /\ Subscribers(t) = Subscribers(svc[s]) \ {c}
              /\ OneMap(t)
      BY <3>1, UnsubscribeRemoves
    <3> QED BY <3>1, <3>2, <3>3
  <2>4. svc' \in [Services -> ServiceInner]
    <3>1. svc' = [s \in Services |-> svc'[s]]
      BY <1>5 DEF RemoveConnection
    <3> QED BY <3>1, <2>3
  <2>5. /\ \A d \in Conns, s \in Services :
             SubscribedTo(d, s)' <=> SubscribedTo(d, s) /\ d # c
        /\ \A d \in Conns, s \in Services : d # c => (<<d, s>> \in raced' <=> <<d, s>> \in raced)
        /\ raced' \subseteq raced
    BY <2>1, <2>3 DEF SubscribedTo
  <2>6. SubsTypeOK' /\ MapsOK'
    BY <1>1, <1>2, <2>2, <2>3, <2>4, <2>5 DEF SubsTypeOK, MapsOK
  <2>7. CallsOK'
    BY <1>1, <1>2, <1>3, <2>5 DEF CallsOK
  <2>8. EndsOK'
    <3> SUFFICES ASSUME NEW d \in Conns
                 PROVE  /\ phase'[d] = "closed" =>
                             todo'[d] = <<>> /\ \A s \in Services : ~SubscribedTo(d, s)'
                        /\ phase'[d] = "login" =>
                             ~SubscribedTo(d, "audio")' /\ NotCalled("audio", todo'[d])
      BY DEF EndsOK
    <3>1. CASE d = c
      BY <3>1, <1>2, <2>2, <2>5
    <3>2. CASE d # c
      BY <3>2, <1>1, <1>2, <2>2, <2>5 DEF EndsOK, Services
    <3> QED BY <3>1, <3>2
  <2>9. Consistent'
    BY <1>1, <1>2, <2>2, <2>5 DEF Consistent
  <2> QED BY <2>6, <2>7, <2>8, <2>9 DEF SubsIInv
<1> QED BY <1>4, <1>5

\* Server::subscribe asks `subscribes'.
LEMMA BeginsKeeps ==
  ASSUME SubsIInv, NEW c \in Conns, SubscribeBegins(c)
  PROVE  SubsIInv'
<1>1. /\ SubsTypeOK /\ MapsOK /\ CallsOK /\ EndsOK /\ Consistent
      /\ todo \in [Conns -> Seq(CallSet)] /\ stage \in [Conns -> {"idle", "read_new", "act"}]
  BY DEF SubsIInv, SubsTypeOK, CallSet
<1>2. /\ todo[c] # <<>> /\ server_lock = NoConn
      /\ svc' = svc /\ connections' = connections /\ phase' = phase /\ flag' = flag
      /\ raced' = raced
      /\ \A d \in Conns, s \in Services : SubscribedTo(d, s)' <=> SubscribedTo(d, s)
  BY DEF SubscribeBegins, SubscribedTo
<1>3. \A d \in Conns : stage[d] = "idle"
  BY <1>1, <1>2, NoConnAssumption DEF CallsOK
<1>4. MapsOK'
  BY <1>1, <1>2 DEF MapsOK
<1>5. Target(c) \in Services
  BY <1>1, <1>2, CallsDivide DEF Target
<1>6. CASE Return(c) /\ Wanted(c) /\ c \in svc[Target(c)].subscribes
  <2>1. c \in Subscribers(svc'[Target(c)])
    BY <1>2, <1>6 DEF Subscribers
  <2>2. /\ todo' \in [Conns -> Seq(CallSet)] /\ stage' \in [Conns -> {"idle", "read_new", "act"}]
        /\ EndsOK' /\ Consistent'
    BY <1>2, <1>6, <2>1, ReturnKeeps
  <2>3. server_lock' = NoConn /\ \A d \in Conns : stage'[d] = "idle"
    BY <1>1, <1>3, <1>6 DEF Return
  <2>4. CallsOK'
    BY <1>1, <1>2, <2>3 DEF CallsOK
  <2>5. SubsTypeOK'
    BY <1>1, <1>2, <2>2, <2>3 DEF SubsTypeOK, CallSet
  <2> QED BY <1>4, <2>2, <2>4, <2>5 DEF SubsIInv
<1>7. ASSUME NEW st \in {"read_new", "act"}, stage' = [stage EXCEPT ![c] = st], server_lock' = c,
             todo' = todo, st = "read_new" => c \notin svc[Target(c)].subscribes
      PROVE  SubsIInv'
  <2>1. /\ stage' \in [Conns -> {"idle", "read_new", "act"}]
        /\ stage'[c] = st /\ \A d \in Conns : d # c => stage'[d] = "idle"
        /\ \A d \in Conns : Target(d)' = Target(d)
    BY <1>1, <1>3, <1>7 DEF Target
  <2>2. CallsOK'
    BY <1>1, <1>2, <1>7, <2>1 DEF CallsOK
  <2>3. SubsTypeOK'
    BY <1>1, <1>2, <1>7, <2>1 DEF SubsTypeOK
  <2>4. EndsOK' /\ Consistent'
    BY <1>1, <1>2, <1>7 DEF EndsOK, Consistent, Services
  <2> QED BY <1>4, <2>2, <2>3, <2>4 DEF SubsIInv
<1>8. \/ Return(c) /\ Wanted(c) /\ c \in svc[Target(c)].subscribes
      \/ stage' = [stage EXCEPT ![c] = "act"] /\ server_lock' = c /\ todo' = todo
      \/ /\ stage' = [stage EXCEPT ![c] = "read_new"] /\ server_lock' = c /\ todo' = todo
         /\ c \notin svc[Target(c)].subscribes
  BY DEF SubscribeBegins
<1>9. CASE stage' = [stage EXCEPT ![c] = "act"] /\ server_lock' = c /\ todo' = todo
  BY <1>7, <1>9
<1>10. CASE /\ stage' = [stage EXCEPT ![c] = "read_new"] /\ server_lock' = c /\ todo' = todo
            /\ c \notin svc[Target(c)].subscribes
  BY <1>7, <1>10
<1> QED BY <1>6, <1>8, <1>9, <1>10

\* It asks `new_subscribes': a subscribed connection that neither read found was moved
\* in between, which only the thread of a service that takes snapshots does.
LEMMA ReadsNewKeeps ==
  ASSUME SubsIInv, NEW c \in Conns, SubscribeReadsNew(c)
  PROVE  SubsIInv'
<1>1. /\ SubsTypeOK /\ MapsOK /\ CallsOK /\ EndsOK /\ Consistent
      /\ todo \in [Conns -> Seq(CallSet)] /\ stage \in [Conns -> {"idle", "read_new", "act"}]
      /\ raced \in SUBSET (Conns \X Services)
  BY DEF SubsIInv, SubsTypeOK, CallSet
<1>2. /\ stage[c] = "read_new"
      /\ svc' = svc /\ connections' = connections /\ phase' = phase /\ flag' = flag
      /\ \A d \in Conns, s \in Services : SubscribedTo(d, s)' <=> SubscribedTo(d, s)
  BY DEF SubscribeReadsNew, SubscribedTo
<1>3. /\ todo[c] # <<>> /\ server_lock = c
      /\ \A d \in Conns : d # c => stage[d] = "idle"
  BY <1>1, <1>2 DEF CallsOK
<1>4. MapsOK'
  BY <1>1, <1>2 DEF MapsOK
<1>5. Target(c) \in Services /\ Wanted(c) \in BOOLEAN
  BY <1>1, <1>3, CallsDivide DEF Target, Wanted
<1>6. CASE /\ (c \in svc[Target(c)].new_subscribes) = Wanted(c) /\ Return(c)
           /\ raced' = IF c \in svc[Target(c)].subscribes /\ ~Wanted(c)
                       THEN raced \cup {<<c, Target(c)>>} ELSE raced
  <2>0. (c \in svc[Target(c)].new_subscribes) <=> Wanted(c)
    BY <1>5, <1>6
  <2>1. /\ Wanted(c) => c \in Subscribers(svc'[Target(c)])
        /\ ~Wanted(c) /\ c \in Subscribers(svc'[Target(c)]) =>
             c \in svc[Target(c)].subscribes /\ <<c, Target(c)>> \in raced'
    BY <1>2, <1>6, <2>0 DEF Subscribers
  <2>2. /\ raced' \in SUBSET (Conns \X Services)
        /\ \A d \in Conns, s \in Services : d # c \/ s # Target(c) =>
             (<<d, s>> \in raced' <=> <<d, s>> \in raced)
    BY <1>1, <1>5, <1>6
  <2>3. /\ todo' \in [Conns -> Seq(CallSet)] /\ stage' \in [Conns -> {"idle", "read_new", "act"}]
        /\ EndsOK' /\ Consistent'
    BY <1>2, <1>3, <1>6, <2>1, <2>2, ReturnKeeps
  <2>4. server_lock' = NoConn /\ \A d \in Conns : stage'[d] = "idle"
    BY <1>1, <1>3, <1>6 DEF Return
  <2>5. \A d \in Conns, s \in Services : <<d, s>> \in raced' => s \in NeedSnapshot
    <3>1. c \in svc[Target(c)].subscribes => Target(c) \in NeedSnapshot
      BY <1>1, <1>2 DEF CallsOK
    <3>2. \A d \in Conns, s \in Services : <<d, s>> \in raced => s \in NeedSnapshot
      BY <1>1 DEF CallsOK
    <3> QED BY <1>6, <3>1, <3>2
  <2>6. CallsOK'
    BY <2>4, <2>5 DEF CallsOK
  <2>7. SubsTypeOK'
    BY <1>1, <1>2, <2>2, <2>3, <2>4 DEF SubsTypeOK, CallSet
  <2> QED BY <1>4, <2>3, <2>6, <2>7 DEF SubsIInv
<1>7. CASE /\ stage' = [stage EXCEPT ![c] = "act"]
           /\ server_lock' = server_lock /\ todo' = todo /\ raced' = raced
  <2>1. /\ stage' \in [Conns -> {"idle", "read_new", "act"}]
        /\ stage'[c] = "act" /\ \A d \in Conns : d # c => stage'[d] = "idle"
    BY <1>1, <1>3, <1>7
  <2>2. CallsOK'
    BY <1>1, <1>3, <1>7, <2>1 DEF CallsOK
  <2>3. SubsTypeOK'
    BY <1>1, <1>2, <1>7, <2>1 DEF SubsTypeOK
  <2>4. EndsOK' /\ Consistent'
    BY <1>1, <1>2, <1>7 DEF EndsOK, Consistent, Services
  <2> QED BY <1>4, <2>2, <2>3, <2>4 DEF SubsIInv
<1> QED BY <1>6, <1>7 DEF SubscribeReadsNew

\* It subscribes or unsubscribes the connection.
LEMMA ActsKeeps ==
  ASSUME SubsIInv, NEW c \in Conns, SubscribeActs(c)
  PROVE  SubsIInv'
<1>1. /\ SubsTypeOK /\ MapsOK /\ CallsOK /\ EndsOK /\ Consistent
      /\ svc \in [Services -> ServiceInner]
      /\ todo \in [Conns -> Seq(CallSet)] /\ stage \in [Conns -> {"idle", "read_new", "act"}]
      /\ raced \in SUBSET (Conns \X Services)
  BY DEF SubsIInv, SubsTypeOK, CallSet
<1>2. /\ stage[c] = "act" /\ Return(c)
      /\ raced' = raced \ {<<c, Target(c)>>}
      /\ connections' = connections /\ phase' = phase /\ flag' = flag
  BY DEF SubscribeActs
<1>3. /\ todo[c] # <<>> /\ server_lock = c
      /\ \A d \in Conns : d # c => stage[d] = "idle"
  BY <1>1, <1>2 DEF CallsOK
<1>5. Target(c) \in Services /\ Wanted(c) \in BOOLEAN
  BY <1>1, <1>3, CallsDivide DEF Target, Wanted
<1> DEFINE s0 == Target(c)
           b == s0 \in NeedSnapshot
           t == IF Wanted(c) THEN on_subscribe(svc[s0], c, b) ELSE on_unsubscribe(svc[s0], c)
<1>6. svc' = [svc EXCEPT ![s0] = t]
  BY DEF SubscribeActs
<1>7. svc[s0] \in ServiceInner /\ OneMap(svc[s0]) /\ (~b => svc[s0].new_subscribes = {})
  BY <1>1, <1>5 DEF MapsOK
<1>8. b \in BOOLEAN
  OBVIOUS
<1>9. /\ t \in ServiceInner /\ OneMap(t)
      /\ ~b => t.new_subscribes = {}
      /\ Wanted(c) => Subscribers(t) = Subscribers(svc[s0]) \cup {c}
      /\ ~Wanted(c) => Subscribers(t) = Subscribers(svc[s0]) \ {c}
  <2> HIDE DEF b, s0
  <2>1. CASE Wanted(c)
    BY <2>1, <1>7, <1>8, SubscribeAdds
  <2>2. CASE ~Wanted(c)
    BY <2>2, <1>7, UnsubscribeRemoves
  <2> QED BY <2>1, <2>2
<1> HIDE DEF t
<1>10. /\ svc' \in [Services -> ServiceInner] /\ svc'[s0] = t
       /\ \A s \in Services : s # s0 => svc'[s] = svc[s]
  BY <1>1, <1>5, <1>6, <1>9
<1>11. MapsOK'
  BY <1>1, <1>9, <1>10 DEF MapsOK
<1>12. /\ \A d \in Conns, s \in Services : d # c \/ s # Target(c) =>
            /\ SubscribedTo(d, s)' <=> SubscribedTo(d, s)
            /\ <<d, s>> \in raced' <=> <<d, s>> \in raced
       /\ Wanted(c) => c \in Subscribers(svc'[Target(c)])
       /\ ~Wanted(c) => c \notin Subscribers(svc'[Target(c)])
  BY <1>2, <1>5, <1>9, <1>10 DEF SubscribedTo
<1>13. /\ todo' \in [Conns -> Seq(CallSet)] /\ stage' \in [Conns -> {"idle", "read_new", "act"}]
       /\ EndsOK' /\ Consistent'
  BY <1>2, <1>3, <1>12, ReturnKeeps
<1>14. server_lock' = NoConn /\ \A d \in Conns : stage'[d] = "idle"
  BY <1>1, <1>2, <1>3 DEF Return
<1>15. CallsOK'
  BY <1>1, <1>2, <1>14 DEF CallsOK
<1>16. SubsTypeOK'
  BY <1>1, <1>2, <1>10, <1>13, <1>14 DEF SubsTypeOK, CallSet
<1> QED BY <1>11, <1>13, <1>15, <1>16 DEF SubsIInv

\* Each step keeps the invariant.
LEMMA SubsStep ==
  SubsIInv /\ [SubsNext]_subsVars => SubsIInv'
<1> SUFFICES ASSUME SubsIInv, [SubsNext]_subsVars PROVE SubsIInv'
  OBVIOUS
<1>1. /\ SubsTypeOK /\ MapsOK /\ CallsOK /\ EndsOK /\ Consistent
      /\ svc \in [Services -> ServiceInner]
      /\ phase \in [Conns -> {"login", "authorized", "subed", "closed"}]
  BY DEF SubsIInv, SubsTypeOK
<1>2. ASSUME NEW c \in Conns, Authorize(c) PROVE SubsIInv'
  <2>1. /\ phase[c] = "login" /\ phase' = [phase EXCEPT ![c] = "authorized"]
        /\ svc' = svc /\ connections' = connections /\ server_lock' = server_lock
        /\ flag' = flag /\ todo' = todo /\ stage' = stage /\ raced' = raced
        /\ \A d \in Conns, s \in Services : SubscribedTo(d, s)' <=> SubscribedTo(d, s)
    BY <1>2 DEF Authorize, SubscribedTo
  <2>2. /\ phase' \in [Conns -> {"login", "authorized", "subed", "closed"}]
        /\ phase'[c] = "authorized" /\ \A d \in Conns : d # c => phase'[d] = phase[d]
    BY <1>1, <2>1
  <2>3. SubsTypeOK' /\ MapsOK' /\ CallsOK'
    BY <1>1, <2>1, <2>2 DEF SubsTypeOK, MapsOK, CallsOK, Target
  <2>4. EndsOK' /\ Consistent'
    BY <1>1, <2>1, <2>2, ZenonT(60) DEF EndsOK, Consistent, Services
  <2> QED BY <2>3, <2>4 DEF SubsIInv
<1>3. ASSUME NEW s \in NeedSnapshot, ServiceSwaps(s) PROVE SubsIInv'
  <2>1. /\ svc' = [svc EXCEPT ![s] = swap_new_subscribes(svc[s])]
        /\ connections' = connections /\ server_lock' = server_lock /\ phase' = phase
        /\ flag' = flag /\ todo' = todo /\ stage' = stage /\ raced' = raced
        /\ s \in Services
    BY <1>3 DEF ServiceSwaps, NeedSnapshot, Services
  <2> DEFINE t == swap_new_subscribes(svc[s])
  <2>2. /\ t \in ServiceInner /\ OneMap(t) /\ Subscribers(t) = Subscribers(svc[s])
    BY <1>1, <2>1, SwapMoves
  <2> HIDE DEF t
  <2>3. /\ svc' \in [Services -> ServiceInner] /\ svc'[s] = t
        /\ \A r \in Services : r # s => svc'[r] = svc[r]
    BY <1>1, <2>1, <2>2 DEF t
  <2>4. \A d \in Conns, r \in Services : SubscribedTo(d, r)' <=> SubscribedTo(d, r)
    BY <2>2, <2>3 DEF SubscribedTo
  <2>5. SubsTypeOK' /\ MapsOK'
    BY <1>1, <2>1, <2>2, <2>3 DEF SubsTypeOK, MapsOK
  <2>6. CallsOK'
    <3>1. \A d \in Conns : stage[d] # "idle" => Target(d) \in Services /\ Target(d)' = Target(d)
      BY <1>1, <2>1, CallsDivide DEF CallsOK, SubsTypeOK, CallSet, Target
    <3> QED BY <1>1, <2>1, <2>3, <3>1 DEF CallsOK
  <2>7. EndsOK' /\ Consistent'
    BY <1>1, <2>1, <2>4 DEF EndsOK, Consistent, Services
  <2> QED BY <2>5, <2>6, <2>7 DEF SubsIInv
<1>4. CASE UNCHANGED subsVars
  <2>1. /\ svc' = svc /\ connections' = connections /\ server_lock' = server_lock
        /\ phase' = phase /\ flag' = flag /\ todo' = todo /\ stage' = stage /\ raced' = raced
    BY <1>4 DEF subsVars
  <2>2. SubsTypeOK' /\ MapsOK' /\ CallsOK'
    BY <1>1, <2>1 DEF SubsTypeOK, MapsOK, CallsOK, Target
  <2>3. EndsOK' /\ Consistent'
    BY <1>1, <2>1 DEF EndsOK, Consistent, SubscribedTo
  <2> QED BY <2>2, <2>3 DEF SubsIInv
<1> QED BY <1>2, <1>3, <1>4, SwitchKeeps, OptionKeeps, EndpointKeeps, BeginsKeeps,
           ReadsNewKeeps, ActsKeeps DEF SubsNext

\* The invariant holds of the subscriptions from their start.
THEOREM SubsInductive == SubsSpec => []SubsIInv
<1>1. SubsInit => SubsIInv
  <2> SUFFICES ASSUME SubsInit PROVE SubsIInv
    OBVIOUS
  <2>1. /\ \A s \in Services : svc[s] = New
        /\ \A c \in Conns : todo[c] = <<>> /\ stage[c] = "idle" /\ phase[c] \in {"login", "closed"}
        /\ raced = {} /\ connections = {}
    BY DEF SubsInit
  <2>2. SubsTypeOK
    <3>1. svc \in [Services -> ServiceInner]
      BY NewService DEF SubsInit
    <3>2. flag \in [Conns -> [Flags -> BOOLEAN]]
      <4>1. PICK refused \in [Conns -> SUBSET (Permissions \cap Toggles)] :
              flag = [c \in Conns |-> [f \in Flags |-> f \in Permissions \ refused[c]]]
        BY DEF SubsInit
      <4>2. \A c \in Conns :
              [f \in Flags |-> f \in Permissions \ refused[c]] \in [Flags -> BOOLEAN]
        OBVIOUS
      <4> QED BY <4>1, <4>2
    <3>3. todo \in [Conns -> Seq(Services \X BOOLEAN)]
      BY DEF SubsInit
    <3>4. stage \in [Conns -> {"idle", "read_new", "act"}]
      BY DEF SubsInit
    <3>5. phase \in [Conns -> {"login", "authorized", "subed", "closed"}]
      BY DEF SubsInit
    <3>6. connections = {c \in Conns : phase[c] = "subed"}
      BY <2>1
    <3> QED BY <3>1, <3>2, <3>3, <3>4, <3>5, <3>6 DEF SubsInit, SubsTypeOK
  <2>3. \A c \in Conns, s \in Services : ~SubscribedTo(c, s) /\ NotCalled(s, todo[c])
    BY <2>1, NewService DEF SubscribedTo, NotCalled
  <2>4. MapsOK
    BY <2>1, NewService DEF MapsOK, New
  <2>5. CallsOK
    BY <2>1 DEF CallsOK
  <2>6. EndsOK
    BY <2>1, <2>3 DEF EndsOK, Services
  <2>7. Consistent
    BY <2>1, <2>3 DEF Consistent
  <2> QED BY <2>2, <2>4, <2>5, <2>6, <2>7 DEF SubsIInv
<1> QED BY <1>1, SubsStep, PTL DEF SubsSpec

\* After any sequence of permission switches and option changes, a connection that has
\* logged in is subscribed to what its flags grant.
THEOREM GrantedAlwaysSubscribed == SubsSpec => []GrantedAreSubscribed
<1>1. SubsIInv => GrantedAreSubscribed
  <2> SUFFICES ASSUME SubsIInv, NEW c \in Conns, Settled(c)
               PROVE  /\ SubscribedTo(c, "clipboard") <=> can_sub_clipboard_service(flag[c])
                      /\ SubscribedTo(c, "pos") <=> flag[c]["show_remote_cursor"]
                      /\ peer_keyboard_enabled(flag[c]) \/ flag[c]["show_remote_cursor"]
                           => SubscribedTo(c, "cursor")
                      /\ audio_enabled(flag[c]) => SubscribedTo(c, "audio")
    BY DEF GrantedAreSubscribed
  <2>1. /\ phase[c] = "subed" /\ \A s : NotCalled(s, todo[c])
        /\ flag[c] \in [Flags -> BOOLEAN]
    BY DEF Settled, NotCalled, SubsIInv, SubsTypeOK
  <2>2. \A s \in Services :
          /\ SubscribedTo(c, s) => Permitted(s, flag[c]) \/ <<c, s>> \in raced
          /\ Required(s, flag[c]) => SubscribedTo(c, s)
          /\ <<c, s>> \in raced => s \in NeedSnapshot
    BY <2>1 DEF SubsIInv, Consistent, CallsOK
  <2>3. /\ {"clipboard", "pos", "cursor", "audio"} \subseteq Services
        /\ "clipboard" \notin NeedSnapshot /\ "pos" \notin NeedSnapshot
    BY DEF Services, NeedSnapshot
  <2> QED BY <2>1, <2>2, <2>3, ConditionsSuit
<1> QED BY <1>1, SubsInductive, PTL

\* A withdrawn permission ends the subscription, apart from the unsubscribe that
\* is_subed talks Server::subscribe out of; a closed connection has none.
THEOREM NoneEverOutlivesItsPermission == SubsSpec => []NoneOutlivesItsPermission
<1>1. SubsIInv => NoneOutlivesItsPermission
  <2> SUFFICES ASSUME SubsIInv, NEW c \in Conns
               PROVE  /\ Settled(c) =>
                           /\ SubscribedTo(c, "file_clipboard") => file_transfer_enabled(flag[c])
                           /\ SubscribedTo(c, "window_focus") => flag[c]["follow_remote_window"]
                           /\ SubscribedTo(c, "audio") =>
                                audio_enabled(flag[c]) \/ <<c, "audio">> \in raced
                           /\ SubscribedTo(c, "cursor") =>
                                \/ flag[c]["keyboard"] \/ flag[c]["show_remote_cursor"]
                                \/ <<c, "cursor">> \in raced
                      /\ phase[c] = "closed" => \A s \in Services : ~SubscribedTo(c, s)
    BY DEF NoneOutlivesItsPermission
  <2>1. phase[c] = "closed" => \A s \in Services : ~SubscribedTo(c, s)
    BY DEF SubsIInv, EndsOK
  <2>2. Settled(c) => \A s \in Services :
          /\ SubscribedTo(c, s) => Permitted(s, flag[c]) \/ <<c, s>> \in raced
          /\ <<c, s>> \in raced => s \in NeedSnapshot
    BY DEF SubsIInv, Consistent, CallsOK, Settled, NotCalled
  <2>3. /\ {"file_clipboard", "window_focus", "cursor", "audio"} \subseteq Services
        /\ "file_clipboard" \notin NeedSnapshot /\ "window_focus" \notin NeedSnapshot
    BY DEF Services, NeedSnapshot
  <2>4. /\ Permitted("file_clipboard", flag[c]) => file_transfer_enabled(flag[c])
        /\ Permitted("window_focus", flag[c]) => flag[c]["follow_remote_window"]
        /\ Permitted("audio", flag[c]) => audio_enabled(flag[c])
        /\ Permitted("cursor", flag[c]) => flag[c]["keyboard"] \/ flag[c]["show_remote_cursor"]
    BY DEF Permitted
  <2> QED BY <2>1, <2>2, <2>3, <2>4
<1> QED BY <1>1, SubsInductive, PTL
=============================================================================
