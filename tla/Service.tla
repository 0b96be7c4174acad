------------------------------ MODULE Service ------------------------------
(***************************************************************************)
(* The state of one service and the operations on it, src/server/          *)
(* service.rs.  A service keeps the connections it publishes to in two     *)
(* maps: `subscribes', which every message goes to, and `new_subscribes',  *)
(* connections that first have to be brought up to date by a snapshot.     *)
(*                                                                         *)
(* ServiceTmpl wraps its ServiceInner in an RwLock and takes the lock once *)
(* per method, so each operator below is one critical section.  Methods    *)
(* that take the lock more than once (is_subed, snapshot, join) are split  *)
(* into their sections, which the modules that use them interleave.        *)
(***************************************************************************)
EXTENDS FiniteSets

CONSTANT Conns              \* connection ids (Server::get_new_id: never reused)

\* What ServiceInner holds that its methods tell apart (the name, the thread
\* handle and need_snapshot are fixed at creation, the options are separate).
ServiceInner == [subscribes : SUBSET Conns,
                 new_subscribes : SUBSET Conns,
                 active : BOOLEAN]

\* ServiceTmpl::new
New == [subscribes |-> {}, new_subscribes |-> {}, active |-> TRUE]

\* ServiceInner::has_subscribes
has_subscribes(s) == s.subscribes # {} \/ s.new_subscribes # {}

\* Service::ok
ok(s) == s.active /\ has_subscribes(s)

\* Everyone who is subscribed, in whichever map.
Subscribers(s) == s.subscribes \cup s.new_subscribes

\* Mutated form of on_subscribe: `subscribes' is not searched first.
on_subscribe_unchecked(s, c, need_snapshot) ==
  IF need_snapshot
  THEN [s EXCEPT !.new_subscribes = @ \cup {c}]
  ELSE [s EXCEPT !.subscribes = @ \cup {c}]

\* Service::on_subscribe.  A connection that is already in `subscribes' is left
\* where it is; inserting into a map a key it holds changes nothing either.
on_subscribe(s, c, need_snapshot) ==
  IF c \in s.subscribes THEN s
  ELSE IF need_snapshot
       THEN [s EXCEPT !.new_subscribes = @ \cup {c}]
       ELSE [s EXCEPT !.subscribes = @ \cup {c}]

\* Mutated form of on_unsubscribe: new subscribers are forgotten.
on_unsubscribe_old(s, c) == [s EXCEPT !.subscribes = @ \ {c}]

\* Service::on_unsubscribe: `new_subscribes' is only searched when the
\* connection was not found in `subscribes'.
on_unsubscribe(s, c) ==
  IF c \in s.subscribes
  THEN [s EXCEPT !.subscribes = @ \ {c}]
  ELSE [s EXCEPT !.new_subscribes = @ \ {c}]

\* ServiceInner::swap_new_subscribes, run by Drop for ServiceSwap.
swap_new_subscribes(s) ==
  [s EXCEPT !.subscribes = @ \cup s.new_subscribes, !.new_subscribes = {}]

\* The section of Service::join that clears `active'; the thread is then joined.
deactivate(s) == [s EXCEPT !.active = FALSE]

\* A connection is in at most one of the maps.  on_unsubscribe relies on it: it
\* removes the connection from one map only.
OneMap(s) == s.subscribes \cap s.new_subscribes = {}
=============================================================================
