--------------------------- MODULE ServiceProofs ---------------------------
(* What the operations of Service do to a service, for any connections.    *)
EXTENDS Service, TLAPS

\* A new service has no subscribers.
LEMMA NewService ==
  New \in ServiceInner /\ OneMap(New) /\ Subscribers(New) = {}
BY DEF New, ServiceInner, OneMap, Subscribers

\* on_subscribe adds the connection, to one map; it touches `subscribes' only when
\* the service takes no snapshots.
LEMMA SubscribeAdds ==
  ASSUME NEW s \in ServiceInner, NEW c \in Conns, NEW b \in BOOLEAN
  PROVE  LET t == on_subscribe(s, c, b)
         IN  /\ t \in ServiceInner
             /\ t.active = s.active
             /\ Subscribers(t) = Subscribers(s) \cup {c}
             /\ b => t.subscribes = s.subscribes
             /\ ~b => t.new_subscribes = s.new_subscribes
             /\ OneMap(s) /\ b => OneMap(t)
             /\ OneMap(s) /\ s.new_subscribes = {} => OneMap(t)
BY DEF ServiceInner, on_subscribe, Subscribers, OneMap

\* on_unsubscribe removes the connection for good if it is in one map only.
LEMMA UnsubscribeRemoves ==
  ASSUME NEW s \in ServiceInner, NEW c \in Conns
  PROVE  LET t == on_unsubscribe(s, c)
         IN  /\ t \in ServiceInner
             /\ t.active = s.active
             /\ t.subscribes = s.subscribes \ {c}
             /\ t.new_subscribes \subseteq s.new_subscribes
             /\ Subscribers(t) \subseteq Subscribers(s)
             /\ OneMap(s) => Subscribers(t) = Subscribers(s) \ {c}
             /\ OneMap(s) => OneMap(t)
BY DEF ServiceInner, on_unsubscribe, Subscribers, OneMap

\* The swap moves everyone into `subscribes' and loses nobody.
LEMMA SwapMoves ==
  ASSUME NEW s \in ServiceInner
  PROVE  LET t == swap_new_subscribes(s)
         IN  /\ t \in ServiceInner
             /\ t.active = s.active
             /\ t.subscribes = Subscribers(s)
             /\ t.new_subscribes = {}
             /\ Subscribers(t) = Subscribers(s)
             /\ OneMap(t)
BY DEF ServiceInner, swap_new_subscribes, Subscribers, OneMap

\* Joining leaves the subscribers alone.
LEMMA DeactivateKeeps ==
  ASSUME NEW s \in ServiceInner
  PROVE  LET t == deactivate(s)
         IN  /\ t \in ServiceInner
             /\ t.subscribes = s.subscribes
             /\ t.new_subscribes = s.new_subscribes
             /\ Subscribers(t) = Subscribers(s)
             /\ OneMap(s) => OneMap(t)
BY DEF ServiceInner, deactivate, Subscribers, OneMap
=============================================================================
