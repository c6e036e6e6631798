----------------------------- MODULE HubProofs -----------------------------
(***************************************************************************)
(* Theorems about Hub for any number of clients, events and subscriptions: *)
(* subscriptions follow the clients, a client's channel is closed exactly  *)
(* when the client has been removed, and what a client is given is new to  *)
(* it and in order.                                                        *)
(***************************************************************************)
EXTENDS Hub, TLAPS

(* The part of the state the hub's mutex protects, and who may be in it.   *)
HubTyped == /\ registered \subseteq Clients
            /\ made \in Nat /\ sub \in Nat /\ sub <= made
            /\ handler \in [Clients -> HandlerStates]

RegisteredArePresent == \A c \in registered : handler[c] # "absent"

HubInv == /\ HubTyped /\ RegisteredArePresent
          /\ SubscribedIffClients /\ ClosedIffRemoved

(* The hub starts without clients and without a subscription.              *)
LEMMA InitHub == Init => HubInv
BY DEF Init, HubInv, HubTyped, HandlerStates, RegisteredArePresent, SubscribedIffClients,
       ClosedIffRemoved

(* Steps that leave the hub alone and only move a handler further on.      *)
LEMMA OutsideHub ==
  ASSUME HubInv, UNCHANGED hub, handler' \in [Clients -> HandlerStates],
         \A c \in Clients : (handler'[c] = "absent") <=> (handler[c] = "absent")
  PROVE  HubInv'
BY DEF HubInv, HubTyped, RegisteredArePresent, SubscribedIffClients,
       ClosedIffRemoved, hub

(* Subscribe (hub.go): the first client of a conversation opens its        *)
(* subscription.                                                           *)
LEMMA SubscribeInv ==
  ASSUME HubInv, NEW c \in Clients, Subscribe(c)
  PROVE  HubInv'
<1>1. HubTyped' /\ RegisteredArePresent'
  BY DEF HubInv, HubTyped, RegisteredArePresent, Subscribe, HandlerStates
<1>2. SubscribedIffClients'
  <2>1. CASE sub = 0
    BY <2>1 DEF HubInv, HubTyped, SubscribedIffClients, Subscribe
  <2>2. CASE sub # 0
    BY <2>2 DEF HubInv, HubTyped, SubscribedIffClients, Subscribe
  <2> QED BY <2>1, <2>2
<1>3. ClosedIffRemoved'
  BY DEF HubInv, HubTyped, ClosedIffRemoved, Subscribe
<1> QED BY <1>1, <1>2, <1>3 DEF HubInv

(* Whoever calls Unsubscribe, for a client that is there or not.           *)
LEMMA UnsubscribeInv ==
  ASSUME HubInv, NEW c, Unsubscribe(c), made' = made,
         handler' \in [Clients -> HandlerStates],
         \A d \in Clients : (handler'[d] = "absent") <=> (handler[d] = "absent")
  PROVE  HubInv'
<1>1. HubTyped' /\ RegisteredArePresent'
  BY DEF HubInv, HubTyped, RegisteredArePresent, Unsubscribe
<1>2. SubscribedIffClients'
  BY DEF HubInv, HubTyped, SubscribedIffClients, Unsubscribe
<1>3. ClosedIffRemoved'
  BY DEF HubInv, HubTyped, RegisteredArePresent, ClosedIffRemoved, Unsubscribe
<1> QED BY <1>1, <1>2, <1>3 DEF HubInv

(* The invariant is inductive: one case for each disjunct of Next.         *)
LEMMA HubNext == HubInv /\ [Next]_vars => HubInv'
<1> SUFFICES ASSUME HubInv, [Next]_vars PROVE HubInv'
  OBVIOUS
<1> USE DEF HubInv, HubTyped, HandlerStates
<1>1. ASSUME NEW c \in Clients, Subscribe(c) PROVE HubInv'
  BY <1>1, SubscribeInv
<1>2. ASSUME NEW c \in Clients, Handle(c) PROVE HubInv'
  <2>1. CASE StartPumps(c)
    BY <2>1, OutsideHub DEF StartPumps
  <2>2. CASE ReadFails(c)
    BY <2>2, OutsideHub DEF ReadFails
  <2>3. CASE PublishTypingStopped(c)
    BY <2>3, OutsideHub DEF PublishTypingStopped
  <2>4. CASE Leave(c)
    BY <2>4, UnsubscribeInv DEF Leave
  <2> QED BY <1>2, <2>1, <2>2, <2>3, <2>4 DEF Handle
<1>3. ASSUME NEW c \in Clients, Write(c) \/ ReadTyping(c) \/ PeerGone(c)
      PROVE  HubInv'
  BY <1>3, OutsideHub DEF Write, WriteEvent, EndWriting, ReadTyping, PeerGone, pumps
<1>4. CASE PublishElsewhere
  BY <1>4, OutsideHub DEF PublishElsewhere, pumps
<1>5. ASSUME NEW s \in Subs, Forward(s) PROVE HubInv'
  <2>1. CASE Take(s) \/ EndForwarding(s)
    BY <2>1, OutsideHub DEF Take, EndForwarding, hub, pumps
  <2>2. ASSUME NEW c \in Clients, SendTo(s, c) PROVE HubInv'
    BY <2>2, OutsideHub DEF SendTo, pumps
  <2>3. CASE Kick(s)
    BY <2>3, UnsubscribeInv DEF Kick, pumps
  <2> QED BY <1>5, <2>1, <2>2, <2>3 DEF Forward
<1>6. CASE UNCHANGED vars
  BY <1>6, OutsideHub DEF vars, hub
<1> QED BY <1>1, <1>2, <1>3, <1>4, <1>5, <1>6 DEF Next

(* What the hub's mutex protects stays consistent, whatever the pumps, the *)
(* forwarders and the handlers do outside it.                              *)
THEOREM HubInvariance == Spec => []HubInv
BY InitHub, HubNext, PTL DEF Spec

(* One open subscription while there are clients, none otherwise.          *)
THEOREM SubscriptionsFollowClients == Spec => []SubscribedIffClients
<1>1. HubInv => SubscribedIffClients
  BY DEF HubInv
<1> QED BY <1>1, HubInvariance, PTL

(* A client's channel is closed once it is removed, and never before.      *)
THEOREM RemovedClientsAreClosed == Spec => []ClosedIffRemoved
<1>1. HubInv => ClosedIffRemoved
  BY DEF HubInv
<1> QED BY <1>1, HubInvariance, PTL

-----------------------------------------------------------------------------
(* Next what the forwarders carry.  An event is a subscription's while it  *)
(* is in its channel, in its forwarder's hand or in a log through it.      *)

ForwarderStates == [at : {"receiving", "sending", "ended"}, event : 0..MaxEvents,
                    targets : SUBSET Clients, slow : SUBSET Clients]

Logged(c, s, e) == \E i \in 1..Len(log[c]) : log[c][i].sub = s /\ log[c][i].event = e

Owned(s, e) == \/ \E i \in 1..Len(chan[s]) : chan[s][i] = e
               \/ fwd[s].at = "sending" /\ fwd[s].event = e
               \/ \E c \in Clients : Logged(c, s, e)

(* An event reaches one subscription, after it was published.              *)
OneOwner == \A e \in Events : \A s, t \in Subs : Owned(s, e) /\ Owned(t, e) => s = t

AlreadyPublished == \A e \in Events : \A s \in Subs : Owned(s, e) => e <= published

(* In a channel, between it and the hand, and between both and a log,      *)
(* events go up; what a client has still to be offered is new to it.       *)
Upwards(s) ==
  /\ \A i, j \in 1..Len(chan[s]) : i < j => chan[s][i] < chan[s][j]
  /\ fwd[s].at = "sending" => \A i \in 1..Len(chan[s]) : fwd[s].event < chan[s][i]
  /\ \A c \in Clients, e \in Events : Logged(c, s, e) =>
       /\ \A i \in 1..Len(chan[s]) : e < chan[s][i]
       /\ fwd[s].at = "sending" => /\ e <= fwd[s].event
                                   /\ c \in fwd[s].targets => e < fwd[s].event

Carried == /\ chan \in [Subs -> Seq(Events)] /\ log \in [Clients -> Seq(Delivery)]
           /\ fwd \in [Subs -> ForwarderStates] /\ published \in 0..MaxEvents
           /\ \A s \in Subs : /\ fwd[s].at = "sending" => fwd[s].event \in Events
                              /\ fwd[s].slow \subseteq fwd[s].targets
                              /\ fwd[s].at # "sending" => fwd[s].targets = {}

DeliveryInv == /\ Carried /\ OneOwner /\ AlreadyPublished /\ OnceAndInOrder
               /\ \A s \in Subs : Upwards(s)

LEMMA Appended ==
  ASSUME NEW T, NEW q \in Seq(T), NEW e \in T
  PROVE  /\ Append(q, e) \in Seq(T) /\ Len(Append(q, e)) = Len(q) + 1
         /\ Append(q, e)[Len(q) + 1] = e
         /\ \A i \in 1..Len(q) : Append(q, e)[i] = q[i]
OBVIOUS

LEMMA Taken ==
  ASSUME NEW T, NEW q \in Seq(T), q # << >>
  PROVE  /\ Tail(q) \in Seq(T) /\ Len(Tail(q)) = Len(q) - 1 /\ Head(q) = q[1]
         /\ Len(q) \in Nat \ {0} /\ q[1] \in T
         /\ \A i \in 1..Len(Tail(q)) : Tail(q)[i] = q[i + 1]
OBVIOUS

LEMMA DeliveryInit == Init => DeliveryInv
<1> USE BoundsAssumption
<1> SUFFICES ASSUME Init PROVE DeliveryInv
  OBVIOUS
<1>1. /\ \A s \in Subs : chan[s] = << >> /\ fwd[s] = Idle
      /\ \A c \in Clients : log[c] = << >>
  BY DEF Init
<1>2. Idle = [at |-> "receiving", event |-> 0, targets |-> {}, slow |-> {}]
  BY DEF Idle, Holding
<1>3. /\ Idle \in ForwarderStates /\ Idle.at = "receiving" /\ Idle.targets = {}
      /\ Idle.slow = {}
  BY <1>2 DEF ForwarderStates
<1>4. \A s \in Subs : \A e : ~Owned(s, e)
  BY <1>1, <1>3 DEF Owned, Logged
<1>5. Carried
  BY <1>1, <1>3 DEF Init, Carried
<1>6. OnceAndInOrder
  BY <1>1 DEF OnceAndInOrder
<1>7. \A s \in Subs : Upwards(s)
  BY <1>1, <1>3 DEF Upwards, Logged
<1> QED
  BY <1>4, <1>5, <1>6, <1>7 DEF DeliveryInv, OneOwner, AlreadyPublished

(* Redis brings a new event, to the one open subscription at most.         *)
LEMMA PublishKeeps ==
  ASSUME DeliveryInv, HubInv, Publish, UNCHANGED <<fwd, log>>
  PROVE  DeliveryInv'
<1> USE BoundsAssumption DEF Events
<1>1. /\ published' = published + 1 /\ published \in 0..MaxEvents /\ published' \in 1..MaxEvents
      /\ published' \in 0..MaxEvents
  BY DEF Publish, DeliveryInv, Carried
<1>2. PICK got \in SUBSET open :
        chan' = [s \in Subs |-> IF s \in got THEN Append(chan[s], published + 1) ELSE chan[s]]
  BY DEF Publish
<1>3. \A s, t \in got : s = t
  BY DEF HubInv, SubscribedIffClients
<1>4. \A s \in Subs : chan[s] \in Seq(Events)
  BY DEF DeliveryInv, Carried
<1>5. \A s \in Subs :
        /\ s \notin got => chan'[s] = chan[s]
        /\ s \in got =>
             /\ chan'[s] \in Seq(Events) /\ Len(chan'[s]) = Len(chan[s]) + 1
             /\ chan'[s][Len(chan[s]) + 1] = published + 1
             /\ \A i \in 1..Len(chan[s]) : chan'[s][i] = chan[s][i]
  <2> SUFFICES ASSUME NEW s \in Subs
               PROVE  /\ s \notin got => chan'[s] = chan[s]
                      /\ s \in got =>
                           /\ chan'[s] \in Seq(Events) /\ Len(chan'[s]) = Len(chan[s]) + 1
                           /\ chan'[s][Len(chan[s]) + 1] = published + 1
                           /\ \A i \in 1..Len(chan[s]) : chan'[s][i] = chan[s][i]
    OBVIOUS
  <2>1. chan'[s] = IF s \in got THEN Append(chan[s], published + 1) ELSE chan[s]
    BY <1>2
  <2>2. published + 1 \in Events /\ chan[s] \in Seq(Events)
    BY <1>1, <1>4
  <2> HIDE DEF Events
  <2> QED
    BY <2>1, <2>2, Appended
<1>6. Carried'
  <2>1. chan' \in [Subs -> Seq(Events)]
    <3>1. \A s \in Subs : chan'[s] \in Seq(Events)
      BY <1>4, <1>5
    <3> QED
      BY <1>2, <3>1
  <2> QED
    BY <1>1, <2>1 DEF DeliveryInv, Carried
<1>7. \A c, s, e : Logged(c, s, e)' <=> Logged(c, s, e)
  BY DEF Logged
<1>8. ASSUME NEW s \in Subs, NEW e \in Events, Owned(s, e)'
      PROVE  Owned(s, e) \/ (s \in got /\ e = published + 1)
  <2>1. CASE \E i \in 1..Len(chan'[s]) : chan'[s][i] = e
    <3>1. CASE s \in got
      <4>1. PICK i \in 1..Len(chan'[s]) : chan'[s][i] = e
        BY <2>1
      <4>2. Len(chan[s]) \in Nat
        BY <1>4
      <4>3. i \in 1..Len(chan[s]) \/ i = Len(chan[s]) + 1
        BY <1>5, <3>1, <4>2
      <4> QED
        BY <1>5, <3>1, <4>1, <4>3 DEF Owned
    <3>2. CASE s \notin got
      BY <1>5, <2>1, <3>2 DEF Owned
    <3> QED
      BY <3>1, <3>2
  <2>2. CASE fwd[s].at = "sending" /\ fwd[s].event = e
    BY <2>2 DEF Owned
  <2>3. CASE \E c \in Clients : Logged(c, s, e)
    BY <2>3 DEF Owned
  <2> QED
    BY <1>7, <1>8, <2>1, <2>2, <2>3 DEF Owned
<1>9. OneOwner' /\ AlreadyPublished'
  <2>1. \A e \in Events, s \in Subs : Owned(s, e) => e <= published /\ e # published + 1
    BY <1>1 DEF DeliveryInv, AlreadyPublished
  <2>2. OneOwner'
    BY <1>3, <1>8, <2>1 DEF DeliveryInv, OneOwner
  <2>3. AlreadyPublished'
    BY <1>1, <1>8, <2>1 DEF AlreadyPublished
  <2> QED
    BY <2>2, <2>3
<1>10. OnceAndInOrder'
  BY DEF DeliveryInv, OnceAndInOrder
<1>11. ASSUME NEW s \in Subs PROVE Upwards(s)'
  <2>1. Upwards(s) /\ Len(chan[s]) \in Nat /\ (\A i \in 1..Len(chan[s]) : chan[s][i] \in Events)
    BY <1>4 DEF DeliveryInv
  <2>2. CASE s \notin got
    BY <1>5, <1>7, <2>1, <2>2 DEF Upwards
  <2>3. CASE s \in got
    <3>1. \A e \in Events : Owned(s, e) => e < published + 1
      BY <1>1 DEF DeliveryInv, AlreadyPublished
    <3>2. \A i \in 1..Len(chan[s]) : chan[s][i] < published + 1
      BY <2>1, <3>1 DEF Owned
    <3>3. fwd[s].at = "sending" => fwd[s].event < published + 1
      BY <3>1 DEF Owned, DeliveryInv, Carried
    <3>4. \A c \in Clients, e \in Events : Logged(c, s, e) => e < published + 1
      BY <3>1 DEF Owned
    <3>5. \A i \in 1..Len(chan'[s]) : i \in 1..Len(chan[s]) \/ i = Len(chan[s]) + 1
      BY <1>5, <2>1, <2>3
    <3>6. /\ \A i \in 1..Len(chan[s]) : chan'[s][i] = chan[s][i]
          /\ chan'[s][Len(chan[s]) + 1] = published + 1
      BY <1>5, <2>3
    <3>7. ASSUME NEW i \in 1..Len(chan'[s]), NEW j \in 1..Len(chan'[s]), i < j
          PROVE  chan'[s][i] < chan'[s][j]
      <4>1. i \in 1..Len(chan[s])
        BY <2>1, <3>5, <3>7
      <4>2. CASE j \in 1..Len(chan[s])
        BY <2>1, <3>6, <3>7, <4>1, <4>2 DEF Upwards
      <4>3. CASE j = Len(chan[s]) + 1
        BY <3>2, <3>6, <4>1, <4>3
      <4> QED
        BY <3>5, <4>2, <4>3
    <3>8. fwd[s].at = "sending" => \A i \in 1..Len(chan'[s]) : fwd[s].event < chan'[s][i]
      BY <2>1, <3>3, <3>5, <3>6 DEF Upwards
    <3>9. \A c \in Clients, e \in Events : Logged(c, s, e) =>
            \A i \in 1..Len(chan'[s]) : e < chan'[s][i]
      BY <2>1, <3>4, <3>5, <3>6 DEF Upwards
    <3> QED
      BY <1>7, <2>1, <3>7, <3>8, <3>9 DEF Upwards
  <2> QED
    BY <2>2, <2>3
<1> QED
  BY <1>6, <1>9, <1>10, <1>11 DEF DeliveryInv

LEMMA HoldingIs ==
  ASSUME NEW e \in 0..MaxEvents, NEW T \in SUBSET Clients, NEW S \in SUBSET T
  PROVE  LET h == Holding(e, T, S)
         IN /\ h \in ForwarderStates /\ h.targets = T /\ h.slow = S
            /\ h.at = IF T = {} THEN "receiving" ELSE "sending"
            /\ h.at = "sending" => h.event = e /\ T # {}
<1> USE BoundsAssumption
<1>1. PICK h : h = Holding(e, T, S)
  OBVIOUS
<1>2. h = [at |-> IF T = {} THEN "receiving" ELSE "sending", event |-> IF T = {} THEN 0 ELSE e,
           targets |-> T, slow |-> S]
  BY <1>1 DEF Holding
<1>3. 0 \in 0..MaxEvents
  OBVIOUS
<1>4. /\ h.targets = T /\ h.slow = S /\ h.event = IF T = {} THEN 0 ELSE e
      /\ h.at = IF T = {} THEN "receiving" ELSE "sending"
  BY <1>2
<1>5. h \in ForwarderStates
  BY <1>2, <1>3 DEF ForwarderStates
<1> QED
  BY <1>1, <1>4, <1>5

(* Steps that move no event.                                               *)
LEMMA NothingCarried ==
  ASSUME DeliveryInv, UNCHANGED <<chan, fwd, log, published>>
  PROVE  DeliveryInv'
<1>1. \A s, e : Owned(s, e)' <=> Owned(s, e)
  BY DEF Owned, Logged
<1>2. Carried' /\ OneOwner' /\ AlreadyPublished' /\ OnceAndInOrder'
  BY <1>1 DEF DeliveryInv, Carried, OneOwner, AlreadyPublished, OnceAndInOrder
<1>3. ASSUME NEW s \in Subs PROVE Upwards(s)'
  <2>1. \A c, e : Logged(c, s, e)' <=> Logged(c, s, e)
    BY DEF Logged
  <2> QED
    BY <2>1 DEF DeliveryInv, Upwards
<1> QED
  BY <1>2, <1>3 DEF DeliveryInv

(* A forwarder puts targets aside, or ends.                                *)
LEMMA HandKeeps ==
  ASSUME DeliveryInv, NEW s \in Subs, NEW f \in ForwarderStates,
         fwd' = [fwd EXCEPT ![s] = f], UNCHANGED <<chan, log, published>>,
         f.slow \subseteq f.targets, f.at # "sending" => f.targets = {},
         f.at = "sending" => /\ fwd[s].at = "sending" /\ f.event = fwd[s].event
                             /\ f.targets \subseteq fwd[s].targets
  PROVE  DeliveryInv'
<1>1. \A t \in Subs : fwd'[t] = IF t = s THEN f ELSE fwd[t]
  BY DEF DeliveryInv, Carried
<1>2. Carried'
  <2>1. fwd' \in [Subs -> ForwarderStates]
    BY DEF DeliveryInv, Carried
  <2> QED
    BY <1>1, <2>1 DEF DeliveryInv, Carried
<1>3. \A c, t, e : Logged(c, t, e)' <=> Logged(c, t, e)
  BY DEF Logged
<1>4. \A e : \A t \in Subs : Owned(t, e)' => Owned(t, e)
  BY <1>1, <1>3 DEF Owned
<1>5. OneOwner' /\ AlreadyPublished' /\ OnceAndInOrder'
  BY <1>4 DEF DeliveryInv, OneOwner, AlreadyPublished, OnceAndInOrder
<1>6. ASSUME NEW t \in Subs PROVE Upwards(t)'
  BY <1>1, <1>3 DEF DeliveryInv, Upwards
<1> QED
  BY <1>2, <1>5, <1>6 DEF DeliveryInv

LEMMA TakeKeeps ==
  ASSUME DeliveryInv, HubInv, NEW s \in Subs, Take(s)
  PROVE  DeliveryInv'
<1> USE BoundsAssumption
<1>1. /\ fwd[s].at = "receiving" /\ chan[s] # << >>
      /\ fwd' = [fwd EXCEPT ![s] = Holding(Head(chan[s]), registered, {})]
      /\ chan' = [chan EXCEPT ![s] = Tail(chan[s])] /\ UNCHANGED <<published, log>>
  BY DEF Take
<1>2. PICK f : f = Holding(Head(chan[s]), registered, {})
  OBVIOUS
<1>3. chan[s] \in Seq(Events) /\ registered \in SUBSET Clients
  BY DEF DeliveryInv, Carried, HubInv, HubTyped
<1>4. /\ Tail(chan[s]) \in Seq(Events) /\ Len(Tail(chan[s])) = Len(chan[s]) - 1
      /\ Head(chan[s]) = chan[s][1] /\ chan[s][1] \in Events
      /\ Len(chan[s]) \in Nat \ {0}
      /\ \A i \in 1..Len(Tail(chan[s])) : Tail(chan[s])[i] = chan[s][i + 1]
  BY <1>1, <1>3, Taken
<1>5. Head(chan[s]) \in 0..MaxEvents
  BY <1>4 DEF Events
<1>6. /\ f \in ForwarderStates /\ f.targets = registered /\ f.slow = {}
      /\ f.at = IF registered = {} THEN "receiving" ELSE "sending"
      /\ f.at = "sending" => f.event = Head(chan[s])
  BY <1>2, <1>3, <1>5, HoldingIs
<1>7. /\ \A t \in Subs : fwd'[t] = IF t = s THEN f ELSE fwd[t]
      /\ \A t \in Subs : chan'[t] = IF t = s THEN Tail(chan[s]) ELSE chan[t]
  BY <1>1, <1>2 DEF DeliveryInv, Carried
<1>8. Carried'
  <2>1. fwd' \in [Subs -> ForwarderStates] /\ chan' \in [Subs -> Seq(Events)]
    BY <1>1, <1>2, <1>4, <1>6 DEF DeliveryInv, Carried
  <2>2. f.at = "sending" => f.event \in Events
    BY <1>4, <1>6
  <2> QED
    BY <1>1, <1>6, <1>7, <2>1, <2>2 DEF DeliveryInv, Carried
<1>9. \A c, t, x : Logged(c, t, x)' <=> Logged(c, t, x)
  BY <1>1 DEF Logged
<1>10. \A i \in 1..Len(Tail(chan[s])) : i + 1 \in 1..Len(chan[s])
  BY <1>4
<1>11. 1 \in 1..Len(chan[s])
  BY <1>4
<1>12. ASSUME NEW x, NEW t \in Subs, Owned(t, x)' PROVE Owned(t, x)
  <2>1. CASE t # s
    BY <1>7, <1>9, <1>12, <2>1 DEF Owned
  <2>2. CASE t = s
    <3>1. (\E i \in 1..Len(Tail(chan[s])) : Tail(chan[s])[i] = x) => Owned(s, x)
      BY <1>4, <1>10 DEF Owned
    <3>2. f.at = "sending" /\ f.event = x => Owned(s, x)
      BY <1>4, <1>6, <1>11 DEF Owned
    <3> QED
      BY <1>7, <1>9, <1>12, <2>2, <3>1, <3>2 DEF Owned
  <2> QED
    BY <2>1, <2>2
<1>13. OneOwner' /\ AlreadyPublished' /\ OnceAndInOrder'
  BY <1>1, <1>12 DEF DeliveryInv, OneOwner, AlreadyPublished, OnceAndInOrder
<1>14. ASSUME NEW t \in Subs PROVE Upwards(t)'
  <2>1. Upwards(t)
    BY DEF DeliveryInv
  <2>2. CASE t # s
    BY <1>7, <1>9, <2>1, <2>2 DEF Upwards
  <2>3. CASE t = s
    <3>1. \A i, j \in 1..Len(Tail(chan[s])) : i < j => Tail(chan[s])[i] < Tail(chan[s])[j]
      <4>1. \A i, j \in 1..Len(Tail(chan[s])) : i < j => i + 1 < j + 1
        BY <1>4
      <4> QED
        BY <1>4, <1>10, <2>1, <2>3, <4>1 DEF Upwards
    <3>2. \A i \in 1..Len(Tail(chan[s])) : Head(chan[s]) < Tail(chan[s])[i]
      <4>1. \A i \in 1..Len(Tail(chan[s])) : 1 < i + 1
        BY <1>4
      <4> QED
        BY <1>4, <1>10, <1>11, <2>1, <2>3, <4>1 DEF Upwards
    <3>3. \A c \in Clients, x \in Events : Logged(c, s, x) =>
            /\ x < Head(chan[s])
            /\ \A i \in 1..Len(Tail(chan[s])) : x < Tail(chan[s])[i]
      BY <1>4, <1>10, <1>11, <2>1, <2>3 DEF Upwards
    <3>4. /\ chan'[t] = Tail(chan[s]) /\ fwd'[t] = f
          /\ f.at = "sending" => f.event = Head(chan[s])
          /\ Head(chan[s]) \in 1..MaxEvents
      BY <1>4, <1>6, <1>7, <2>3 DEF Events
    <3>5. \A x \in Events : x \in 1..MaxEvents /\ (x < Head(chan[s]) => x <= Head(chan[s]))
      BY <3>4 DEF Events
    <3> QED
      BY <1>9, <2>3, <3>1, <3>2, <3>3, <3>4, <3>5 DEF Upwards
  <2> QED
    BY <2>2, <2>3
<1> QED
  BY <1>8, <1>13, <1>14 DEF DeliveryInv

(* The send: the event is new to the client, and the last in its log.      *)
LEMMA SendKeeps ==
  ASSUME DeliveryInv, NEW s \in Subs, NEW c \in Clients,
         fwd[s].at = "sending", c \in fwd[s].targets,
         log' = [log EXCEPT ![c] = Append(log[c], [sub |-> s, event |-> fwd[s].event])],
         fwd' = [fwd EXCEPT ![s] = Holding(fwd[s].event, fwd[s].targets \ {c}, {})],
         UNCHANGED <<chan, published>>
  PROVE  DeliveryInv'
<1> USE BoundsAssumption
<1>1. PICK f : f = Holding(fwd[s].event, fwd[s].targets \ {c}, {})
  OBVIOUS
<1>2. PICK e : e = fwd[s].event
  OBVIOUS
<1>3. e \in Events /\ e \in 0..MaxEvents /\ fwd[s].targets \in SUBSET Clients
  BY <1>2 DEF DeliveryInv, Carried, ForwarderStates, Events
<1>4. /\ f \in ForwarderStates /\ f.targets = fwd[s].targets \ {c} /\ f.slow = {}
      /\ f.at = IF f.targets = {} THEN "receiving" ELSE "sending"
      /\ f.at = "sending" => f.event = e
  <2>1. PICK T : T = fwd[s].targets \ {c}
    OBVIOUS
  <2>2. T \in SUBSET Clients /\ {} \in SUBSET T /\ f = Holding(e, T, {})
    BY <1>1, <1>2, <1>3, <2>1
  <2>3. /\ f \in ForwarderStates /\ f.targets = T /\ f.slow = {}
        /\ f.at = IF T = {} THEN "receiving" ELSE "sending"
        /\ f.at = "sending" => f.event = e
    BY <1>3, <2>2, HoldingIs
  <2> QED
    BY <2>1, <2>3
<1>5. PICK d : d = [sub |-> s, event |-> e]
  OBVIOUS
<1>6. d \in Delivery /\ d.sub = s /\ d.event = e
  BY <1>3, <1>5 DEF Delivery
<1>7. log[c] \in Seq(Delivery) /\ Len(log[c]) \in Nat
  BY DEF DeliveryInv, Carried
<1>8. PICK l : l = Append(log[c], d)
  OBVIOUS
<1>9. /\ l \in Seq(Delivery) /\ Len(l) = Len(log[c]) + 1 /\ l[Len(log[c]) + 1] = d
      /\ \A i \in 1..Len(log[c]) : l[i] = log[c][i]
  BY <1>6, <1>7, <1>8, Appended
<1>10. /\ \A t \in Subs : fwd'[t] = IF t = s THEN f ELSE fwd[t]
       /\ \A b \in Clients : log'[b] = IF b = c THEN l ELSE log[b]
  BY <1>1, <1>2, <1>5, <1>8 DEF DeliveryInv, Carried
<1>11. Carried'
  <2>1. fwd' \in [Subs -> ForwarderStates] /\ log' \in [Clients -> Seq(Delivery)]
    BY <1>1, <1>2, <1>4, <1>5, <1>8, <1>9 DEF DeliveryInv, Carried
  <2> QED
    BY <1>3, <1>4, <1>10, <2>1 DEF DeliveryInv, Carried
<1>12. \A i \in 1..Len(l) : i \in 1..Len(log[c]) \/ i = Len(log[c]) + 1
  BY <1>7, <1>9
<1>13. ASSUME NEW b \in Clients, NEW t \in Subs, NEW x \in Events, Logged(b, t, x)'
       PROVE  Logged(b, t, x) \/ (b = c /\ t = s /\ x = e)
  <2>1. PICK i \in 1..Len(log'[b]) : log'[b][i].sub = t /\ log'[b][i].event = x
    BY <1>13 DEF Logged
  <2>2. CASE b = c
    <3>1. i \in 1..Len(l) /\ l[i].sub = t /\ l[i].event = x
      BY <1>10, <2>1, <2>2
    <3>2. CASE i \in 1..Len(log[c])
      BY <1>9, <2>2, <3>1, <3>2 DEF Logged
    <3>3. CASE i = Len(log[c]) + 1
      BY <1>6, <1>9, <2>2, <3>1, <3>3
    <3> QED
      BY <1>12, <3>1, <3>2, <3>3
  <2>3. CASE b # c
    BY <1>10, <2>1, <2>3 DEF Logged
  <2> QED
    BY <2>2, <2>3
<1>14. Owned(s, e)
  BY <1>2 DEF Owned
<1>15. ASSUME NEW x \in Events, NEW t \in Subs, Owned(t, x)' PROVE Owned(t, x)
  <2>1. CASE \E i \in 1..Len(chan'[t]) : chan'[t][i] = x
    BY <2>1 DEF Owned
  <2>2. CASE fwd'[t].at = "sending" /\ fwd'[t].event = x
    BY <1>4, <1>10, <1>14, <2>2 DEF Owned
  <2>3. CASE \E b \in Clients : Logged(b, t, x)'
    BY <1>13, <1>14, <2>3 DEF Owned
  <2> QED
    BY <1>15, <2>1, <2>2, <2>3 DEF Owned
<1>16. OneOwner' /\ AlreadyPublished'
  BY <1>15 DEF DeliveryInv, OneOwner, AlreadyPublished
<1>17. \A i \in 1..Len(log[c]) : /\ log[c][i].event # e
                                 /\ log[c][i].sub = s => log[c][i].event < e
  <2> SUFFICES ASSUME NEW i \in 1..Len(log[c])
               PROVE  /\ log[c][i].event # e
                      /\ log[c][i].sub = s => log[c][i].event < e
    OBVIOUS
  <2>1. log[c][i] \in Delivery
    BY <1>7
  <2>2. log[c][i].sub \in Subs /\ log[c][i].event \in Events
    BY <2>1 DEF Delivery
  <2>3. Logged(c, log[c][i].sub, log[c][i].event)
    BY DEF Logged
  <2>4. Owned(log[c][i].sub, log[c][i].event)
    BY <2>3 DEF Owned
  <2>5. log[c][i].sub = s => log[c][i].event < e
    BY <1>2, <2>2, <2>3 DEF DeliveryInv, Upwards
  <2>6. log[c][i].event = e => log[c][i].sub = s
    BY <1>14, <2>2, <2>4 DEF DeliveryInv, OneOwner
  <2>7. e \in Nat
    BY <1>3
  <2> QED
    BY <2>5, <2>6, <2>7
<1>18. OnceAndInOrder'
  <2> SUFFICES ASSUME NEW b \in Clients, NEW i \in DOMAIN log'[b], NEW j \in DOMAIN log'[b], i < j
               PROVE  /\ log'[b][i].event # log'[b][j].event
                      /\ log'[b][i].sub = log'[b][j].sub => log'[b][i].event < log'[b][j].event
    BY DEF OnceAndInOrder
  <2>1. CASE b # c
    BY <1>10, <2>1 DEF DeliveryInv, OnceAndInOrder
  <2>2. CASE b = c
    <3>0. log'[b] = l
      BY <1>10, <2>2
    <3>1. i \in 1..Len(l) /\ j \in 1..Len(l) /\ log'[b] = l
      <4>1. l \in Seq(Delivery)
        BY <1>9
      <4>2. DOMAIN l = 1..Len(l)
        BY <4>1
      <4> QED
        BY <3>0, <4>2
    <3>2. i \in 1..Len(log[c])
      BY <1>7, <1>9, <3>1
    <3>3. CASE j \in 1..Len(log[c])
      <4>1. i \in DOMAIN log[c] /\ j \in DOMAIN log[c]
        BY <1>7, <3>2, <3>3
      <4>2. l[i] = log[c][i] /\ l[j] = log[c][j]
        BY <1>9, <3>2, <3>3
      <4> QED
        BY <3>1, <4>1, <4>2 DEF DeliveryInv, OnceAndInOrder
    <3>4. CASE j = Len(log[c]) + 1
      BY <1>6, <1>9, <1>17, <3>1, <3>2, <3>4
    <3> QED
      BY <1>12, <3>1, <3>3, <3>4
  <2> QED
    BY <2>1, <2>2
<1>19. ASSUME NEW t \in Subs PROVE Upwards(t)'
  <2>1. Upwards(t)
    BY DEF DeliveryInv
  <2>2. CASE t # s
    <3>1. \A b \in Clients, x \in Events : Logged(b, t, x)' => Logged(b, t, x)
      BY <1>13, <2>2
    <3> QED
      BY <1>10, <2>1, <2>2, <3>1 DEF Upwards
  <2>3. CASE t = s
    <3>1. fwd'[t] = f /\ chan'[t] = chan[s]
      BY <1>10, <2>3
    <3>2. f.at = "sending" => f.event = fwd[s].event /\ f.targets = fwd[s].targets \ {c}
      BY <1>2, <1>4
    <3>3. e \in Nat /\ \A i \in 1..Len(chan[s]) : e < chan[s][i]
      BY <1>2, <1>3, <2>1, <2>3 DEF Upwards, Events
    <3>4. ASSUME NEW b \in Clients, NEW x \in Events, Logged(b, s, x)'
          PROVE  /\ \A i \in 1..Len(chan[s]) : x < chan[s][i]
                 /\ x <= e /\ (b \in fwd[s].targets \ {c} => x < e)
      <4>1. CASE Logged(b, s, x)
        BY <1>2, <2>1, <2>3, <4>1 DEF Upwards
      <4>2. CASE b = c /\ x = e
        BY <3>3, <4>2
      <4> QED
        BY <1>13, <3>4, <4>1, <4>2
    <3> QED
      BY <1>2, <2>1, <2>3, <3>1, <3>2, <3>3, <3>4 DEF Upwards
  <2> QED
    BY <2>2, <2>3
<1> QED
  BY <1>11, <1>16, <1>18, <1>19 DEF DeliveryInv

LEMMA DeliveryNext == DeliveryInv /\ HubInv /\ [Next]_vars => DeliveryInv'
<1> SUFFICES ASSUME DeliveryInv, HubInv, [Next]_vars PROVE DeliveryInv'
  OBVIOUS
<1>1. ASSUME NEW c \in Clients, Subscribe(c) \/ Handle(c) \/ Write(c) \/ ReadTyping(c) \/ PeerGone(c)
      PROVE  DeliveryInv'
  <2>1. CASE Publish /\ UNCHANGED <<fwd, log>>
    BY <2>1, PublishKeeps
  <2>2. CASE UNCHANGED <<chan, fwd, log, published>>
    BY <2>2, NothingCarried
  <2> QED
    BY <1>1, <2>1, <2>2
    DEF Subscribe, Handle, StartPumps, ReadFails, PublishTypingStopped, Leave, Write, WriteEvent,
        EndWriting, ReadTyping, PeerGone, redis
<1>2. CASE PublishElsewhere
  BY <1>2, PublishKeeps DEF PublishElsewhere
<1>3. ASSUME NEW s \in Subs, Take(s) PROVE DeliveryInv'
  BY <1>3, TakeKeeps
<1>4. ASSUME NEW s \in Subs, Kick(s) PROVE DeliveryInv'
  <2>1. PICK c \in fwd[s].slow : fwd' = [fwd EXCEPT ![s] =
                    Holding(fwd[s].event, fwd[s].targets \ {c}, {})]
    BY <1>4 DEF Kick
  <2>2. /\ fwd[s].event \in 0..MaxEvents /\ fwd[s].targets \in SUBSET Clients
        /\ fwd[s].at = "sending" /\ UNCHANGED <<chan, log, published>>
    BY <1>4, <2>1 DEF Kick, redis, DeliveryInv, Carried, ForwarderStates
  <2>3. PICK f : f = Holding(fwd[s].event, fwd[s].targets \ {c}, {})
    OBVIOUS
  <2>4. /\ f \in ForwarderStates /\ f.targets = fwd[s].targets \ {c} /\ f.slow = {}
        /\ f.at = IF f.targets = {} THEN "receiving" ELSE "sending"
        /\ f.at = "sending" => f.event = fwd[s].event
    BY <2>2, <2>3, HoldingIs
  <2> QED
    BY <2>1, <2>2, <2>3, <2>4, HandKeeps
<1>5. ASSUME NEW s \in Subs, EndForwarding(s) PROVE DeliveryInv'
  <2>1. fwd[s].at = "receiving" /\ fwd' = [fwd EXCEPT ![s] = Ended] /\ UNCHANGED <<chan, log, published>>
    BY <1>5 DEF EndForwarding, redis
  <2>2. Ended = [at |-> "ended", event |-> 0, targets |-> {}, slow |-> {}]
    BY DEF Ended, Idle, Holding
  <2>3. Ended \in ForwarderStates /\ Ended.at = "ended" /\ Ended.targets = {} /\ Ended.slow = {}
    BY <2>2, BoundsAssumption DEF ForwarderStates
  <2> QED
    BY <2>1, <2>3, HandKeeps
<1>6. ASSUME NEW s \in Subs, NEW c \in Clients, SendTo(s, c) PROVE DeliveryInv'
  <2>1. /\ fwd[s].at = "sending" /\ fwd[s].slow = {} /\ c \in fwd[s].targets
        /\ UNCHANGED <<chan, published>>
    BY <1>6 DEF SendTo, redis
  <2>2. CASE UNCHANGED <<fwd, log>>
    BY <2>1, <2>2, NothingCarried
  <2>3. CASE /\ log' = [log EXCEPT ![c] = Append(log[c], [sub |-> s, event |-> fwd[s].event])]
             /\ fwd' = [fwd EXCEPT ![s] = Holding(fwd[s].event, fwd[s].targets \ {c}, {})]
    BY <2>1, <2>3, SendKeeps
  <2>4. CASE fwd' = [fwd EXCEPT ![s].slow = {c}] /\ UNCHANGED log
    <3>1. PICK f : f = [fwd[s] EXCEPT !.slow = {c}]
      OBVIOUS
    <3>2. fwd[s] \in ForwarderStates
      BY DEF DeliveryInv, Carried
    <3>3. /\ f \in ForwarderStates /\ f.at = fwd[s].at /\ f.event = fwd[s].event
          /\ f.targets = fwd[s].targets /\ f.slow = {c}
      BY <3>1, <3>2 DEF ForwarderStates
    <3>4. fwd' = [fwd EXCEPT ![s] = f]
      BY <2>4, <3>1
    <3>5. /\ f.slow \subseteq f.targets /\ (f.at # "sending" => f.targets = {})
          /\ f.at = "sending" => /\ fwd[s].at = "sending" /\ f.event = fwd[s].event
                                 /\ f.targets \subseteq fwd[s].targets
      BY <2>1, <3>3
    <3>6. f \in ForwarderStates /\ UNCHANGED <<chan, log, published>>
      BY <2>1, <2>4, <3>3
    <3> QED
      BY <3>4, <3>5, <3>6, HandKeeps
  <2> QED
    BY <1>6, <2>2, <2>3, <2>4 DEF SendTo
<1>7. CASE UNCHANGED vars
  BY <1>7, NothingCarried DEF vars
<1> QED
  BY <1>1, <1>2, <1>3, <1>4, <1>5, <1>6, <1>7 DEF Next, Forward

(* No client is given an event twice, and in order through each            *)
(* subscription, though an old forwarder may drain beside a new one        *)
(* (hub.go:75-105).                                                        *)
THEOREM DeliveredOnceInOrder == Spec => []OnceAndInOrder
<1>1. Init => DeliveryInv /\ HubInv
  BY DeliveryInit, InitHub
<1>2. DeliveryInv /\ HubInv /\ [Next]_vars => (DeliveryInv /\ HubInv)'
  BY DeliveryNext, HubNext
<1>3. DeliveryInv => OnceAndInOrder
  BY DEF DeliveryInv
<1> QED
  BY <1>1, <1>2, <1>3, PTL DEF Spec

-----------------------------------------------------------------------------
(* The rest of the state: what a client holds, and the bounds.             *)
Held(b) == b \in Seq(Events) /\ Len(b) <= BufferSize

RestTyped == /\ made <= MaxSubs /\ crashed \in BOOLEAN
             /\ buffer \in [Clients -> Seq(Events)] /\ \A c \in Clients : Held(buffer[c])
             /\ writer \in [Clients -> {"absent", "running", "done"}]
             /\ conn \in [Clients -> {"open", "broken", "closed"}]

LEMMA RestKept ==
  ASSUME RestTyped, UNCHANGED <<made, crashed, buffer>>,
         writer' \in [Clients -> {"absent", "running", "done"}],
         conn' \in [Clients -> {"open", "broken", "closed"}]
  PROVE  RestTyped'
BY DEF RestTyped, Held

LEMMA BufferKept ==
  ASSUME RestTyped, UNCHANGED <<made, writer, conn>>, crashed' \in BOOLEAN,
         NEW c \in Clients, NEW b, Held(b), buffer' = [buffer EXCEPT ![c] = b]
  PROVE  RestTyped'
<1>1. \A d \in Clients : Held(buffer'[d]) /\ buffer'[d] \in Seq(Events)
  BY DEF RestTyped, Held
<1>2. buffer' \in [Clients -> Seq(Events)]
  BY <1>1 DEF RestTyped
<1>3. \A d \in Clients : Held(buffer[d])'
  BY <1>1 DEF Held
<1> QED
  BY <1>2, <1>3 DEF RestTyped

LEMMA RestNext == RestTyped /\ DeliveryInv /\ HubInv /\ [Next]_vars => RestTyped'
<1> SUFFICES ASSUME RestTyped, DeliveryInv, HubInv, [Next]_vars PROVE RestTyped'
  OBVIOUS
<1> USE BoundsAssumption
<1>1. ASSUME NEW c \in Clients, Subscribe(c) PROVE RestTyped'
  <2>1. made' <= MaxSubs
    BY <1>1 DEF Subscribe, RestTyped, HubInv, HubTyped
  <2>2. UNCHANGED <<buffer, writer, conn, crashed>>
    BY <1>1 DEF Subscribe
  <2> QED
    BY <2>1, <2>2 DEF RestTyped, Held
<1>2. ASSUME NEW c \in Clients, Handle(c) \/ ReadTyping(c) \/ PeerGone(c) \/ EndWriting(c)
      PROVE  RestTyped'
  <2>1. /\ UNCHANGED <<made, crashed, buffer>>
        /\ writer' \in [Clients -> {"absent", "running", "done"}]
        /\ conn' \in [Clients -> {"open", "broken", "closed"}]
    BY <1>2 DEF Handle, StartPumps, ReadFails, PublishTypingStopped, Leave, ReadTyping, PeerGone,
                EndWriting, hub, pumps, RestTyped
  <2> QED
    BY <2>1, RestKept
<1>3. ASSUME NEW c \in Clients, WriteEvent(c) PROVE RestTyped'
  <2>1. /\ buffer[c] # << >> /\ buffer' = [buffer EXCEPT ![c] = Tail(buffer[c])]
        /\ UNCHANGED <<made, writer, conn, crashed>>
    BY <1>3 DEF WriteEvent, hub, pumps
  <2>2. buffer[c] \in Seq(Events) /\ Len(buffer[c]) <= BufferSize
    BY DEF RestTyped, Held
  <2>3. Tail(buffer[c]) \in Seq(Events) /\ Len(Tail(buffer[c])) = Len(buffer[c]) - 1
        /\ Len(buffer[c]) \in Nat
    BY <2>1, <2>2, Taken
  <2>4. Held(Tail(buffer[c]))
    BY <2>2, <2>3 DEF Held
  <2>5. crashed' \in BOOLEAN
    BY <2>1 DEF RestTyped
  <2> QED
    BY <2>1, <2>4, <2>5, BufferKept
<1>4. ASSUME NEW s \in Subs, NEW c \in Clients, SendTo(s, c) PROVE RestTyped'
  <2>1. UNCHANGED <<made, writer, conn>> /\ fwd[s].at = "sending"
    BY <1>4 DEF SendTo, hub, pumps
  <2>2. CASE HasRoom(c) /\ buffer' = [buffer EXCEPT ![c] = Append(buffer[c], fwd[s].event)]
             /\ UNCHANGED crashed
    <3>1. fwd[s].event \in Events
      BY <2>1 DEF DeliveryInv, Carried
    <3>2. buffer[c] \in Seq(Events) /\ Len(buffer[c]) < BufferSize /\ Len(buffer[c]) \in Nat
      BY <2>2 DEF RestTyped, Held, HasRoom
    <3>3. /\ Append(buffer[c], fwd[s].event) \in Seq(Events)
          /\ Len(Append(buffer[c], fwd[s].event)) = Len(buffer[c]) + 1
      BY <3>1, <3>2, Appended
    <3>4. Held(Append(buffer[c], fwd[s].event))
      BY <3>2, <3>3 DEF Held
    <3>5. crashed' \in BOOLEAN
      BY <2>2 DEF RestTyped
    <3> QED
      BY <2>1, <2>2, <3>4, <3>5, BufferKept
  <2>3. CASE UNCHANGED buffer /\ crashed' \in BOOLEAN
    BY <2>1, <2>3 DEF RestTyped, Held
  <2> QED
    BY <1>4, <2>2, <2>3 DEF SendTo, RestTyped
<1>5. ASSUME UNCHANGED <<made, crashed, buffer, writer, conn>> PROVE RestTyped'
  BY <1>5 DEF RestTyped, Held
<1>6. ASSUME NEW s \in Subs, Take(s) \/ Kick(s) \/ EndForwarding(s) PROVE RestTyped'
  BY <1>5, <1>6 DEF Take, Kick, EndForwarding, hub, pumps
<1>7. CASE PublishElsewhere
  BY <1>5, <1>7 DEF PublishElsewhere, hub, pumps
<1>8. CASE UNCHANGED vars
  BY <1>5, <1>8 DEF vars
<1> QED
  BY <1>1, <1>2, <1>3, <1>4, <1>6, <1>7, <1>8 DEF Next, Forward, Write

(* TypeOK in every state; of the bounds, the one the code has: no client   *)
(* holds more events than its channel takes (client.go:14-20, hub.go:87).  *)
THEOREM TypeCorrect == Spec => []TypeOK
<1>1. Init => RestTyped /\ DeliveryInv /\ HubInv
  <2> SUFFICES ASSUME Init PROVE RestTyped
    BY DeliveryInit, InitHub
  <2>1. << >> \in Seq(Events) /\ Len(<< >>) = 0
    OBVIOUS
  <2>2. Held(<< >>)
    BY <2>1, BoundsAssumption DEF Held
  <2>3. buffer = [c \in Clients |-> << >>]
    BY DEF Init
  <2>4. buffer \in [Clients -> Seq(Events)] /\ \A c \in Clients : Held(buffer[c])
    BY <2>1, <2>2, <2>3
  <2>5. made = 0 /\ crashed = FALSE
    BY DEF Init
  <2>6. made <= MaxSubs
    BY <2>5, BoundsAssumption
  <2>7. /\ writer \in [Clients -> {"absent", "running", "done"}]
        /\ conn \in [Clients -> {"open", "broken", "closed"}]
    BY DEF Init
  <2> QED
    BY <2>4, <2>5, <2>6, <2>7 DEF RestTyped
<1>2. RestTyped /\ DeliveryInv /\ HubInv /\ [Next]_vars => (RestTyped /\ DeliveryInv /\ HubInv)'
  BY RestNext, DeliveryNext, HubNext
<1>3. RestTyped /\ DeliveryInv /\ HubInv => TypeOK
  <2> SUFFICES ASSUME RestTyped, DeliveryInv, HubInv PROVE TypeOK
    OBVIOUS
  <2>1. /\ made \in 0..MaxSubs /\ sub \in 0..made /\ open \subseteq 1..made
    BY BoundsAssumption DEF RestTyped, HubInv, HubTyped, SubscribedIffClients
  <2>2. closed \subseteq Clients
    BY DEF HubInv, ClosedIffRemoved
  <2> QED
    BY <2>1, <2>2 DEF TypeOK, RestTyped, Held, DeliveryInv, Carried, ForwarderStates, HubInv, HubTyped
<1> QED
  BY <1>1, <1>2, <1>3, PTL DEF Spec
=============================================================================
