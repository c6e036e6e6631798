-------------------------------- MODULE Hub --------------------------------
(***************************************************************************)
(* The realtime hub of one backend process, for one conversation: the      *)
(* clients registered in realtime/hub.go, the Redis subscription that      *)
(* feeds them (realtime/redis_pubsub.go), the two pumps of every client    *)
(* (realtime/client.go) and the handler that owns them                     *)
(* (handlers/websocket.go, from Subscribe on).  The hub's mutex makes      *)
(* Subscribe, Unsubscribe and the snapshot in broadcastLocal one step      *)
(* each; conversations share nothing else.  Events are numbered in the     *)
(* order they are published.                                               *)
(***************************************************************************)
EXTENDS Naturals, Sequences, FiniteSets

CONSTANTS
  Clients,     \* WebSocket connections, each opened at most once
  BufferSize,  \* sendBufferSize, 256 in the code
  MaxEvents,   \* bound on the events published
  MaxSubs      \* bound on the subscriptions made one after the other

ASSUME BoundsAssumption == /\ BufferSize \in Nat \ {0}
                           /\ MaxEvents \in Nat
                           /\ MaxSubs \in Nat

Events == 1..MaxEvents
Subs   == 1..MaxSubs
HandlerStates == {"absent", "subscribed", "reading", "stopped", "leaving",
                  "done"}
Delivery == [sub : Subs, event : Events]

VARIABLES
  registered, \* h.conversations[id]; the map entry is there iff not empty
  sub,        \* h.subscriptions[id], 0 for nil; numbered as they are made
  made,       \* subscriptions made so far
  open,       \* the subscriptions that have not been closed
  chan,       \* subscription -> events received from Redis, not yet taken
  fwd,        \* subscription -> what its forwardSubscription is doing
  published,  \* events published so far
  buffer,     \* client -> contents of client.send
  closed,     \* the clients whose client.send is closed
  handler,    \* client -> where the goroutine of its handler is
  writer,     \* client -> where its WritePump is
  conn,       \* client -> "open", "broken" by the peer or net, or "closed"
  log,        \* auxiliary: client -> deliveries put in client.send, in order
  crashed     \* a panic outside a request handler ends the process

hub    == <<registered, sub, made, open, closed>>
redis  == <<chan, published>>
pumps  == <<handler, writer, conn>>
vars   == <<registered, sub, made, open, chan, fwd, published, buffer, closed,
            handler, writer, conn, log, crashed>>

(* A forwarder: the event in its hand, the clients it still has to offer   *)
(* it to, and the slow one it is about to unsubscribe, if any.             *)
Holding(e, T, S) == [at |-> IF T = {} THEN "receiving" ELSE "sending",
                     event |-> IF T = {} THEN 0 ELSE e,
                     targets |-> T, slow |-> S]
Idle  == Holding(0, {}, {})
Ended == [Idle EXCEPT !.at = "ended"]

Init ==
  /\ registered = {} /\ sub = 0 /\ made = 0 /\ open = {}
  /\ chan = [s \in Subs |-> <<>>]
  /\ fwd = [s \in Subs |-> Idle]
  /\ published = 0
  /\ buffer = [c \in Clients |-> <<>>]
  /\ closed = {}
  /\ handler = [c \in Clients |-> "absent"]
  /\ writer = [c \in Clients |-> "absent"]
  /\ conn = [c \in Clients |-> "open"]
  /\ log = [c \in Clients |-> <<>>]
  /\ crashed = FALSE

-----------------------------------------------------------------------------
(* Redis Pub/Sub: at most once to each subscription open at the time; a    *)
(* full channel, a reconnect or an unconfirmed SUBSCRIBE loses the event.  *)
Publish ==
  /\ published < MaxEvents
  /\ published' = published + 1
  /\ \E got \in SUBSET open :
       chan' = [s \in Subs |-> IF s \in got THEN Append(chan[s], published + 1)
                                           ELSE chan[s]]

(* Another handler of any instance publishes.                              *)
PublishElsewhere ==
  /\ Publish
  /\ UNCHANGED <<hub, fwd, buffer, pumps, log, crashed>>

-----------------------------------------------------------------------------
(* Mutated form: a subscription is made for every client.                  *)
SubscribeAgain(c) ==
  /\ handler[c] = "absent" /\ made < MaxSubs
  /\ registered' = registered \cup {c}
  /\ made' = made + 1 /\ sub' = made + 1 /\ open' = open \cup {made + 1}
  /\ handler' = [handler EXCEPT ![c] = "subscribed"]
  /\ UNCHANGED <<redis, fwd, buffer, closed, writer, conn, log, crashed>>

(* Hub.Subscribe, called by the handler once the upgrade has succeeded.    *)
Subscribe(c) ==
  /\ handler[c] = "absent"
  /\ registered' = registered \cup {c}
  /\ IF sub = 0
     THEN /\ made < MaxSubs
          /\ made' = made + 1 /\ sub' = made + 1 /\ open' = open \cup {made + 1}
     ELSE UNCHANGED <<made, sub, open>>
  /\ handler' = [handler EXCEPT ![c] = "subscribed"]
  /\ UNCHANGED <<redis, fwd, buffer, closed, writer, conn, log, crashed>>

(* Mutated form: the client is forgotten but its channel left open.        *)
UnsubscribeQuietly(c) ==
  LET rest == registered \ {c}
  IN  /\ registered' = rest /\ UNCHANGED closed
      /\ sub' = IF rest = {} THEN 0 ELSE sub
      /\ open' = IF rest = {} THEN open \ {sub} ELSE open

(* Mutated form: the subscription is forgotten but not closed.             *)
UnsubscribeLeaking(c) ==
  LET rest == registered \ {c}
  IN  /\ registered' = rest
      /\ closed' = closed \cup ({c} \cap registered)
      /\ sub' = IF rest = {} THEN 0 ELSE sub
      /\ UNCHANGED open

(* Hub.Unsubscribe: a client is closed by whoever removes it, and the last *)
(* one to go takes the subscription with it.                               *)
Unsubscribe(c) ==
  LET rest == registered \ {c}
  IN  /\ registered' = rest
      /\ closed' = closed \cup ({c} \cap registered)
      /\ sub' = IF rest = {} THEN 0 ELSE sub
      /\ open' = IF rest = {} THEN open \ {sub} ELSE open

-----------------------------------------------------------------------------
(* forwardSubscription takes an event and broadcastLocal copies the set of *)
(* clients under the read lock, then sends without any lock.               *)
Take(s) ==
  /\ fwd[s].at = "receiving" /\ chan[s] # <<>>
  /\ fwd' = [fwd EXCEPT ![s] = Holding(Head(chan[s]), registered, {})]
  /\ chan' = [chan EXCEPT ![s] = Tail(@)]
  /\ UNCHANGED <<hub, published, buffer, pumps, log, crashed>>

HasRoom(c) == Len(buffer[c]) < BufferSize

(* The send on client.send: buffered when there is room; a full buffer     *)
(* takes the default branch.  A send on a closed channel panics, and no    *)
(* one recovers in this goroutine.                                         *)
SendTo(s, c) ==
  LET rest == fwd[s].targets \ {c}
      e    == fwd[s].event
  IN  /\ fwd[s].at = "sending" /\ fwd[s].slow = {} /\ c \in fwd[s].targets
      /\ \/ /\ c \in closed /\ crashed' = TRUE
            /\ UNCHANGED <<fwd, buffer, log>>
         \/ /\ c \notin closed /\ HasRoom(c)
            /\ buffer' = [buffer EXCEPT ![c] = Append(@, e)]
            /\ log' = [log EXCEPT ![c] = Append(@, [sub |-> s, event |-> e])]
            /\ fwd' = [fwd EXCEPT ![s] = Holding(e, rest, {})]
            /\ UNCHANGED crashed
         \/ /\ c \notin closed /\ ~HasRoom(c)
            /\ fwd' = [fwd EXCEPT ![s].slow = {c}]
            /\ UNCHANGED <<buffer, log, crashed>>
      /\ UNCHANGED <<hub, redis, pumps>>

(* Mutated form: the slow client stays and is tried again.                 *)
RetrySlow(s) ==
  /\ fwd[s].slow # {}
  /\ fwd' = [fwd EXCEPT ![s].slow = {}]
  /\ UNCHANGED <<hub, redis, buffer, pumps, log, crashed>>

(* The default branch: the slow client is unsubscribed.                    *)
Kick(s) ==
  /\ \E c \in fwd[s].slow :
       /\ Unsubscribe(c)
       /\ fwd' = [fwd EXCEPT ![s] =
                    Holding(fwd[s].event, fwd[s].targets \ {c}, {})]
  /\ UNCHANGED <<made, redis, buffer, pumps, log, crashed>>

(* A closed subscription's channel ends once it is drained.                *)
EndForwarding(s) ==
  /\ s <= made /\ s \notin open
  /\ fwd[s].at = "receiving" /\ chan[s] = <<>>
  /\ fwd' = [fwd EXCEPT ![s] = Ended]
  /\ UNCHANGED <<hub, redis, buffer, pumps, log, crashed>>

Forward(s) == \/ Take(s) \/ Kick(s) \/ EndForwarding(s)
              \/ \E c \in Clients : SendTo(s, c)

-----------------------------------------------------------------------------
(* The handler starts WritePump and becomes ReadPump.                      *)
StartPumps(c) ==
  /\ handler[c] = "subscribed"
  /\ handler' = [handler EXCEPT ![c] = "reading"]
  /\ writer' = [writer EXCEPT ![c] = "running"]
  /\ UNCHANGED <<hub, redis, fwd, buffer, conn, log, crashed>>

(* ReadPump: a typing event is published; an error ends the loop and       *)
(* closes the connection.                                                  *)
ReadTyping(c) ==
  /\ handler[c] = "reading" /\ conn[c] = "open"
  /\ Publish
  /\ UNCHANGED <<hub, fwd, buffer, pumps, log, crashed>>

ReadFails(c) ==
  /\ handler[c] = "reading" /\ conn[c] # "open"
  /\ conn' = [conn EXCEPT ![c] = "closed"]
  /\ handler' = [handler EXCEPT ![c] = "stopped"]
  /\ UNCHANGED <<hub, redis, fwd, buffer, writer, log, crashed>>

(* The deferred calls, last first: publishTypingStopped, whose error is    *)
(* only logged, then Hub.Unsubscribe.                                      *)
PublishTypingStopped(c) ==
  /\ handler[c] = "stopped"
  /\ \/ Publish
     \/ UNCHANGED redis
  /\ handler' = [handler EXCEPT ![c] = "leaving"]
  /\ UNCHANGED <<hub, fwd, buffer, writer, conn, log, crashed>>

Leave(c) ==
  /\ handler[c] = "leaving"
  /\ Unsubscribe(c)
  /\ handler' = [handler EXCEPT ![c] = "done"]
  /\ UNCHANGED <<made, redis, fwd, buffer, writer, conn, log, crashed>>

(* WritePump: an event is written, or the write or a ping fails; once      *)
(* client.send is closed and empty it says goodbye and ends.               *)
WriteEvent(c) ==
  /\ writer[c] = "running" /\ conn[c] = "open" /\ buffer[c] # <<>>
  /\ buffer' = [buffer EXCEPT ![c] = Tail(@)]
  /\ UNCHANGED <<hub, redis, fwd, pumps, log, crashed>>

(* Mutated form: the connection stays open for the reader.                 *)
EndWritingOnly(c) ==
  /\ writer[c] = "running"
  /\ conn[c] # "open" \/ (c \in closed /\ buffer[c] = <<>>)
  /\ writer' = [writer EXCEPT ![c] = "done"]
  /\ UNCHANGED <<hub, redis, fwd, buffer, handler, conn, log, crashed>>

EndWriting(c) ==
  /\ writer[c] = "running"
  /\ conn[c] # "open" \/ (c \in closed /\ buffer[c] = <<>>)
  /\ writer' = [writer EXCEPT ![c] = "done"]
  /\ conn' = [conn EXCEPT ![c] = "closed"]
  /\ UNCHANGED <<hub, redis, fwd, buffer, handler, log, crashed>>

(* The peer closes, or is silent past a deadline.                          *)
PeerGone(c) ==
  /\ handler[c] # "absent" /\ conn[c] = "open"
  /\ conn' = [conn EXCEPT ![c] = "broken"]
  /\ UNCHANGED <<hub, redis, fwd, buffer, handler, writer, log, crashed>>

Handle(c) == StartPumps(c) \/ ReadFails(c) \/ PublishTypingStopped(c) \/ Leave(c)
Write(c)  == WriteEvent(c) \/ EndWriting(c)

Next ==
  /\ ~crashed
  /\ \/ PublishElsewhere
     \/ \E c \in Clients : \/ Subscribe(c) \/ Handle(c) \/ Write(c)
                           \/ ReadTyping(c) \/ PeerGone(c)
     \/ \E s \in Subs : Forward(s)

Spec == Init /\ [][Next]_vars

(* Every goroutine runs; nothing makes a client connect, speak or go away. *)
(* Peers may be as slow as they like: of a WritePump only its end is       *)
(* assumed, once its channel is closed or its connection broken, when what *)
(* is left in the buffer is written or fails within writeTimeout.          *)
Ending(c) == c \in closed \/ conn[c] # "open"

FairSpec ==
  /\ Spec
  /\ \A s \in Subs : WF_vars(~crashed /\ Forward(s))
  /\ \A c \in Clients : /\ WF_vars(~crashed /\ Handle(c))
                         /\ WF_vars(~crashed /\ Ending(c) /\ Write(c))

-----------------------------------------------------------------------------
(* TypeOK: the values the variables range over.                            *)
TypeOK ==
  /\ registered \subseteq Clients
  /\ made \in 0..MaxSubs /\ sub \in 0..made /\ open \subseteq 1..made
  /\ chan \in [Subs -> Seq(Events)]
  /\ fwd \in [Subs -> [at : {"receiving", "sending", "ended"},
                       event : 0..MaxEvents, targets : SUBSET Clients,
                       slow : SUBSET Clients]]
  /\ published \in 0..MaxEvents
  /\ buffer \in [Clients -> Seq(Events)]
  /\ \A c \in Clients : Len(buffer[c]) <= BufferSize
  /\ closed \subseteq Clients
  /\ handler \in [Clients -> HandlerStates]
  /\ writer \in [Clients -> {"absent", "running", "done"}]
  /\ conn \in [Clients -> {"open", "broken", "closed"}]
  /\ log \in [Clients -> Seq(Delivery)]
  /\ crashed \in BOOLEAN

(* The hub holds a Redis subscription exactly while it has clients, and    *)
(* has no other one open: none leaks when the last client goes by either   *)
(* way, none is missing for a client that comes while the last one goes    *)
(* (hub.go:35-72).                                                         *)
SubscribedIffClients ==
  /\ (sub # 0) <=> (registered # {})
  /\ open = IF sub = 0 THEN {} ELSE {sub}

(* client.send is closed exactly once its client has been removed, be it   *)
(* by the handler or by a forwarder that found the buffer full: no client  *)
(* is left with a WritePump that nothing will ever end (hub.go:60-63).     *)
ClosedIffRemoved ==
  closed = {c \in Clients : handler[c] # "absent"} \ registered

(* No client is given an event twice, even while the forwarder of a closed *)
(* subscription drains beside the forwarder of its successor, and what     *)
(* comes through one subscription comes in the order it was published.     *)
OnceAndInOrder ==
  \A c \in Clients : \A i, j \in DOMAIN log[c] : i < j =>
    /\ log[c][i].event # log[c][j].event
    /\ log[c][i].sub = log[c][j].sub => log[c][i].event < log[c][j].event

(* A forwarder gets to every client it copied, however slowly the others   *)
(* read: a full buffer costs its client the place, not the others their    *)
(* event (hub.go:87-93).                                                   *)
ForwarderMovesOn ==
  \A s \in Subs, c \in Clients :
    (c \in fwd[s].targets) ~> (crashed \/ c \notin fwd[s].targets)

(* The forwarder of a subscription the hub has dropped ends: no goroutine  *)
(* and no connection to Redis stays behind (hub.go:67-70, 96-105).         *)
ForwarderEnds ==
  \A s \in Subs : (s <= made /\ s # sub) ~> (crashed \/ fwd[s].at = "ended")

(* A client removed for being slow, or whose peer has gone, is taken down  *)
(* completely: both pumps and the handler end (client.go:33-92,            *)
(* websocket.go:101-110).                                                  *)
TornDown ==
  \A c \in Clients :
    (handler[c] # "absent" /\ (c \in closed \/ conn[c] # "open"))
      ~> (crashed \/ (handler[c] = "done" /\ writer[c] = "done"
                      /\ c \notin registered))

(* README.md:99 "the realtime hub forwards it to connected WebSocket       *)
(* clients": no send to a client that is going away ends the process.      *)
NoPanic == ~crashed
=============================================================================
