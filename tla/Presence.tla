------------------------------ MODULE Presence ------------------------------
(***************************************************************************)
(* presence/service.go: every backend process counts the WebSocket         *)
(* connections of a user and keeps the users with any in a Redis set.      *)
(* Connect and Disconnect hold the service's mutex across their Redis      *)
(* command, so each is one step; the command may fail, before or after     *)
(* Redis has carried it out.  The WebSocket handler calls them             *)
(* (handlers/websocket.go:97-101): a Connect that fails ends the handler   *)
(* before Disconnect is deferred.  A process may crash and start again.    *)
(***************************************************************************)
EXTENDS Naturals, FiniteSets

CONSTANTS
  Instances,  \* backend processes that share the Redis set
  Conns,      \* WebSocket connections under way at once: the only bound
  Users,
  Faults      \* which of "sadd", "srem" and "crash" may happen

ASSUME ConnsAssumption == IsFiniteSet(Conns)
ASSUME FaultsAssumption == Faults \subseteq {"sadd", "srem", "crash"}

VARIABLES
  counts,  \* instance -> user -> s.counts[userID], 0 for no entry
  online,  \* the members of presence:online_users
  conn,    \* connection -> [at, user]: the process that serves it, and whose
  faulted, \* auxiliary: something has failed or crashed
  eclipsed \* auxiliary: users one process took out of the set while they
           \* had connections at another, and that nobody has put back

vars == <<counts, online, conn, faulted, eclipsed>>

NoConn == [at |-> {}, user |-> {}]
Serving(i, u) == [at |-> {i}, user |-> {u}]
Connections == {NoConn} \cup {Serving(i, u) : i \in Instances, u \in Users}
Active(i, u) == {k \in Conns : conn[k] = Serving(i, u)}

Init == /\ counts = [i \in Instances |-> [u \in Users |-> 0]]
        /\ online = {}
        /\ conn = [k \in Conns |-> NoConn]
        /\ faulted = FALSE
        /\ eclipsed = {}

-----------------------------------------------------------------------------
SAdd(u) == /\ online' = online \cup {u}
           /\ eclipsed' = eclipsed \ {u}

SRem(i, u) == /\ online' = online \ {u}
              /\ eclipsed' = eclipsed \cup
                   IF \E j \in Instances \ {i} : Active(j, u) # {} THEN {u} ELSE {}

(* Connect.  The count goes up whatever becomes of the SADD.               *)
Connect(k, i, u) ==
  /\ conn[k] = NoConn
  /\ counts' = [counts EXCEPT ![i][u] = @ + 1]
  /\ \/ /\ counts[i][u] + 1 > 1
        /\ conn' = [conn EXCEPT ![k] = Serving(i, u)]
        /\ UNCHANGED <<online, faulted, eclipsed>>
     \/ /\ counts[i][u] + 1 = 1
        /\ SAdd(u)
        /\ conn' = [conn EXCEPT ![k] = Serving(i, u)]
        /\ UNCHANGED faulted
     \/ /\ counts[i][u] + 1 = 1 /\ "sadd" \in Faults
        /\ SAdd(u) \/ UNCHANGED <<online, eclipsed>>
        /\ faulted' = TRUE
        /\ UNCHANGED conn

(* Mutated forms: a user's set entry outlives the last connection, or goes  *)
(* with one connection still there.                                        *)
LastOneLate(n) == n < 1
LastOneEarly(n) == n <= 2

LastOne(n) == n <= 1

(* Disconnect, deferred by the handler.  The error is dropped.             *)
Disconnect(k, i, u) ==
  /\ conn[k] = Serving(i, u)
  /\ conn' = [conn EXCEPT ![k] = NoConn]
  /\ \/ /\ LastOne(counts[i][u])
        /\ counts' = [counts EXCEPT ![i][u] = 0]
        /\ \/ SRem(i, u) /\ UNCHANGED faulted
           \/ "srem" \in Faults /\ faulted' = TRUE /\ UNCHANGED <<online, eclipsed>>
     \/ /\ ~LastOne(counts[i][u])
        /\ counts' = [counts EXCEPT ![i][u] = @ - 1]
        /\ UNCHANGED <<online, faulted, eclipsed>>

(* The process dies with its counts and connections; the set stays.        *)
Crash(i) ==
  /\ "crash" \in Faults
  /\ counts' = [counts EXCEPT ![i] = [u \in Users |-> 0]]
  /\ conn' = [k \in Conns |-> IF conn[k].at = {i} THEN NoConn ELSE conn[k]]
  /\ faulted' = TRUE
  /\ UNCHANGED <<online, eclipsed>>

Next == \E i \in Instances :
          \/ Crash(i)
          \/ \E k \in Conns, u \in Users : Connect(k, i, u) \/ Disconnect(k, i, u)

Spec == Init /\ [][Next]_vars

-----------------------------------------------------------------------------
(* TypeOK: the values the variables range over; who is eclipsed is not in  *)
(* the set.                                                                *)
TypeOK ==
  /\ counts \in [Instances -> [Users -> 0..(Cardinality(Conns) + 1)]]
  /\ online \subseteq Users
  /\ faulted \in BOOLEAN
  /\ conn \in [Conns -> Connections]
  /\ eclipsed \subseteq Users \ online

(* A count is the number of the user's connections, or one more from a     *)
(* Connect that failed, however many fail: a second failure cannot happen  *)
(* while the first is still counted (service.go:30-35).                    *)
CountsOffByOneAtMost ==
  \A i \in Instances, u \in Users :
    counts[i][u] - Cardinality(Active(i, u)) \in 0..1

(* A user with a connection is shown offline only by a process that has    *)
(* miscounted since a failed SADD, or after another process served his     *)
(* last connection there: no crash, no failed SREM and no order of         *)
(* connections at one process does it (service.go:30-48).                  *)
OfflineOnlyIfMiscounted ==
  \A i \in Instances, u \in Users :
    Active(i, u) # {} /\ u \notin online
      => counts[i][u] > Cardinality(Active(i, u)) \/ u \in eclipsed

(* As long as nothing has failed, and but for users another process has    *)
(* taken out, the set is exactly the users that have a connection, in      *)
(* whatever order they come and go.                                        *)
OnlineIffConnected ==
  ~faulted => \A u \in Users \ eclipsed :
                u \in online <=> \E i \in Instances : Active(i, u) # {}
=============================================================================
