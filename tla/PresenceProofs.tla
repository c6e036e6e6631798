--------------------------- MODULE PresenceProofs ---------------------------
(***************************************************************************)
(* What the presence service keeps, for any number of processes, users and *)
(* connections, whatever fails.                                            *)
(***************************************************************************)
EXTENDS Presence, FiniteSetTheorems, TLAPS

(* The type invariant, but for the bound on the counts.                    *)
Typed ==
  /\ counts \in [Instances -> [Users -> Nat]]
  /\ online \subseteq Users
  /\ faulted \in BOOLEAN
  /\ conn \in [Conns -> Connections]
  /\ eclipsed \subseteq Users \ online

(* As long as nothing has failed every count is right.                     *)
Exact ==
  ~faulted => \A i \in Instances, u \in Users :
                counts[i][u] = Cardinality(Active(i, u))

IInv == /\ Typed /\ CountsOffByOneAtMost /\ Exact
        /\ OfflineOnlyIfMiscounted /\ OnlineIffConnected

-----------------------------------------------------------------------------
(* A connection serves one user at one process, or none.                   *)
LEMMA ServingOnce ==
  ASSUME NEW i, NEW u, NEW j, NEW v
  PROVE  /\ Serving(i, u) # NoConn
         /\ Serving(i, u) = Serving(j, v) => i = j /\ u = v
         /\ Serving(i, u).at = {j} => i = j
         /\ NoConn.at # {i}
<1>1. Serving(i, u).at = {i} /\ Serving(j, v).at = {j} /\ NoConn.at = {}
  BY DEF Serving, NoConn
<1>2. Serving(i, u).user = {u} /\ Serving(j, v).user = {v}
  BY DEF Serving
<1> QED BY <1>1, <1>2

(* What a connection can be.                                               *)
LEMMA NoConnOrServing ==
  /\ NoConn \in Connections
  /\ \A i \in Instances, u \in Users : Serving(i, u) \in Connections
  /\ \A c \in Connections : \/ c = NoConn
                           \/ \E i \in Instances, u \in Users : c = Serving(i, u)
BY DEF Connections

(* Finitely many connections are active.                                   *)
LEMMA ActiveFinite ==
  ASSUME NEW i, NEW u
  PROVE  /\ IsFiniteSet(Active(i, u)) /\ Cardinality(Active(i, u)) \in Nat
         /\ Cardinality(Active(i, u)) <= Cardinality(Conns)
         /\ Cardinality(Active(i, u)) = 0 <=> Active(i, u) = {}
<1>1. Active(i, u) \subseteq Conns
  BY DEF Active
<1>2. IsFiniteSet(Active(i, u)) /\ Cardinality(Active(i, u)) <= Cardinality(Conns)
  BY <1>1, ConnsAssumption, FS_Subset
<1> QED BY <1>2, FS_CardinalityType, FS_EmptySet

(* What a new connection does to the active ones.                          *)
LEMMA Opens ==
  ASSUME IInv, NEW k \in Conns, NEW i \in Instances, NEW u \in Users,
         conn[k] = NoConn, conn' = [conn EXCEPT ![k] = Serving(i, u)]
  PROVE  /\ Cardinality(Active(i, u)') = Cardinality(Active(i, u)) + 1
         /\ Active(i, u)' # {}
         /\ \A j \in Instances, v \in Users :
              j # i \/ v # u => Active(j, v)' = Active(j, v)
<1>1. Active(i, u)' = Active(i, u) \cup {k} /\ k \notin Active(i, u)
  BY ServingOnce DEF IInv, Typed, Active
<1>2. \A j \in Instances, v \in Users :
        j # i \/ v # u => Active(j, v)' = Active(j, v)
  BY ServingOnce DEF IInv, Typed, Active
<1> QED BY <1>1, <1>2, ActiveFinite, FS_AddElement

(* And one that ends.                                                      *)
OneLess(i, u) ==
  /\ Cardinality(Active(i, u)') = Cardinality(Active(i, u)) - 1
  /\ Cardinality(Active(i, u)) \in Nat \ {0}
  /\ Active(i, u) # {}
  /\ Active(i, u)' = {} <=> Cardinality(Active(i, u)) = 1
  /\ \A j \in Instances, v \in Users :
       j # i \/ v # u => Active(j, v)' = Active(j, v)

(* The number of active connections goes down by one.                      *)
LEMMA Ends ==
  ASSUME IInv, NEW k \in Conns, NEW i \in Instances, NEW u \in Users,
         conn[k] = Serving(i, u), conn' = [conn EXCEPT ![k] = NoConn]
  PROVE  OneLess(i, u)
<1>1. Active(i, u)' = Active(i, u) \ {k} /\ k \in Active(i, u)
  BY ServingOnce DEF IInv, Typed, Active
<1>2. \A j \in Instances, v \in Users :
        j # i \/ v # u => Active(j, v)' = Active(j, v)
  BY ServingOnce DEF IInv, Typed, Active
<1>3. /\ IsFiniteSet(Active(i, u)) /\ Cardinality(Active(i, u)) \in Nat
      /\ Active(i, u) # {} /\ Cardinality(Active(i, u)) # 0
  BY <1>1, ActiveFinite
<1>4. /\ IsFiniteSet(Active(i, u) \ {k})
      /\ Cardinality(Active(i, u) \ {k}) = Cardinality(Active(i, u)) - 1
  BY <1>1, <1>3, FS_RemoveElement
<1>5. Cardinality(Active(i, u) \ {k}) = 0 <=> Active(i, u) \ {k} = {}
  BY <1>4, FS_EmptySet
<1> QED BY <1>1, <1>2, <1>3, <1>4, <1>5 DEF OneLess

(* One count changes.                                                      *)
LEMMA OneCount ==
  ASSUME Typed, NEW i \in Instances, NEW u \in Users, NEW m \in Nat,
         counts' = [counts EXCEPT ![i][u] = m]
  PROVE  /\ counts' \in [Instances -> [Users -> Nat]]
         /\ \A j \in Instances, v \in Users :
              counts'[j][v] = IF j = i /\ v = u THEN m ELSE counts[j][v]
<1> DEFINE row == [counts[i] EXCEPT ![u] = m]
<1>1. counts[i] \in [Users -> Nat] /\ counts' = [counts EXCEPT ![i] = row]
  BY DEF Typed
<1>2. row \in [Users -> Nat] /\ \A v \in Users : row[v] = IF v = u THEN m ELSE counts[i][v]
  BY <1>1
<1> HIDE DEF row
<1> QED BY <1>1, <1>2 DEF Typed

-----------------------------------------------------------------------------
(* Nobody is connected at the start.                                       *)
LEMMA InitInv == Init => IInv
<1> SUFFICES ASSUME Init PROVE IInv
  OBVIOUS
<1>1. \A i \in Instances, u \in Users : Active(i, u) = {}
  BY ServingOnce DEF Init, Active
<1>2. \A i \in Instances, u \in Users : Cardinality(Active(i, u)) = 0
  BY <1>1, FS_EmptySet
<1>3. \A i \in Instances, u \in Users : counts[i][u] = 0
  BY DEF Init
<1>4. Typed
  <2>1. counts \in [Instances -> [Users -> Nat]]
    BY DEF Init
  <2>2. conn \in [Conns -> Connections]
    BY DEF Init, Connections
  <2> QED BY <2>1, <2>2 DEF Init, Typed
<1>5. CountsOffByOneAtMost /\ Exact
  BY <1>2, <1>3 DEF CountsOffByOneAtMost, Exact
<1>6. OfflineOnlyIfMiscounted /\ OnlineIffConnected
  BY <1>1 DEF Init, OfflineOnlyIfMiscounted, OnlineIffConnected
<1> QED BY <1>4, <1>5, <1>6 DEF IInv

(* A connection comes, or its SADD fails.                                  *)
LEMMA ConnectInv ==
  ASSUME IInv, NEW k \in Conns, NEW i \in Instances, NEW u \in Users, Connect(k, i, u)
  PROVE  IInv'
<1>a. conn[k] = NoConn /\ counts' = [counts EXCEPT ![i][u] = counts[i][u] + 1]
  BY DEF Connect
<1>b. conn' = [conn EXCEPT ![k] = Serving(i, u)] =>
        /\ Cardinality(Active(i, u)') = Cardinality(Active(i, u)) + 1
        /\ Active(i, u)' # {}
        /\ \A j \in Instances, v \in Users :
             j # i \/ v # u => Active(j, v)' = Active(j, v)
  BY <1>a, Opens
<1> USE DEF IInv
<1>c. counts[i][u] \in Nat
  BY DEF Typed
<1>d. counts[i][u] + 1 \in Nat
  BY <1>c
<1>0. /\ conn[k] = NoConn /\ counts[i][u] \in Nat
      /\ counts' \in [Instances -> [Users -> Nat]]
      /\ \A j \in Instances, v \in Users :
           counts'[j][v] = IF j = i /\ v = u THEN counts[i][u] + 1 ELSE counts[j][v]
  BY <1>a, <1>c, <1>d, OneCount
<1>1. \A j \in Instances, v \in Users :
        Cardinality(Active(j, v)) \in Nat /\ (Cardinality(Active(j, v)) = 0 <=> Active(j, v) = {})
  BY ActiveFinite
<1>2. ASSUME conn' = [conn EXCEPT ![k] = Serving(i, u)], UNCHANGED faulted,
             \/ counts[i][u] + 1 > 1 /\ UNCHANGED <<online, eclipsed>>
             \/ counts[i][u] + 1 = 1 /\ SAdd(u)
      PROVE  IInv'
  <2>1. /\ Cardinality(Active(i, u)') = Cardinality(Active(i, u)) + 1 /\ Active(i, u)' # {}
        /\ \A j \in Instances, v \in Users :
             j # i \/ v # u => Active(j, v)' = Active(j, v)
    BY <1>2, <1>b
  <2>2. Typed'
    BY <1>0, <1>2, NoConnOrServing DEF Typed, SAdd
  <2>6. ASSUME NEW j \in Instances, NEW v \in Users
        PROVE  counts'[j][v] - Cardinality(Active(j, v)')
                 = counts[j][v] - Cardinality(Active(j, v))
    <3>1. CASE j = i /\ v = u
      <4>1. counts'[i][u] - Cardinality(Active(i, u)')
              = counts[i][u] - Cardinality(Active(i, u))
        BY <1>0, <1>1, <2>1
      <4> QED BY <3>1, <4>1 DEF Active
    <3>2. CASE j # i \/ v # u
      BY <1>0, <2>1, <3>2
    <3> QED BY <3>1, <3>2
  <2>3. CountsOffByOneAtMost' /\ Exact'
    <3>1. CountsOffByOneAtMost'
      BY <2>6 DEF CountsOffByOneAtMost
    <3>2. Exact'
      BY <1>0, <1>1, <1>2, <2>1 DEF Exact
    <3> QED BY <3>1, <3>2
  <2>4. OfflineOnlyIfMiscounted'
    BY <1>0, <1>1, <1>2, <2>1 DEF OfflineOnlyIfMiscounted, CountsOffByOneAtMost, SAdd, Typed
  <2>5. OnlineIffConnected'
    BY <1>0, <1>1, <1>2, <2>1 DEF OnlineIffConnected, Exact, SAdd, Typed
  <2> QED BY <2>2, <2>3, <2>4, <2>5
<1>3. ASSUME counts[i][u] + 1 = 1, SAdd(u) \/ UNCHANGED <<online, eclipsed>>,
             faulted' = TRUE, UNCHANGED conn
      PROVE  IInv'
  <2>1. \A j \in Instances, v \in Users : Active(j, v)' = Active(j, v)
    BY <1>3 DEF Active
  <2>2. Typed'
    BY <1>0, <1>3 DEF Typed, SAdd
  <2>3. CountsOffByOneAtMost'
    BY <1>0, <1>1, <1>3, <2>1 DEF CountsOffByOneAtMost
  <2>4. OfflineOnlyIfMiscounted'
    BY <1>0, <1>1, <1>3, <2>1 DEF OfflineOnlyIfMiscounted, CountsOffByOneAtMost, SAdd, Typed
  <2> QED BY <1>3, <2>2, <2>3, <2>4 DEF Exact, OnlineIffConnected
<1> QED BY <1>2, <1>3 DEF Connect

(* A connection ends, with or without its SREM.                            *)
LEMMA DisconnectInv ==
  ASSUME IInv, NEW k \in Conns, NEW i \in Instances, NEW u \in Users, Disconnect(k, i, u)
  PROVE  IInv'
<1>a. conn[k] = Serving(i, u) /\ conn' = [conn EXCEPT ![k] = NoConn]
  BY DEF Disconnect
<1>b. OneLess(i, u)
  BY <1>a, Ends
<1> USE DEF IInv
<1>0. /\ conn[k] = Serving(i, u) /\ conn' = [conn EXCEPT ![k] = NoConn]
      /\ counts[i][u] \in Nat
  BY DEF Disconnect, Typed
<1>1. \A j \in Instances, v \in Users :
        Cardinality(Active(j, v)) \in Nat /\ (Cardinality(Active(j, v)) = 0 <=> Active(j, v) = {})
  BY ActiveFinite
<1>2. /\ Cardinality(Active(i, u)') = Cardinality(Active(i, u)) - 1 /\ Active(i, u) # {}
      /\ Active(i, u)' = {} <=> Cardinality(Active(i, u)) = 1
      /\ \A j \in Instances, v \in Users :
           j # i \/ v # u => Active(j, v)' = Active(j, v)
  BY <1>b DEF OneLess
<1>3. counts[i][u] - Cardinality(Active(i, u)) \in 0..1 /\ Cardinality(Active(i, u)) >= 1
  BY <1>1, <1>2 DEF CountsOffByOneAtMost
<1>4. ASSUME LastOne(counts[i][u]), counts' = [counts EXCEPT ![i][u] = 0],
             \/ SRem(i, u) /\ UNCHANGED faulted
             \/ faulted' = TRUE /\ UNCHANGED <<online, eclipsed>>
      PROVE  IInv'
  <2>0. Cardinality(Active(i, u)) = 1 /\ counts[i][u] = 1 /\ Cardinality(Active(i, u)') = 0 /\ Active(i, u)' = {}
    BY <1>0, <1>1, <1>2, <1>3, <1>4 DEF LastOne
  <2>1. /\ counts' \in [Instances -> [Users -> Nat]]
        /\ \A j \in Instances, v \in Users :
             counts'[j][v] = IF j = i /\ v = u THEN 0 ELSE counts[j][v]
    BY <1>4, OneCount
  <2>2. Typed'
    <3>1. conn' \in [Conns -> Connections]
      BY <1>0, NoConnOrServing DEF Typed
    <3>2. online' \subseteq Users /\ eclipsed' \subseteq Users \ online' /\ faulted' \in BOOLEAN
      BY <1>4 DEF Typed, SRem
    <3> QED BY <2>1, <3>1, <3>2 DEF Typed
  <2>3. CountsOffByOneAtMost'
    <3> SUFFICES ASSUME NEW j \in Instances, NEW v \in Users
                 PROVE  counts'[j][v] - Cardinality(Active(j, v)') \in 0..1
      BY DEF CountsOffByOneAtMost
    <3>1. CASE j = i /\ v = u
      BY <2>0, <2>1, <3>1 DEF Active
    <3>2. CASE j # i \/ v # u
      BY <1>2, <2>1, <3>2 DEF CountsOffByOneAtMost
    <3> QED BY <3>1, <3>2
  <2>6. Exact'
    <3> SUFFICES ASSUME NEW j \in Instances, NEW v \in Users, ~faulted'
                 PROVE  counts'[j][v] = Cardinality(Active(j, v)')
      BY DEF Exact
    <3>1. CASE j = i /\ v = u
      BY <2>0, <2>1, <3>1 DEF Active
    <3>2. CASE j # i \/ v # u
      BY <1>2, <1>4, <2>1, <3>2 DEF Exact
    <3> QED BY <3>1, <3>2
  <2>4. OfflineOnlyIfMiscounted'
    <3> SUFFICES ASSUME NEW j \in Instances, NEW v \in Users,
                        Active(j, v)' # {}, v \notin online'
                 PROVE  counts'[j][v] > Cardinality(Active(j, v)') \/ v \in eclipsed'
      BY DEF OfflineOnlyIfMiscounted
    <3>1. /\ j # i \/ v # u
          /\ Active(j, v) # {}
          /\ Active(j, v)' = Active(j, v) /\ counts'[j][v] = counts[j][v]
      BY <1>2, <2>0, <2>1
    <3>2. CASE v \in online
      BY <1>4, <3>1, <3>2 DEF SRem
    <3>3. CASE v \notin online
      <4>1. counts[j][v] > Cardinality(Active(j, v)) \/ v \in eclipsed
        BY <3>1, <3>3 DEF OfflineOnlyIfMiscounted
      <4> QED BY <1>4, <3>1, <4>1 DEF SRem
    <3> QED BY <3>2, <3>3
  <2>5. OnlineIffConnected'
    BY <1>1, <1>2, <1>4, <2>0, <2>1 DEF OnlineIffConnected, SRem, Typed
  <2> QED BY <2>2, <2>3, <2>4, <2>5, <2>6
<1>5. ASSUME ~LastOne(counts[i][u]), counts' = [counts EXCEPT ![i][u] = @ - 1],
             UNCHANGED <<online, faulted, eclipsed>>
      PROVE  IInv'
  <2>0. /\ counts[i][u] >= 2
        /\ ~faulted => Active(i, u)' # {}
    <3>1. counts[i][u] >= 2
      BY <1>0, <1>5 DEF LastOne
    <3>2. ~faulted => Cardinality(Active(i, u)) = counts[i][u]
      BY DEF Exact
    <3> QED BY <3>1, <3>2, <1>1, <1>2
  <2>1. /\ counts' \in [Instances -> [Users -> Nat]]
        /\ \A j \in Instances, v \in Users :
             counts'[j][v] = IF j = i /\ v = u THEN counts[i][u] - 1 ELSE counts[j][v]
    <3>1. counts[i][u] - 1 \in Nat /\ counts' = [counts EXCEPT ![i][u] = counts[i][u] - 1]
      BY <1>0, <1>5, <2>0
    <3> QED BY <3>1, OneCount
  <2>2. Typed'
    BY <1>0, <1>5, <2>1, NoConnOrServing DEF Typed
  <2>3. CountsOffByOneAtMost' /\ Exact'
    BY <1>0, <1>1, <1>2, <1>5, <2>1 DEF CountsOffByOneAtMost, Exact
  <2>4. OfflineOnlyIfMiscounted'
    BY <1>0, <1>1, <1>2, <1>5, <2>0, <2>1 DEF OfflineOnlyIfMiscounted
  <2>5. OnlineIffConnected'
    BY <1>2, <1>5, <2>0 DEF OnlineIffConnected
  <2> QED BY <2>2, <2>3, <2>4, <2>5
<1> QED BY <1>4, <1>5 DEF Disconnect

(* A process dies: its counts and its connections go together.             *)
LEMMA CrashInv == ASSUME IInv, NEW i \in Instances, Crash(i) PROVE IInv'
<1> USE DEF IInv
<1>1. /\ faulted' = TRUE /\ UNCHANGED <<online, eclipsed>>
      /\ counts' = [counts EXCEPT ![i] = [u \in Users |-> 0]]
      /\ conn' = [k \in Conns |-> IF conn[k].at = {i} THEN NoConn ELSE conn[k]]
  BY DEF Crash
<1>2. Typed'
  <2>1. counts' \in [Instances -> [Users -> Nat]]
    BY <1>1 DEF Typed
  <2>2. conn' \in [Conns -> Connections]
    BY <1>1, NoConnOrServing DEF Typed
  <2> QED BY <1>1, <2>1, <2>2 DEF Typed
<1>0. \A k \in Conns : \/ conn[k] = NoConn
                      \/ \E j \in Instances, u \in Users : conn[k] = Serving(j, u)
  BY NoConnOrServing DEF Typed
<1>3. \A u \in Users : Active(i, u)' = {} /\ Cardinality(Active(i, u)') = 0
  <2>1. \A u \in Users : Active(i, u)' = {}
    <3> SUFFICES ASSUME NEW u \in Users, NEW k \in Conns, conn'[k] = Serving(i, u)
                 PROVE  FALSE
      BY DEF Active
    <3>1. Serving(i, u).at = {i}
      BY DEF Serving
    <3> QED BY <1>1, <3>1, ServingOnce
  <2> QED BY <2>1, FS_EmptySet
<1>4. \A j \in Instances \ {i}, u \in Users : Active(j, u)' = Active(j, u)
  <2> SUFFICES ASSUME NEW j \in Instances \ {i}, NEW u \in Users, NEW k \in Conns
               PROVE  conn'[k] = Serving(j, u) <=> conn[k] = Serving(j, u)
    BY DEF Active
  <2>1. CASE conn[k] = NoConn
    BY <1>1, <2>1, ServingOnce
  <2>2. ASSUME NEW h \in Instances, NEW v \in Users, conn[k] = Serving(h, v)
        PROVE  conn'[k] = Serving(j, u) <=> conn[k] = Serving(j, u)
    <3>1. conn[k].at = {i} <=> h = i
      BY <2>2 DEF Serving
    <3> QED BY <1>1, <2>2, <3>1, ServingOnce
  <2> QED BY <1>0, <2>1, <2>2
<1>5. \A j \in Instances, u \in Users :
        counts'[j][u] = IF j = i THEN 0 ELSE counts[j][u]
  BY <1>1 DEF Typed
<1>6. CountsOffByOneAtMost'
  BY <1>3, <1>4, <1>5 DEF CountsOffByOneAtMost
<1>7. OfflineOnlyIfMiscounted'
  BY <1>1, <1>3, <1>4, <1>5 DEF OfflineOnlyIfMiscounted
<1> QED BY <1>1, <1>2, <1>6, <1>7 DEF Exact, OnlineIffConnected

(* The invariant is inductive.                                             *)
LEMMA NextInv == IInv /\ [Next]_vars => IInv'
<1> SUFFICES ASSUME IInv, [Next]_vars PROVE IInv'
  OBVIOUS
<1>1. CASE UNCHANGED vars
  BY <1>1 DEF vars, IInv, Typed, Exact, CountsOffByOneAtMost, OfflineOnlyIfMiscounted,
              OnlineIffConnected, Active
<1>2. CASE Next
  BY <1>2, ConnectInv, DisconnectInv, CrashInv DEF Next
<1> QED BY <1>1, <1>2

(* The counts and the set stay related through every failure.              *)
THEOREM Invariance == Spec => []IInv
<1> QED BY InitInv, NextInv, PTL DEF Spec

(* Types, and no count past the number of connections and one.             *)
THEOREM TypeCorrect == Spec => []TypeOK
<1>1. IInv => TypeOK
  <2> SUFFICES ASSUME IInv PROVE TypeOK
    OBVIOUS
  <2>1. Cardinality(Conns) \in Nat
    BY ConnsAssumption, FS_CardinalityType
  <2>2. \A i \in Instances, u \in Users : counts[i][u] \in 0..(Cardinality(Conns) + 1)
    <3> SUFFICES ASSUME NEW i \in Instances, NEW u \in Users
                 PROVE  counts[i][u] \in 0..(Cardinality(Conns) + 1)
      OBVIOUS
    <3>1. /\ Cardinality(Active(i, u)) \in Nat
          /\ Cardinality(Active(i, u)) <= Cardinality(Conns)
      BY ActiveFinite
    <3> QED BY <2>1, <3>1 DEF IInv, CountsOffByOneAtMost, Typed
  <2> QED BY <2>2 DEF IInv, Typed, TypeOK
<1> QED BY <1>1, Invariance, PTL

(* No count is off by more than one, however many commands fail and        *)
(* processes die (service.go:30-47).                                       *)
THEOREM CountsStayClose == Spec => []CountsOffByOneAtMost
<1>1. IInv => CountsOffByOneAtMost
  BY DEF IInv
<1> QED BY <1>1, Invariance, PTL

(* A connected user is shown offline only after a failed SADD or another   *)
(* process's SREM.                                                         *)
THEOREM OfflineHasCause == Spec => []OfflineOnlyIfMiscounted
<1>1. IInv => OfflineOnlyIfMiscounted
  BY DEF IInv
<1> QED BY <1>1, Invariance, PTL

(* Without a failure the set is the connected users, any process having    *)
(* taken out its own only.                                                 *)
THEOREM OnlineIsConnected == Spec => []OnlineIffConnected
<1>1. IInv => OnlineIffConnected
  BY DEF IInv
<1> QED BY <1>1, Invariance, PTL
=============================================================================
