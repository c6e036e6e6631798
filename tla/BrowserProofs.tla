---------------------------- MODULE BrowserProofs ---------------------------
(***************************************************************************)
(* Theorems about a browser, for any number of users, conversations,       *)
(* messages and requests under way: a tab's session and its sockets, then  *)
(* the message pane.  First the session alone: an answer that counts is    *)
(* one to the session that is still on.                                    *)
(***************************************************************************)
EXTENDS Sockets, MessagePane, FiniteSetTheorems, SequenceTheorems, TLAPS

Current(asked) == {r \in asked : r.isCurrent}

(* The requests that count were made with the token the tab holds, those   *)
(* for the list also for the user it shows.                                *)
AskedNow == /\ \A r \in Current(me) : r.of = token
            /\ \A r \in Current(lists) : r.of = token /\ r.of = user

(* Somebody else's conversations are listed only as left over.             *)
OwnOrLeft == conversations \subseteq leftover \cup
               (IF user = NoUser THEN {} ELSE MemberOf[user])

CreatesOwn == \A r \in creates : r.id \in MemberOf[r.of]

SInv == TypeOK /\ UserIsTokens /\ AskedNow /\ OwnOrLeft /\ CreatesOwn

MeRequests   == [of : Users, isCurrent : BOOLEAN]
ListRequests == [of : Users, search : BOOLEAN, isCurrent : BOOLEAN]

(* Cleaning up leaves no request that counts.                              *)
LEMMA SupersededMe ==
  ASSUME NEW S \in SUBSET MeRequests
  PROVE  Superseded(S) \subseteq MeRequests /\ \A r \in Superseded(S) : ~r.isCurrent
  BY DEF Superseded, MeRequests

LEMMA SupersededLists ==
  ASSUME NEW S \in SUBSET ListRequests
  PROVE  Superseded(S) \subseteq ListRequests /\ \A r \in Superseded(S) : ~r.isCurrent
  BY DEF Superseded, ListRequests

(* What the two effects leave behind: requests of the session as it is     *)
(* from now on.                                                            *)
LEMMA MeEffectAsks ==
  ASSUME TypeOK, MeEffect, token' \in Users \cup {NoUser}
  PROVE  /\ me' \subseteq MeRequests
         /\ \A r \in me' : r.isCurrent => r.of = token'
         /\ \A r, s \in me' : r.isCurrent /\ s.isCurrent => r = s
         /\ token' # NoUser => \E r \in me' : r.isCurrent /\ r.of = token'
  <1>1. /\ Superseded(me) \subseteq MeRequests
        /\ \A r \in Superseded(me) : ~r.isCurrent
    BY SupersededMe DEF TypeOK, MeRequests
  <1>2. CASE token' = NoUser
    BY <1>1, <1>2 DEF MeEffect
  <1>3. CASE token' # NoUser
    <2> DEFINE new == [of |-> token', isCurrent |-> TRUE]
    <2>1. new \in MeRequests /\ new.isCurrent /\ new.of = token'
      BY <1>3 DEF MeRequests
    <2>2. me' = Superseded(me) \cup {new}
      BY <1>3 DEF MeEffect
    <2> QED
      BY <1>1, <2>1, <2>2
  <1> QED
    BY <1>2, <1>3

LEMMA ListEffectAsks ==
  ASSUME TypeOK, ListEffect, {token', user'} \subseteq Users \cup {NoUser},
         search' \in BOOLEAN, user' \in {token', NoUser}
  PROVE  /\ lists' \subseteq ListRequests
         /\ \A r \in lists' : r.isCurrent => r.of = token' /\ r.of = user'
         /\ \A r, s \in lists' : r.isCurrent /\ s.isCurrent => r = s
  <1>1. /\ Superseded(lists) \subseteq ListRequests
        /\ \A r \in Superseded(lists) : ~r.isCurrent
    BY SupersededLists DEF TypeOK, ListRequests
  <1>2. CASE NoUser \in {token', user'}
    BY <1>1, <1>2 DEF ListEffect
  <1>3. CASE NoUser \notin {token', user'}
    <2> DEFINE new == [of |-> token', search |-> search', isCurrent |-> TRUE]
    <2>1. new \in ListRequests /\ new.isCurrent /\ new.of = token' /\ new.of = user'
      BY <1>3 DEF ListRequests
    <2>2. lists' = Superseded(lists) \cup {new}
      BY <1>3 DEF ListEffect
    <2> QED
      BY <1>1, <2>1, <2>2
  <1> QED
    BY <1>2, <1>3

(* What the page asks when it starts, first or anew.                       *)
LEMMA StartAsks ==
  ASSUME NEW t \in Users \cup {NoUser}, NEW S,
         S = IF t = NoUser THEN {} ELSE {[of |-> t, isCurrent |-> TRUE]}
  PROVE  /\ S \subseteq MeRequests
         /\ \A r \in S : r.of = t
         /\ \A r, s \in S : r = s
         /\ t # NoUser => \E r \in S : r.isCurrent /\ r.of = t
  <1>1. CASE t = NoUser
    BY <1>1
  <1>2. CASE t # NoUser
    <2> DEFINE new == [of |-> t, isCurrent |-> TRUE]
    <2>1. new \in MeRequests /\ new.isCurrent /\ new.of = t
      BY <1>2 DEF MeRequests
    <2>2. S = {new}
      BY <1>2
    <2> QED
      BY <2>1, <2>2
  <1> QED
    BY <1>1, <1>2

LEMMA SessionInit == Init => SInv
  <1> SUFFICES ASSUME Init PROVE SInv
    OBVIOUS
  <1>1. /\ me \subseteq MeRequests
        /\ \A r \in me : r.of = token
        /\ \A r, s \in me : r = s
        /\ token # NoUser => \E r \in me : r.isCurrent /\ r.of = token
    <2>1. /\ token \in Users \cup {NoUser}
          /\ me = IF token = NoUser THEN {} ELSE {[of |-> token, isCurrent |-> TRUE]}
      BY DEF Init
    <2> QED
      BY <2>1, StartAsks
  <1>2. TypeOK
    <2>1. \A asked \in {me, lists} : \A r, s \in asked : r.isCurrent /\ s.isCurrent => r = s
      BY <1>1 DEF Init
    <2> QED
      BY <1>1, <2>1 DEF Init, TypeOK, MeRequests
  <1>3. UserIsTokens
    BY <1>1 DEF Init, UserIsTokens
  <1> QED
    BY <1>1, <1>2, <1>3 DEF Init, SInv, AskedNow, Current, OwnOrLeft, CreatesOwn

(* The invariant from the parts a step changes.                            *)
LEMMA SessionParts ==
  ASSUME {token', stored', user'} \subseteq Users \cup {NoUser},
         {isBootstrapping', search'} \subseteq BOOLEAN,
         leftover' \subseteq conversations', conversations' \subseteq Conversations,
         me' \subseteq MeRequests, lists' \subseteq ListRequests,
         creates' \subseteq [of : Users, id : Conversations],
         leaves' \subseteq Conversations,
         \A r, s \in me' : r.isCurrent /\ s.isCurrent => r = s,
         \A r, s \in lists' : r.isCurrent /\ s.isCurrent => r = s,
         UserIsTokens', AskedNow', OwnOrLeft', CreatesOwn'
  PROVE  SInv'
  <1>1. TypeOK'
    <2>1. \A asked \in {me', lists'} : \A r, s \in asked : r.isCurrent /\ s.isCurrent => r = s
      OBVIOUS
    <2> QED
      BY <2>1 DEF TypeOK, MeRequests, ListRequests
  <1> QED
    BY <1>1 DEF SInv

(* One case per action of the session.                                     *)
LEMMA SessionStep == SInv /\ [Next]_vars => SInv'
  <1> SUFFICES ASSUME SInv, [Next]_vars PROVE SInv'
    OBVIOUS
  <1> USE MemberOfAssumption
  <1>0. /\ {token, stored, user} \subseteq Users \cup {NoUser}
        /\ {isBootstrapping, search} \subseteq BOOLEAN
        /\ leftover \subseteq conversations /\ conversations \subseteq Conversations
        /\ me \subseteq MeRequests /\ lists \subseteq ListRequests
        /\ creates \subseteq [of : Users, id : Conversations] /\ leaves \subseteq Conversations
        /\ \A r, s \in me : r.isCurrent /\ s.isCurrent => r = s
        /\ \A r, s \in lists : r.isCurrent /\ s.isCurrent => r = s
    BY DEF SInv, TypeOK, MeRequests, ListRequests
  <1>a. /\ \A r \in me : r.isCurrent => r.of = token
        /\ \A r \in lists : r.isCurrent => r.of = token /\ r.of = user
    BY DEF SInv, AskedNow, Current
  <1>b. UserIsTokens /\ OwnOrLeft /\ CreatesOwn /\ TypeOK
    BY DEF SInv
  <1>1. ASSUME NEW u \in Users, SignIn(u) PROVE SInv'
    <2>1. /\ token = NoUser /\ ~isBootstrapping /\ token' = u /\ stored' = u /\ user' = u
          /\ MeEffect /\ ListEffect
          /\ UNCHANGED <<isBootstrapping, search, conversations, creates, leaves, leftover>>
      BY <1>1 DEF SignIn, clicks
    <2>2. /\ me' \subseteq MeRequests
          /\ \A r \in me' : r.isCurrent => r.of = token'
          /\ \A r, s \in me' : r.isCurrent /\ s.isCurrent => r = s
      BY <1>b, <2>1, MeEffectAsks
    <2>3. /\ lists' \subseteq ListRequests
          /\ \A r \in lists' : r.isCurrent => r.of = token' /\ r.of = user'
          /\ \A r, s \in lists' : r.isCurrent /\ s.isCurrent => r = s
      BY <1>0, <1>b, <2>1, ListEffectAsks
    <2>4. UserIsTokens'
      BY <2>1 DEF UserIsTokens
    <2>5. OwnOrLeft' /\ CreatesOwn'
      BY <1>b, <2>1 DEF OwnOrLeft, CreatesOwn, UserIsTokens
    <2>6. AskedNow'
      BY <2>2, <2>3 DEF AskedNow, Current
    <2> QED
      BY <1>0, <2>1, <2>2, <2>3, <2>4, <2>5, <2>6, SessionParts
  <1>2. ASSUME NEW r \in me, MeAnswers(r) PROVE SInv'
    <2>1. /\ r.isCurrent /\ r.of \in Users /\ r.of = token
          /\ user' = r.of /\ isBootstrapping' = FALSE /\ me' = me \ {r}
          /\ UNCHANGED <<token, stored, search, conversations, creates, leaves, leftover>>
          /\ ListEffect
      BY <1>0, <1>a, <1>2 DEF MeAnswers, Heeded, clicks, MeRequests
    <2>3. /\ lists' \subseteq ListRequests
          /\ \A q \in lists' : q.isCurrent => q.of = token' /\ q.of = user'
          /\ \A q, s \in lists' : q.isCurrent /\ s.isCurrent => q = s
      BY <1>0, <1>b, <2>1, ListEffectAsks
    <2>4. UserIsTokens'
      BY <2>1 DEF UserIsTokens
    <2>5. OwnOrLeft' /\ CreatesOwn'
      BY <1>b, <2>1 DEF OwnOrLeft, CreatesOwn, UserIsTokens
    <2>6. AskedNow'
      BY <1>a, <2>1, <2>3 DEF AskedNow, Current
    <2> QED
      BY <1>0, <2>1, <2>3, <2>4, <2>5, <2>6, SessionParts
  <1>3. ASSUME NEW r \in me, MeFails(r) PROVE SInv'
    <2>1. /\ token' = NoUser /\ stored' = NoUser /\ user' = NoUser /\ isBootstrapping' = FALSE
          /\ me' = Superseded(me \ {r}) /\ leftover' = conversations
          /\ UNCHANGED <<search, conversations, creates, leaves>> /\ ListEffect
      BY <1>3 DEF MeFails, NobodyKnown, clicks
    <2>2. me' \subseteq MeRequests /\ \A q \in me' : ~q.isCurrent
      <3>1. me \ {r} \in SUBSET MeRequests
        BY <1>0
      <3> QED
        BY <2>1, <3>1, SupersededMe
    <2>3. /\ lists' \subseteq ListRequests
          /\ \A q \in lists' : q.isCurrent => q.of = token' /\ q.of = user'
          /\ \A q, s \in lists' : q.isCurrent /\ s.isCurrent => q = s
      BY <1>0, <1>b, <2>1, ListEffectAsks
    <2>4. UserIsTokens'
      BY <2>1 DEF UserIsTokens
    <2>5. OwnOrLeft' /\ CreatesOwn'
      BY <1>b, <2>1 DEF OwnOrLeft, CreatesOwn
    <2>6. AskedNow'
      BY <2>2, <2>3 DEF AskedNow, Current
    <2> QED
      BY <1>0, <2>1, <2>2, <2>3, <2>4, <2>5, <2>6, SessionParts
  <1>4. CASE Logout
    <2>1. /\ user # NoUser /\ token' = NoUser /\ stored' = NoUser /\ user' = NoUser
          /\ search' = FALSE /\ conversations' = {} /\ leftover' = {}
          /\ MeEffect /\ ListEffect /\ UNCHANGED <<isBootstrapping, creates, leaves>>
      BY <1>4 DEF Logout, clicks
    <2>2. /\ me' \subseteq MeRequests
          /\ \A r \in me' : r.isCurrent => r.of = token'
          /\ \A r, s \in me' : r.isCurrent /\ s.isCurrent => r = s
      BY <1>b, <2>1, MeEffectAsks
    <2>3. /\ lists' \subseteq ListRequests
          /\ \A r \in lists' : r.isCurrent => r.of = token' /\ r.of = user'
          /\ \A r, s \in lists' : r.isCurrent /\ s.isCurrent => r = s
      BY <1>0, <1>b, <2>1, ListEffectAsks
    <2>4. UserIsTokens'
      BY <1>b, <2>1 DEF UserIsTokens
    <2>5. OwnOrLeft' /\ CreatesOwn'
      BY <1>b, <2>1 DEF OwnOrLeft, CreatesOwn
    <2>6. AskedNow'
      BY <2>2, <2>3 DEF AskedNow, Current
    <2> QED
      BY <1>0, <2>1, <2>2, <2>3, <2>4, <2>5, <2>6, SessionParts
  <1>5. ASSUME NEW r \in lists, ListAnswers(r) PROVE SInv'
    <2>1. /\ r.isCurrent /\ r.of \in Users /\ r.of = user
          /\ lists' = lists \ {r} /\ leftover' = {}
          /\ UNCHANGED <<token, stored, user, isBootstrapping, search, me, creates, leaves>>
      BY <1>0, <1>a, <1>5 DEF ListAnswers, Heeded, clicks, ListRequests
    <2>2. conversations' \subseteq MemberOf[user]
      BY <1>5, <2>1 DEF ListAnswers
    <2>3. conversations' \subseteq Conversations
      BY <2>1, <2>2
    <2>4. UserIsTokens'
      BY <1>b, <2>1 DEF UserIsTokens
    <2>5. OwnOrLeft' /\ CreatesOwn'
      BY <1>b, <2>1, <2>2 DEF OwnOrLeft, CreatesOwn
    <2>6. AskedNow'
      BY <1>a, <2>1 DEF AskedNow, Current
    <2> QED
      BY <1>0, <2>1, <2>3, <2>4, <2>5, <2>6, SessionParts
  <1>6. ASSUME NEW r \in creates, CreateAnswers(r) PROVE SInv'
    <2>1. /\ creates' = creates \ {r} /\ conversations' = conversations \cup {r.id}
          /\ leftover' = leftover \cup IF r.of = user THEN {} ELSE {r.id}
          /\ UNCHANGED <<token, stored, user, isBootstrapping, search, me, lists, leaves>>
      BY <1>6 DEF CreateAnswers, effects
    <2>2. r.id \in Conversations /\ r.of \in Users /\ r.id \in MemberOf[r.of]
      BY <1>0, <1>b DEF CreatesOwn
    <2>4. UserIsTokens'
      BY <1>b, <2>1 DEF UserIsTokens
    <2>5. OwnOrLeft' /\ CreatesOwn'
      BY <1>b, <2>1, <2>2 DEF OwnOrLeft, CreatesOwn
    <2>6. AskedNow'
      BY <1>a, <2>1 DEF AskedNow, Current
    <2> QED
      BY <1>0, <2>1, <2>2, <2>4, <2>5, <2>6, SessionParts
  <1>7. ASSUME NEW id \in leaves, LeaveAnswers(id) PROVE SInv'
    <2>1. /\ leaves' = leaves \ {id} /\ conversations' = conversations \ {id}
          /\ leftover' = leftover \ {id}
          /\ UNCHANGED <<token, stored, user, isBootstrapping, search, me, lists, creates>>
      BY <1>7 DEF LeaveAnswers, effects
    <2>4. UserIsTokens'
      BY <1>b, <2>1 DEF UserIsTokens
    <2>5. OwnOrLeft' /\ CreatesOwn'
      BY <1>b, <2>1 DEF OwnOrLeft, CreatesOwn
    <2>6. AskedNow'
      BY <1>a, <2>1 DEF AskedNow, Current
    <2> QED
      BY <1>0, <2>1, <2>4, <2>5, <2>6, SessionParts
  <1>8. CASE Search
    <2>1. /\ search' \in BOOLEAN /\ ListEffect
          /\ UNCHANGED <<token, stored, user, isBootstrapping, conversations, me, creates,
                         leaves, leftover>>
      BY <1>8 DEF Search, clicks
    <2>3. /\ lists' \subseteq ListRequests
          /\ \A r \in lists' : r.isCurrent => r.of = token' /\ r.of = user'
          /\ \A r, s \in lists' : r.isCurrent /\ s.isCurrent => r = s
      <3>1. user' \in {token', NoUser}
        BY <1>b, <2>1 DEF UserIsTokens
      <3> QED
        BY <1>0, <1>b, <2>1, <3>1, ListEffectAsks
    <2>4. UserIsTokens'
      BY <1>b, <2>1 DEF UserIsTokens
    <2>5. OwnOrLeft' /\ CreatesOwn'
      BY <1>b, <2>1 DEF OwnOrLeft, CreatesOwn
    <2>6. AskedNow'
      BY <1>a, <2>1, <2>3 DEF AskedNow, Current
    <2> QED
      BY <1>0, <2>1, <2>3, <2>4, <2>5, <2>6, SessionParts
  <1>9. CASE Click
    <2>1. /\ user # NoUser
          /\ UNCHANGED <<token, stored, user, isBootstrapping, search, conversations, me,
                         lists, leftover>>
      BY <1>9 DEF Click, effects
    <2>2. /\ creates' \subseteq [of : Users, id : Conversations] /\ CreatesOwn'
          /\ leaves' \subseteq Conversations
      <3>1. ASSUME NEW id \in MemberOf[user], creates' = creates \cup {[of |-> user, id |-> id]},
                   UNCHANGED leaves
            PROVE  creates' \subseteq [of : Users, id : Conversations] /\ CreatesOwn'
        <4> DEFINE new == [of |-> user, id |-> id]
        <4>1. new \in [of : Users, id : Conversations] /\ new.of = user /\ new.id = id
          BY <1>0, <2>1
        <4>2. creates' = creates \cup {new}
          BY <3>1
        <4> HIDE DEF new
        <4> QED
          BY <1>0, <1>b, <4>1, <4>2 DEF CreatesOwn
      <3> QED
        BY <1>0, <1>b, <1>9, <3>1 DEF Click, CreatesOwn
    <2>4. UserIsTokens'
      BY <1>b, <2>1 DEF UserIsTokens
    <2>5. OwnOrLeft'
      BY <1>b, <2>1 DEF OwnOrLeft
    <2>6. AskedNow'
      BY <1>a, <2>1 DEF AskedNow, Current
    <2> QED
      BY <1>0, <2>1, <2>2, <2>4, <2>5, <2>6, SessionParts
  <1>10. CASE NoNews
    <2>1. /\ UNCHANGED <<token, stored, user, isBootstrapping, search, conversations, leftover>>
          /\ me' \subseteq me /\ \A r \in me \ me' : ~r.isCurrent
          /\ lists' \subseteq lists /\ creates' \subseteq creates /\ leaves' \subseteq leaves
      BY <1>10 DEF NoNews, Heeded, clicks, effects
    <2>4. UserIsTokens'
      BY <1>b, <2>1 DEF UserIsTokens
    <2>5. OwnOrLeft' /\ CreatesOwn'
      BY <1>b, <2>1 DEF OwnOrLeft, CreatesOwn
    <2>6. AskedNow'
      BY <1>a, <2>1 DEF AskedNow, Current
    <2> QED
      BY <1>0, <2>1, <2>4, <2>5, <2>6, SessionParts
  <1>11. CASE OtherTab
    <2>1. /\ stored' \in Users \cup {NoUser}
          /\ UNCHANGED <<token, user, isBootstrapping, search, conversations, me, lists,
                         creates, leaves, leftover>>
      BY <1>11 DEF OtherTab, effects, clicks
    <2>4. UserIsTokens' /\ OwnOrLeft' /\ CreatesOwn'
      BY <1>b, <2>1 DEF UserIsTokens, OwnOrLeft, CreatesOwn
    <2>6. AskedNow'
      BY <1>a, <2>1 DEF AskedNow, Current
    <2> QED
      BY <1>0, <2>1, <2>4, <2>6, SessionParts
  <1>12. CASE Reload
    <2>1. /\ token' = stored /\ stored' = stored /\ user' = NoUser
          /\ isBootstrapping' = (stored # NoUser)
          /\ search' = FALSE /\ conversations' = {} /\ leftover' = {}
          /\ me' = IF stored = NoUser THEN {} ELSE {[of |-> stored, isCurrent |-> TRUE]}
          /\ lists' = {} /\ creates' = {} /\ leaves' = {}
      BY <1>12 DEF Reload
    <2>2. /\ me' \subseteq MeRequests
          /\ \A r \in me' : r.of = token'
          /\ \A r, s \in me' : r = s
          /\ token' # NoUser => \E r \in me' : r.isCurrent /\ r.of = token'
      <3>1. \A S : S = (IF stored = NoUser THEN {} ELSE {[of |-> stored, isCurrent |-> TRUE]}) =>
              /\ S \subseteq MeRequests
              /\ \A r \in S : r.of = stored
              /\ \A r, s \in S : r = s
              /\ stored # NoUser => \E r \in S : r.isCurrent /\ r.of = stored
        BY <1>0, StartAsks
      <3> QED
        BY <2>1, <3>1
    <2>4. UserIsTokens'
      BY <2>1, <2>2 DEF UserIsTokens
    <2>5. OwnOrLeft' /\ CreatesOwn' /\ AskedNow'
      BY <2>1, <2>2 DEF OwnOrLeft, CreatesOwn, AskedNow, Current
    <2> QED
      BY <1>0, <2>1, <2>2, <2>4, <2>5, SessionParts
  <1>13. CASE UNCHANGED vars
    <2>1. UNCHANGED <<token, stored, user, isBootstrapping, search, conversations, me, lists,
                      creates, leaves, leftover>>
      BY <1>13 DEF vars, effects, clicks
    <2>4. UserIsTokens' /\ OwnOrLeft' /\ CreatesOwn'
      BY <1>b, <2>1 DEF UserIsTokens, OwnOrLeft, CreatesOwn
    <2>6. AskedNow'
      BY <1>a, <2>1 DEF AskedNow, Current
    <2> QED
      BY <1>0, <2>1, <2>4, <2>6, SessionParts
  <1> QED
    BY <1>1, <1>2, <1>3, <1>4, <1>5, <1>6, <1>7, <1>8, <1>9, <1>10, <1>11, <1>12, <1>13
    DEF Next, Changes, Stays

-----------------------------------------------------------------------------
(* Next the sockets.                                                       *)

States == {None} \cup [state : {"open", "closing"}, of : Users]

SocketsInv == /\ SInv /\ SocketsOK /\ MappedIsOwn /\ StrayOnlyIfOrphaned /\ SilentOnlyIfLost

LEMMA StatesAre ==
  /\ None \in States /\ None.state = "none"
  /\ \A s \in States : s # None => s.state \in {"open", "closing"} /\ s.of \in Users
  /\ \A s \in States : s # None =>
       Closed(s) \in States /\ Closed(s) # None /\ Closed(s).state = "closing"
  /\ \A u \in Users : LET s == [state |-> "open", of |-> u]
                      IN s \in States /\ s # None /\ s.state = "open" /\ s.of = u
  <1>1. None \in States /\ None.state = "none"
    BY DEF None, States
  <1>2. ASSUME NEW s \in States, s # None
        PROVE  /\ s.state \in {"open", "closing"} /\ s.of \in Users
               /\ Closed(s) \in States /\ Closed(s) # None /\ Closed(s).state = "closing"
    <2>1. s \in [state : {"open", "closing"}, of : Users]
      BY <1>2 DEF States
    <2>2. PICK c : c = [s EXCEPT !.state = "closing"]
      OBVIOUS
    <2>3. c = [state |-> "closing", of |-> s.of]
      BY <2>1, <2>2
    <2>4. c.state = "closing" /\ c \in States
      BY <2>1, <2>3 DEF States
    <2>5. c # None
      BY <1>1, <2>4
    <2>6. Closed(s) = c
      BY <2>2 DEF Closed
    <2> QED
      BY <2>1, <2>4, <2>5, <2>6
  <1>3. ASSUME NEW u \in Users, NEW s, s = [state |-> "open", of |-> u]
        PROVE  s \in States /\ s # None /\ s.state = "open" /\ s.of = u
    <2>1. s.state = "open" /\ s.of = u /\ s \in States
      BY <1>3 DEF States
    <2> QED
      BY <1>1, <2>1
  <1> QED
    BY <1>1, <1>2, <1>3

(* What the effect does to one conversation: it closes the socket of one   *)
(* that is not listed, opens one of one that is, or leaves it as it is.    *)
LEMMA EffectCases ==
  ASSUME Effect, NEW id \in Conversations
  PROVE  \/ /\ id \notin Listed /\ mapped[id] # 0
            /\ mapped'[id] = 0
            /\ \A k \in 1..K : socket'[id][k] =
                 IF k = mapped[id] THEN Closed(socket[id][k]) ELSE socket[id][k]
         \/ /\ id \in Listed /\ mapped[id] = 0
            /\ mapped'[id] \in Free(id)
            /\ \A k \in 1..K : socket'[id][k] =
                 IF k = mapped'[id] THEN [state |-> "open", of |-> token'] ELSE socket[id][k]
         \/ /\ id \in Listed <=> mapped[id] # 0
            /\ mapped'[id] = mapped[id]
            /\ \A k \in 1..K : socket'[id][k] = socket[id][k]
  <1> DEFINE unlisted == { i \in Conversations \ Listed : mapped[i] # 0 }
             opened   == { i \in Listed : NeedsSocket(i) }
             new(i)   == CHOOSE k \in Free(i) : TRUE
  <1>1. /\ \A i \in opened : Free(i) # {}
        /\ socket' = [i \in Conversations |-> [k \in 1..K |->
             IF i \in unlisted /\ k = mapped[i] THEN Closed(socket[i][k])
             ELSE IF i \in opened /\ k = new(i) THEN [state |-> "open", of |-> token']
             ELSE socket[i][k]]]
        /\ mapped' = [i \in Conversations |-> IF i \in unlisted THEN 0
                                              ELSE IF i \in opened THEN new(i)
                                              ELSE mapped[i]]
    BY DEF Effect
  <1>2. id \in opened => new(id) \in Free(id)
    <2>1. id \in opened => \E k : k \in Free(id)
      BY <1>1
    <2> QED
      BY <2>1
  <1>3. id \in unlisted <=> id \notin Listed /\ mapped[id] # 0
    OBVIOUS
  <1>4. id \in opened <=> id \in Listed /\ mapped[id] = 0
    BY DEF NeedsSocket
  <1>5. PICK n : n = new(id)
    OBVIOUS
  <1>6. /\ mapped'[id] = IF id \in unlisted THEN 0 ELSE IF id \in opened THEN n ELSE mapped[id]
        /\ \A k \in 1..K : socket'[id][k] =
             IF id \in unlisted /\ k = mapped[id] THEN Closed(socket[id][k])
             ELSE IF id \in opened /\ k = n THEN [state |-> "open", of |-> token']
             ELSE socket[id][k]
    BY <1>1, <1>5
  <1> HIDE DEF unlisted, opened, new
  <1> QED
    BY <1>2, <1>3, <1>4, <1>5, <1>6

(* The list is replaced only by lists of the user there is, or of the one  *)
(* who signs in or becomes known when there is none.                       *)
LEMMA UserStays == SInv /\ Changes => user' \in {user, NoUser} \/ user = NoUser
  <1> SUFFICES ASSUME SInv, Changes PROVE user' \in {user, NoUser} \/ user = NoUser
    OBVIOUS
  <1>1. user \in {token, NoUser} /\ \A r \in me : r.isCurrent => r.of = token
    BY DEF SInv, UserIsTokens, AskedNow, Current
  <1>2. ASSUME NEW u \in Users, SignIn(u) PROVE user = NoUser
    BY <1>1, <1>2 DEF SignIn
  <1>3. ASSUME NEW r \in me, MeAnswers(r) PROVE user' = token
    BY <1>1, <1>3 DEF MeAnswers, Heeded
  <1> QED
    BY <1>1, <1>2, <1>3
    DEF Changes, MeFails, NobodyKnown, Logout, ListAnswers, CreateAnswers, LeaveAnswers

(* What is known of the sockets, by conversation and number.               *)
LEMMA SocketFacts ==
  ASSUME SocketsInv
  PROVE  /\ socket \in [Conversations -> [1..K -> States]]
         /\ mapped \in [Conversations -> 0..K]
         /\ lost \subseteq Conversations /\ orphaned \subseteq Conversations \X (1..K)
         /\ \A o \in orphaned : socket[o[1]][o[2]] # None
         /\ \A id \in Conversations, k \in 1..K : socket[id][k] \in States
         /\ \A id \in Conversations : mapped[id] # 0 =>
              /\ mapped[id] \in 1..K /\ socket[id][mapped[id]].state = "open"
              /\ socket[id][mapped[id]].of = user /\ id \in conversations
         /\ \A id \in Conversations, k \in 1..K :
              socket[id][k].state = "open" /\ mapped[id] # k => <<id, k>> \in orphaned
         /\ user # NoUser => \A id \in conversations : mapped[id] = 0 => id \in lost
  BY KAssumption
  DEF SocketsInv, SocketsOK, States, MappedIsOwn, StrayOnlyIfOrphaned, SilentOnlyIfLost, Open

(* The same, one conversation at a time.                                   *)
Kept(id) ==
  /\ \A k \in 1..K : socket[id][k] \in States
  /\ mapped[id] \in 0..K
  /\ mapped[id] # 0 => /\ socket[id][mapped[id]].state = "open"
                       /\ socket[id][mapped[id]].of = user /\ id \in conversations
  /\ \A k \in 1..K :
       socket[id][k].state = "open" /\ mapped[id] # k => <<id, k>> \in orphaned
  /\ \A k \in 1..K : <<id, k>> \in orphaned => socket[id][k] # None
  /\ user # NoUser /\ id \in conversations /\ mapped[id] = 0 => id \in lost

(* A step gives functions over the conversations     .                     *)
Shaped == /\ \E f : socket = [id \in Conversations |-> [k \in 1..K |-> f[<<id, k>>]]]
          /\ \E g : mapped = [id \in Conversations |-> g[id]]
          /\ lost \subseteq Conversations /\ orphaned \subseteq Conversations \X (1..K)

LEMMA AllKept ==
  ASSUME SInv', Shaped', \A id \in Conversations : Kept(id)'
  PROVE  SocketsInv'
  <1> USE KAssumption
  <1>1. /\ lost' \subseteq Conversations /\ orphaned' \subseteq Conversations \X (1..K)
        /\ TypeOK'
    BY DEF Shaped, SInv
  <1>2. socket' \in [Conversations -> [1..K -> States]]
    <2>1. PICK f : socket' = [id \in Conversations |-> [k \in 1..K |-> f[<<id, k>>]]]
      BY DEF Shaped
    <2>2. \A id \in Conversations, k \in 1..K : socket'[id][k] = f[<<id, k>>]
      BY <2>1
    <2>3. \A id \in Conversations, k \in 1..K : f[<<id, k>>] \in States
      BY <2>2 DEF Kept
    <2> QED
      BY <2>1, <2>3
  <1>3. mapped' \in [Conversations -> 0..K]
    BY DEF Shaped, Kept
  <1>4. \A o \in orphaned' : socket'[o[1]][o[2]] # None
    BY <1>1 DEF Kept
  <1>5. SocketsOK'
    BY <1>1, <1>2, <1>3, <1>4 DEF SocketsOK, States
  <1>6. MappedIsOwn' /\ StrayOnlyIfOrphaned' /\ SilentOnlyIfLost'
    BY <1>1 DEF Kept, MappedIsOwn, StrayOnlyIfOrphaned, SilentOnlyIfLost, Open, TypeOK
  <1> QED
    BY <1>5, <1>6 DEF SocketsInv

LEMMA KeptOne ==
  ASSUME SocketsInv, NEW id \in Conversations
  PROVE  Kept(id)
  BY SocketFacts DEF Kept

(* The effect sets right what the step it follows has changed.             *)
LEMMA EffectKeeps ==
  ASSUME SocketsInv, SInv', Effect, user' \in {user, NoUser} \/ user = NoUser
  PROVE  SocketsInv'
  <1> USE KAssumption, MemberOfAssumption
  <1>1. /\ user' \in {token', NoUser} /\ {token', user'} \subseteq Users \cup {NoUser}
        /\ conversations' \subseteq Conversations
    BY DEF SInv, UserIsTokens, TypeOK
  <1>2. lost' = {} /\ orphaned' = orphaned
    BY DEF Effect
  <1>3. Shaped'
    <2>1. /\ \E f : socket' = [id \in Conversations |-> [k \in 1..K |-> f[<<id, k>>]]]
          /\ \E g : mapped' = [id \in Conversations |-> g[id]]
      <3>1. /\ socket' = [id \in Conversations |-> [k \in 1..K |-> socket'[id][k]]]
            /\ mapped' = [id \in Conversations |-> mapped'[id]]
        BY DEF Effect
      <3> DEFINE f == [p \in Conversations \X (1..K) |-> socket'[p[1]][p[2]]]
      <3>2. \A id \in Conversations, k \in 1..K : f[<<id, k>>] = socket'[id][k]
        OBVIOUS
      <3> HIDE DEF f
      <3>3. socket' = [id \in Conversations |-> [k \in 1..K |-> f[<<id, k>>]]]
        BY <3>1, <3>2
      <3> QED
        BY <3>1, <3>3
    <2> QED
      BY <1>2, <2>1, SocketFacts DEF Shaped
  <1>4. ASSUME NEW id \in Conversations PROVE Kept(id)'
    <2>0. Kept(id)
      BY KeptOne
    <2>a. \A k \in 1..K : socket[id][k] \in States
      BY <2>0 DEF Kept
    <2>1. CASE /\ id \notin Listed /\ mapped[id] # 0
               /\ mapped'[id] = 0
               /\ \A k \in 1..K : socket'[id][k] =
                    IF k = mapped[id] THEN Closed(socket[id][k]) ELSE socket[id][k]
      <3>1. user' # NoUser => id \notin conversations'
        BY <1>1, <2>1 DEF Listed
      <3>2. mapped[id] \in 1..K /\ socket[id][mapped[id]] # None
        BY <2>0, <2>1, StatesAre DEF Kept
      <3>3. /\ Closed(socket[id][mapped[id]]) \in States
            /\ Closed(socket[id][mapped[id]]) # None
            /\ Closed(socket[id][mapped[id]]).state = "closing"
        BY <2>a, <3>2, StatesAre
      <3> QED
        BY <1>2, <2>0, <2>1, <3>1, <3>2, <3>3 DEF Kept
    <2>2. CASE /\ id \in Listed /\ mapped[id] = 0
               /\ mapped'[id] \in Free(id)
               /\ \A k \in 1..K : socket'[id][k] =
                    IF k = mapped'[id] THEN [state |-> "open", of |-> token'] ELSE socket[id][k]
      <3>1. user' = token' /\ token' \in Users /\ id \in conversations'
        BY <1>1, <2>2 DEF Listed
      <3>2. PICK s : s = [state |-> "open", of |-> token']
        OBVIOUS
      <3>3. s \in States /\ s # None /\ s.state = "open" /\ s.of = token'
        BY <3>1, <3>2, StatesAre
      <3>4. mapped'[id] \in 1..K /\ \A k \in 1..K : socket'[id][k] =
               IF k = mapped'[id] THEN s ELSE socket[id][k]
        BY <2>2, <3>2 DEF Free
      <3> QED
        BY <1>2, <2>0, <2>2, <3>1, <3>3, <3>4 DEF Kept
    <2>3. CASE /\ id \in Listed <=> mapped[id] # 0
               /\ mapped'[id] = mapped[id]
               /\ \A k \in 1..K : socket'[id][k] = socket[id][k]
      <3>1. CASE mapped[id] # 0
        <4>1. user' = token' /\ token' \in Users /\ id \in conversations'
          BY <1>1, <2>3, <3>1 DEF Listed
        <4>2. mapped[id] \in 1..K /\ socket[id][mapped[id]] # None
          BY <2>0, <3>1, StatesAre DEF Kept
        <4>3. user \in Users
          BY <2>0, <2>a, <3>1, <4>2, StatesAre DEF Kept
        <4>4. user' = user
          BY <4>1, <4>3
        <4> QED
          BY <1>2, <2>0, <2>3, <3>1, <4>1, <4>2, <4>4 DEF Kept
      <3>2. CASE mapped[id] = 0
        <4>1. user' # NoUser => id \notin conversations'
          BY <1>1, <2>3, <3>2 DEF Listed
        <4> QED
          BY <1>2, <2>0, <2>3, <3>2, <4>1 DEF Kept
      <3> QED
        BY <3>1, <3>2
    <2> QED
      BY <2>1, <2>2, <2>3, EffectCases
  <1> QED
    BY <1>3, <1>4, AllKept

(* Steps of the session that leave the list, the user and the sockets.     *)
LEMMA StaysKeeps ==
  ASSUME SocketsInv, SInv', UNCHANGED <<user, conversations, sockets>>
  PROVE  SocketsInv'
  <1>1. TypeOK'
    BY DEF SInv
  <1>2. UNCHANGED <<user, conversations, socket, mapped, orphaned, lost>>
    BY DEF sockets
  <1>3. SocketsOK'
    BY <1>1, <1>2 DEF SocketsInv, SocketsOK
  <1>4. MappedIsOwn' /\ StrayOnlyIfOrphaned' /\ SilentOnlyIfLost'
    BY <1>2 DEF SocketsInv, MappedIsOwn, StrayOnlyIfOrphaned, SilentOnlyIfLost, Open
  <1> QED
    BY <1>3, <1>4 DEF SocketsInv

(* A close event marks what it takes away.                                 *)
LEMMA CloseKeeps ==
  ASSUME SocketsInv, SInv', NEW i \in Conversations, NEW n \in 1..K, SocketCloses(i, n)
  PROVE  SocketsInv'
  <1> USE KAssumption
  <1>1. /\ socket' = [socket EXCEPT ![i][n] = None]
        /\ mapped' = [mapped EXCEPT ![i] = 0]
        /\ orphaned' = (orphaned \cup IF mapped[i] = 0 THEN {} ELSE {<<i, mapped[i]>>})
                         \ {<<i, n>>}
        /\ lost' = lost \cup IF mapped[i] = 0 THEN {} ELSE {i}
        /\ UNCHANGED <<user, conversations>>
    BY DEF SocketCloses, vars
  <1>2. /\ socket \in [Conversations -> [1..K -> States]] /\ mapped \in [Conversations -> 0..K]
        /\ lost \subseteq Conversations /\ orphaned \subseteq Conversations \X (1..K)
    BY SocketFacts
  <1>3. /\ \A id \in Conversations, k \in 1..K :
             socket'[id][k] = IF id = i /\ k = n THEN None ELSE socket[id][k]
        /\ \A id \in Conversations : mapped'[id] = IF id = i THEN 0 ELSE mapped[id]
    BY <1>1, <1>2
  <1>4. socket' \in [Conversations -> [1..K -> States]] /\ mapped' \in [Conversations -> 0..K]
    BY <1>1, <1>2, StatesAre
  <1>5. lost' \subseteq Conversations /\ orphaned' \subseteq Conversations \X (1..K)
    BY <1>1, <1>2
  <1>6. ASSUME NEW id \in Conversations PROVE Kept(id)'
    <2>1. Kept(id)
      BY KeptOne
    <2>2. CASE id # i
      <3>1. /\ \A k \in 1..K : socket'[id][k] = socket[id][k]
            /\ mapped'[id] = mapped[id]
            /\ \A k \in 1..K : <<id, k>> \in orphaned' <=> <<id, k>> \in orphaned
            /\ id \in lost => id \in lost'
        BY <1>1, <1>3, <2>2
      <3>2. UNCHANGED <<user, conversations>>
        BY <1>1
      <3>3. mapped[id] # 0 => mapped[id] \in 1..K
        BY <2>1 DEF Kept
      <3> QED
        BY <2>1, <3>1, <3>2, <3>3 DEF Kept
    <2>3. CASE id = i
      <3>1. mapped'[id] = 0 /\ id \in conversations /\ user # NoUser => id \in lost'
        BY <1>1, <2>1, <2>3 DEF Kept
      <3>2. ASSUME NEW k \in 1..K
            PROVE  /\ socket'[id][k].state = "open" => <<id, k>> \in orphaned'
                   /\ <<id, k>> \in orphaned' => socket'[id][k] # None
        <4>1. CASE k = n
          <5>1. socket'[id][k].state = "none" /\ <<id, k>> \notin orphaned'
            BY <1>1, <1>3, <2>3, <4>1, StatesAre
          <5> QED
            BY <5>1
        <4>2. CASE k # n
          <5>1. socket'[id][k] = socket[id][k]
            BY <1>3, <4>2
          <5>2. <<id, k>> \in orphaned' <=>
                  <<id, k>> \in orphaned \/ (mapped[id] # 0 /\ k = mapped[id])
            BY <1>1, <2>3, <4>2
          <5>3. mapped[id] # 0 => socket[id][mapped[id]] # None
            <6>1. mapped[id] # 0 => socket[id][mapped[id]].state = "open"
              BY <2>1 DEF Kept
            <6> QED
              BY <6>1, StatesAre
          <5> QED
            BY <2>1, <5>1, <5>2, <5>3 DEF Kept
        <4> QED
          BY <4>1, <4>2
      <3>3. \A k \in 1..K : socket'[id][k] \in States
        BY <1>4
      <3>4. mapped'[id] = 0 /\ UNCHANGED <<user, conversations>>
        BY <1>1, <1>3, <2>3
      <3> QED
        BY <3>1, <3>2, <3>3, <3>4 DEF Kept
    <2> QED
      BY <2>2, <2>3
  <1>7. SocketsOK'
    <2>1. \A o \in orphaned' : socket'[o[1]][o[2]] # None
      BY <1>5, <1>6 DEF Kept
    <2> QED
      BY <1>4, <1>5, <2>1 DEF SocketsOK, States, SInv
  <1>8. MappedIsOwn' /\ StrayOnlyIfOrphaned' /\ SilentOnlyIfLost'
    <2>1. conversations' \subseteq Conversations
      BY DEF SInv, TypeOK
    <2> QED
      BY <1>6, <2>1 DEF Kept, MappedIsOwn, StrayOnlyIfOrphaned, SilentOnlyIfLost, Open
  <1> QED
    BY <1>7, <1>8 DEF SocketsInv

(* A page that has just been loaded has no sockets and no list.            *)
Fresh == /\ SInv /\ conversations = {}
         /\ socket = [id \in Conversations |-> [k \in 1..K |-> None]]
         /\ mapped = [id \in Conversations |-> 0] /\ orphaned = {} /\ lost = {}

LEMMA NoneYet == Fresh => SocketsInv
  <1> USE KAssumption
  <1> SUFFICES ASSUME Fresh PROVE SocketsInv
    OBVIOUS
  <1>1. SocketsOK
    BY DEF SocketsOK, Fresh, SInv
  <1>2. \A id \in Conversations, k \in 1..K : socket[id][k].state = "none"
    BY StatesAre DEF Fresh
  <1> QED
    BY <1>1, <1>2
    DEF Fresh, SocketsInv, MappedIsOwn, StrayOnlyIfOrphaned, SilentOnlyIfLost, Open

(* Every step of the composition is one of the session, or none of its.    *)
LEMMA SocketsStep == SocketsInv /\ [SocketsNext]_allVars => SocketsInv'
  <1> SUFFICES ASSUME SocketsInv, [SocketsNext]_allVars PROVE SocketsInv'
    OBVIOUS
  <1>1. SInv
    BY DEF SocketsInv
  <1>2. [Next]_vars
    BY DEF SocketsNext, allVars, Next, Refreshed, SocketCloses, Reloaded
  <1>3. SInv'
    BY <1>1, <1>2, SessionStep
  <1>4. CASE Changes /\ Effect
    BY <1>1, <1>3, <1>4, UserStays, EffectKeeps
  <1>5. CASE Stays /\ UNCHANGED sockets
    <2>1. UNCHANGED <<user, conversations>>
      BY <1>5 DEF Stays, Search, Click, NoNews, OtherTab
    <2> QED
      BY <1>3, <1>5, <2>1, StaysKeeps
  <1>6. CASE Refreshed
    <2>1. Effect /\ user' = user
      BY <1>6 DEF Refreshed, vars
    <2> QED
      BY <1>3, <2>1, EffectKeeps
  <1>7. ASSUME NEW id \in Conversations, NEW k \in 1..K, SocketCloses(id, k)
        PROVE  SocketsInv'
    BY <1>3, <1>7, CloseKeeps
  <1>8. CASE Reloaded
    <2>1. Fresh'
      BY <1>3, <1>8 DEF Reloaded, Reload, Fresh, None
    <2>2. Fresh' => SocketsInv'
      BY NoneYet, PTL
    <2> QED
      BY <2>1, <2>2
  <1>9. CASE UNCHANGED allVars
    <2>1. UNCHANGED <<user, conversations, sockets>>
      BY <1>9 DEF allVars, vars
    <2> QED
      BY <1>3, <2>1, StaysKeeps
  <1> QED
    BY <1>4, <1>5, <1>6, <1>7, <1>8, <1>9 DEF SocketsNext

LEMMA Invariance == SocketsSpec => []SocketsInv
  <1>1. SocketsInit => SocketsInv
    <2> SUFFICES ASSUME SocketsInit PROVE SocketsInv
      OBVIOUS
    <2>1. SInv
      BY SessionInit DEF SocketsInit
    <2> QED
      BY <2>1, NoneYet DEF Fresh, SocketsInit, Init
  <1>2. SocketsInv /\ [SocketsNext]_allVars => SocketsInv'
    BY SocketsStep
  <1> QED
    BY <1>1, <1>2, PTL DEF SocketsSpec

(* SocketsOK in every state: the session and its sockets are well formed,  *)
(* and of what an effect asks at most one answer counts                    *)
(* (App.tsx:219-285, 772-836).                                             *)
THEOREM SocketsWellFormed == SocketsSpec => []SocketsOK
  <1>1. SocketsInv => SocketsOK
    BY DEF SocketsInv
  <1> QED
    BY <1>1, Invariance, PTL

(* A tab shows the user whose token it sends, or nobody, and waits only    *)
(* while the request that ends the wait is under way (App.tsx:234-258).    *)
THEOREM TokenAndUserAgree == SocketsSpec => []UserIsTokens
  <1>1. SocketsInv => UserIsTokens
    BY DEF SocketsInv, SInv
  <1> QED
    BY <1>1, Invariance, PTL

(* The list shows its user's conversations, but for what a failed me or a  *)
(* late answer to a creation left over (App.tsx:242-248, 276-285, 1238).   *)
THEOREM ListIsOfItsUser == SocketsSpec => []ShowsOwn
  <1>1. SocketsInv => ShowsOwn
    BY DEF SocketsInv, SInv, OwnOrLeft, ShowsOwn
  <1> QED
    BY <1>1, Invariance, PTL

(* The map holds open sockets of the one who is signed in, of listed       *)
(* conversations (App.tsx:773-795).                                        *)
THEOREM MapIsOfTheUser == SocketsSpec => []MappedIsOwn
  <1>1. SocketsInv => MappedIsOwn
    BY DEF SocketsInv
  <1> QED
    BY <1>1, Invariance, PTL

(* Only a socket whose entry a late close event took stays open outside    *)
(* the map (App.tsx:819-820).                                              *)
THEOREM StraysWereOrphaned == SocketsSpec => []StrayOnlyIfOrphaned
  <1>1. SocketsInv => StrayOnlyIfOrphaned
    BY DEF SocketsInv
  <1> QED
    BY <1>1, Invariance, PTL

(* A listed conversation is without a socket only since its socket closed  *)
(* after the last run of the effect (App.tsx:789-795).                     *)
THEOREM SilenceIsLoss == SocketsSpec => []SilentOnlyIfLost
  <1>1. SocketsInv => SilentOnlyIfLost
    BY DEF SocketsInv
  <1> QED
    BY <1>1, Invariance, PTL

-----------------------------------------------------------------------------
(* The message pane.  An array first.                                      *)
(* The filter of an array keeps what is not in M, and nothing twice that   *)
(* was there once: the k-th of the indices left is the one with k of them  *)
(* up to it, and there is one for every k.                                 *)
LEMMA WithoutKeeps ==
  ASSUME NEW S, NEW s \in Seq(S), NEW M
  PROVE  /\ Without(s, M) \in Seq(S)
         /\ Range(Without(s, M)) = Range(s) \ M
         /\ IsInjective(s) => IsInjective(Without(s, M))
<1> DEFINE left    == {i \in DOMAIN s : s[i] \notin M}
           upTo(i) == {j \in left : j <= i}
           n       == Cardinality(left)
           nth(k)  == CHOOSE i \in left : Cardinality(upTo(i)) = k
           rank    == [i \in left |-> Cardinality(upTo(i))]
<1>1. DOMAIN s = 1..Len(s) /\ Len(s) \in Nat /\ \A i \in DOMAIN s : s[i] \in S
  OBVIOUS
<1>2. IsFiniteSet(left) /\ n \in Nat
  <2>1. IsFiniteSet(1..Len(s))
    BY <1>1, FS_Interval
  <2>2. left \in SUBSET (1..Len(s))
    BY <1>1
  <2> QED BY <2>1, <2>2, FS_Subset, FS_CardinalityType
<1>3. ASSUME NEW i \in left
      PROVE  IsFiniteSet(upTo(i)) /\ Cardinality(upTo(i)) \in 1..n
  <2>1. upTo(i) \in SUBSET left /\ i \in upTo(i)
    BY <1>1
  <2>2. IsFiniteSet(upTo(i)) /\ Cardinality(upTo(i)) <= n /\ Cardinality(upTo(i)) \in Nat
    BY <1>2, <2>1, FS_Subset, FS_CardinalityType
  <2>3. Cardinality(upTo(i)) # 0
    BY <2>1, <2>2, FS_EmptySet
  <2> QED BY <1>2, <2>2, <2>3
<1>4. ASSUME NEW i \in left, NEW j \in left, i < j
      PROVE  Cardinality(upTo(i)) # Cardinality(upTo(j))
  <2>1. upTo(i) \in SUBSET upTo(j) /\ j \in upTo(j) /\ j \notin upTo(i)
    BY <1>1, <1>4
  <2> QED BY <1>3, <2>1, FS_Subset
<1>5. ASSUME NEW i \in left, NEW j \in left, Cardinality(upTo(i)) = Cardinality(upTo(j))
      PROVE  i = j
  <2>1. i < j \/ j < i \/ i = j
    BY <1>1
  <2> QED BY <1>4, <1>5, <2>1
<1>6. rank \in Injection(left, 1..n)
  <2>1. rank \in [left -> 1..n]
    BY <1>3
  <2>2. IsInjective(rank)
    BY <1>5 DEF IsInjective
  <2> QED BY <2>1, <2>2 DEF Injection
<1>7. IsFiniteSet(1..n) /\ Cardinality(1..n) = n
  BY <1>2, FS_Interval
<1>8. rank \in Surjection(left, 1..n)
  BY <1>6, <1>7, FS_Injection
<1>9. ASSUME NEW k \in 1..n
      PROVE  nth(k) \in left /\ Cardinality(upTo(nth(k))) = k
  <2>1. \E i \in left : Cardinality(upTo(i)) = k
    BY <1>8 DEF Surjection
  <2> QED BY <2>1
<1>10. ASSUME NEW i \in left
       PROVE  \E k \in 1..n : nth(k) = i
  <2>1. Cardinality(upTo(i)) \in 1..n
    BY <1>3
  <2>2. nth(Cardinality(upTo(i))) = i
    BY <1>5, <1>9, <2>1
  <2> QED BY <2>1, <2>2
<1> DEFINE t == [k \in 1..n |-> s[nth(k)]]
<1>11. Without(s, M) = t
  BY DEF Without
<1> HIDE DEF nth, n
<1>12. t \in [1..n -> S] /\ \A k \in 1..n : t[k] = s[nth(k)] /\ s[nth(k)] \notin M
  BY <1>1, <1>9
<1>13. t \in Seq(S)
  BY <1>2, <1>12, SeqDef
<1>14. Range(t) = Range(s) \ M
  <2> HIDE DEF t
  <2>1. DOMAIN t = 1..n
    BY <1>12
  <2>2. ASSUME NEW x \in Range(t) PROVE x \in Range(s) \ M
    BY <1>9, <1>12, <2>1 DEF Range
  <2>3. ASSUME NEW x \in Range(s) \ M PROVE x \in Range(t)
    <3>1. PICK i \in left : s[i] = x
      BY DEF Range
    <3>2. PICK k \in 1..n : nth(k) = i
      BY <1>10
    <3> QED BY <1>12, <2>1, <3>1, <3>2 DEF Range
  <2> QED BY <2>2, <2>3
<1>15. IsInjective(s) => IsInjective(t)
  <2> SUFFICES ASSUME IsInjective(s), NEW k \in 1..n, NEW l \in 1..n, t[k] = t[l]
               PROVE  k = l
    BY <1>12 DEF IsInjective
  <2>1. nth(k) = nth(l)
    BY <1>9, <1>12 DEF IsInjective
  <2> QED BY <1>9, <2>1
<1> QED BY <1>11, <1>13, <1>14, <1>15

-----------------------------------------------------------------------------
USE DEF aux

(* The types of the pane's part, of its requests with all their fields.    *)
Types ==
  /\ PaneOK
  /\ first \in [at : {"none", "asked", "answered", "shown"}, page : Seq(Messages)]
  /\ older \in [at : {"none", "asked", "answered"}, conv : Convs \cup {"none"},
                cursor : Nat, page : Seq(Messages), stale : BOOLEAN]
  /\ sent \in [at : {"none", "asked", "answered"}, conv : Convs \cup {"none"},
               msg : Nat]
  /\ sent.at # "none" => sent.conv \in Convs

(* An event under way to the socket of c, behind the i-th.                 *)
Behind(c, i, k, m) ==
  \E j \in DOMAIN chan[c] : i < j /\ chan[c][j] = [kind |-> k, msg |-> m]

UnderWay(c, k, m) == \E j \in DOMAIN chan[c] : chan[c][j] = [kind |-> k, msg |-> m]

(* Events are in order: what is said to be deleted is, whatever has been   *)
(* created and is gone is still to be reported gone, and a creation is     *)
(* followed by all later ones.                                             *)
Ordered(c, i, e) ==
  /\ log[e.msg].conv = c
  /\ e.kind = "deleted" => e.msg \notin rows
  /\ e.kind = "created" =>
       /\ e.msg \notin rows => Behind(c, i, "deleted", e.msg)
       /\ \A n \in Messages :
            n > e.msg /\ log[n].conv = c => Behind(c, i, "created", n)

InOrder(c) == \A i \in DOMAIN chan[c] : Ordered(c, i, chan[c][i])

(* The server's rows in order of time, and its channels in order.          *)
Server == /\ \A m, n \in Messages : m <= n => log[m].created <= log[n].created
          /\ \A c \in Convs : InOrder(c)

(* What a pane of c may be expected to show: its event has been heard, and *)
(* it was not there when the pane of the selection was emptied.            *)
Due(c) == {m \in rows \ (excused \cup dropped) : 
             /\ log[m].conv = c /\ Alone(m) /\ ~UnderWay(c, "created", m)}

(* Whoever shows m will hear of its deletion.                              *)
Told(m) == m \in rows \cup excused \/ UnderWay(log[m].conv, "deleted", m)

(* M is what is due of c, down to its oldest.                              *)
DownToOldest(c, M) ==
  \A m \in Due(c), x \in M : log[m].created >= log[x].created => m \in M

(* The first page as answered: told of, and what is due of the selection   *)
(* down to its oldest, all of it if it fills no page.                      *)
FirstPage ==
  /\ IsInjective(first.page)
  /\ \A m \in Range(first.page) : log[m].conv = selected /\ Told(m)
  /\ first.at = "answered" =>
       /\ DownToOldest(selected, Range(first.page))
       /\ Len(first.page) # PageSize => Due(selected) \subseteq Range(first.page)

(* An older page as answered: of what is older than the cursor, as stored, *)
(* none is passed over.                                                    *)
OlderPage ==
  /\ IsInjective(older.page)
  /\ \A m \in Range(older.page) : log[m].conv = older.conv /\ Told(m)
  /\ older.at # "none" => \E x \in Messages : log[x].created = older.cursor
  /\ older.at = "answered" =>
       \A m \in rows : log[m].conv = older.conv /\ log[m].created < older.cursor =>
         /\ Len(older.page) # PageSize => m \in Range(older.page)
         /\ \A x \in Range(older.page) :
              log[m].created > log[x].created => m \in Range(older.page)

(* The answer to a message sent.                                           *)
Answer == sent.at = "answered" =>
            sent.msg \in Messages /\ log[sent.msg].conv = sent.conv /\ Told(sent.msg)

(* A request that will reach the pane of the selection it was made in.     *)
Welcome == older.at # "none" /\ ~older.stale

(* The pane: whatever it shows will be reported gone, it goes down without *)
(* a gap, and what is not older than the cursor of a request that is       *)
(* welcome is there.                                                       *)
Pane ==
  /\ NothingTwice /\ PaneOfSelected
  /\ ~strayed =>
       /\ \A m \in Range(pane) : Told(m)
       /\ hasOlder \/ Welcome => first.at = "shown"
       /\ Welcome => /\ older.conv = selected
                     /\ \A m \in Due(selected) :
                          log[m].created >= older.cursor => m \in Range(pane)
       /\ first.at = "shown" =>
            /\ DownToOldest(selected, Range(pane))
            /\ ~hasOlder => Due(selected) \subseteq Range(pane)

(* The message pane's inductive invariant.                                 *)
PaneInv == Types /\ Server /\ FirstPage /\ OlderPage /\ Answer /\ Pane

-----------------------------------------------------------------------------
(* What a step that sends, deletes or misses messages leaves in force, and *)
(* so does one that touches neither the server nor what is excused:        *)
(* messages stay as they are, new ones are the newest, who has been told   *)
(* stays so, and, but for the choice of a conversation, nothing more is    *)
(* due.                                                                    *)
Grows == /\ Messages \subseteq Messages'
         /\ \A m \in Messages : log'[m] = log[m]
         /\ \A m \in rows' : m \in rows \/ \A x \in Messages : ~(log'[m].created < log[x].created)
         /\ rows' \cap Messages \subseteq rows

Lasting == Grows /\ \A m \in Messages : Told(m) => Told(m)'

Steady == Lasting /\ \A c \in Convs : Due(c)' \subseteq Due(c)

(* The facts about types the proofs rest on.                               *)
LEMMA TypeFacts ==
  ASSUME Types
  PROVE  /\ Len(log) \in Nat /\ Messages = 1..Len(log) /\ rows \subseteq Messages
         /\ \A m \in Messages : log[m].conv \in Convs /\ log[m].created \in Nat \ {0}
         /\ selected \in Convs /\ Range(pane) \subseteq Messages
         /\ Range(first.page) \subseteq Messages /\ Range(older.page) \subseteq Messages
         /\ \A c \in Convs : \A i \in DOMAIN chan[c] :
              chan[c][i].msg \in Messages /\ chan[c][i].kind \in {"created", "deleted"}
<1>0. ASSUME NEW S, NEW s \in Seq(S), NEW i \in DOMAIN s PROVE s[i] \in S
  BY ElementOfSeq, LenProperties
<1>1. log \in Seq([conv : Convs, created : Nat \ {0}])
  BY DEF Types, PaneOK
<1>2. Len(log) \in Nat /\ Messages = 1..Len(log)
      /\ \A m \in Messages : log[m].conv \in Convs /\ log[m].created \in Nat \ {0}
  <2>1. \A m \in DOMAIN log : log[m] \in [conv : Convs, created : Nat \ {0}]
    BY <1>0, <1>1
  <2> QED BY <1>1, <2>1, LenProperties DEF Messages
<1>3. ASSUME NEW S, NEW s \in Seq(S) PROVE Range(s) \subseteq S
  BY <1>3 DEF Range
<1>4. /\ Range(pane) \subseteq Messages
      /\ Range(first.page) \subseteq Messages /\ Range(older.page) \subseteq Messages
  BY <1>3 DEF Types, PaneOK
<1>5. ASSUME NEW c \in Convs, NEW i \in DOMAIN chan[c]
      PROVE  chan[c][i].msg \in Messages /\ chan[c][i].kind \in {"created", "deleted"}
  <2>1. chan[c] \in Seq([kind : {"created", "deleted"}, msg : Messages])
    BY DEF Types, PaneOK
  <2>2. chan[c][i] \in [kind : {"created", "deleted"}, msg : Messages]
    BY <1>0, <2>1
  <2> QED BY <2>2
<1> QED BY <1>2, <1>4, <1>5 DEF Types, PaneOK

(* A page that has been answered stays what it is under such a step.       *)
LEMMA FirstKeeps ==
  ASSUME Types, FirstPage, Steady, UNCHANGED <<first, selected>>
  PROVE  FirstPage'
<1>1. \A m \in Range(first.page) : m \in Messages
  BY TypeFacts
<1>2. selected \in Convs /\ Due(selected)' \subseteq Due(selected)
  BY TypeFacts DEF Steady, Lasting, Due
<1>3. \A m \in Range(first.page) : log'[m] = log[m] /\ (Told(m) => Told(m)')
  BY <1>1 DEF Steady, Lasting, Grows
<1>4. \A m \in Due(selected)' : log'[m] = log[m]
  BY <1>2, TypeFacts DEF Due, Steady, Lasting, Grows
<1> QED BY <1>2, <1>3, <1>4 DEF FirstPage, DownToOldest

(* The same for an older page, which no new message can join.              *)
LEMMA OlderKeeps ==
  ASSUME Types, OlderPage, Lasting, UNCHANGED older
  PROVE  OlderPage'
<1>1. \A m \in Range(older.page) : m \in Messages
  BY TypeFacts
<1>2. \A m \in Range(older.page) : log'[m] = log[m] /\ (Told(m) => Told(m)')
  BY <1>1 DEF Steady, Lasting, Grows
<1>3. ASSUME NEW x \in Messages, log[x].created = older.cursor
      PROVE  \A m \in rows' : log'[m].created < older.cursor => m \in rows /\ log'[m] = log[m]
  <2>1. older.cursor \in Nat
    BY DEF Types
  <2> QED BY <1>3, <2>1, TypeFacts DEF Steady, Lasting, Grows
<1> QED BY <1>2, <1>3 DEF OlderPage, Steady, Lasting, Grows

(* The same for the answer to a message sent.                              *)
LEMMA AnswerKeeps ==
  ASSUME Types, Answer, Lasting, UNCHANGED sent
  PROVE  Answer'
BY DEF Answer, Steady, Lasting, Grows

(* The same for the pane.                                                  *)
LEMMA PaneKeeps ==
  ASSUME Types, Pane, Steady, UNCHANGED <<view, first, older, strayed>>
  PROVE  Pane'
<1>0. UNCHANGED <<selected, pane, hasOlder, loading>>
  BY DEF view
<1>1. \A m \in Range(pane) : m \in Messages
  BY TypeFacts
<1>2. selected \in Convs /\ Due(selected)' \subseteq Due(selected)
  BY TypeFacts, <1>0 DEF Steady, Lasting, Due
<1>3. \A m \in Range(pane) : log'[m] = log[m] /\ (Told(m) => Told(m)')
  BY <1>1 DEF Steady, Lasting, Grows
<1>4. \A m \in Due(selected)' : log'[m] = log[m]
  BY <1>2, TypeFacts DEF Due, Steady, Lasting, Grows
<1> QED BY <1>0, <1>2, <1>3, <1>4 DEF Pane, DownToOldest, NothingTwice, PaneOfSelected, Welcome

-----------------------------------------------------------------------------
(* The channels: an event put at the end of one, and taken from its head.  *)
LEMMA Appended ==
  ASSUME Types, NEW c \in Convs, NEW k, NEW m, Event(c, k, m)
  PROVE  /\ \A d \in Convs : \A l, n : UnderWay(d, l, n) => UnderWay(d, l, n)'
         /\ UnderWay(c, k, m)'
         /\ \A d \in Convs : \A i \in DOMAIN chan'[d] :
              \/ /\ i \in DOMAIN chan[d] /\ chan'[d][i] = chan[d][i]
                 /\ \A l, n : Behind(d, i, l, n) => Behind(d, i, l, n)'
                 /\ d = c => Behind(d, i, k, m)'
              \/ d = c /\ chan'[d][i] = [kind |-> k, msg |-> m]
<1>1. DOMAIN chan = Convs /\ chan[c] \in Seq([kind : {"created", "deleted"}, msg : Messages])
  BY DEF Types, PaneOK
<1>2. /\ \A d \in Convs \ {c} : chan'[d] = chan[d]
      /\ chan'[c] = Append(chan[c], [kind |-> k, msg |-> m])
  BY <1>1 DEF Event
<1> DEFINE n == Len(chan[c])
<1>3. n \in Nat /\ DOMAIN chan[c] = 1..n
  BY <1>1, LenProperties
<1>4. /\ DOMAIN chan'[c] = 1..n + 1
      /\ \A i \in 1..n : chan'[c][i] = chan[c][i]
      /\ chan'[c][n + 1] = [kind |-> k, msg |-> m]
  BY <1>1, <1>2, <1>3
<1> HIDE DEF n
<1>5. UnderWay(c, k, m)'
  BY <1>3, <1>4 DEF UnderWay
<1>6. ASSUME NEW d \in Convs, NEW l, NEW x, UnderWay(d, l, x)
      PROVE  UnderWay(d, l, x)'
  <2>1. CASE d = c
    BY <1>3, <1>4, <1>6, <2>1 DEF UnderWay
  <2>2. CASE d # c
    BY <1>2, <1>6, <2>2 DEF UnderWay
  <2> QED BY <2>1, <2>2
<1>7. ASSUME NEW i \in DOMAIN chan'[c]
      PROVE  \/ /\ i \in DOMAIN chan[c] /\ chan'[c][i] = chan[c][i]
                /\ \A l, x : Behind(c, i, l, x) => Behind(c, i, l, x)'
                /\ Behind(c, i, k, m)'
             \/ chan'[c][i] = [kind |-> k, msg |-> m]
  <2>1. CASE i \in 1..n
    BY <1>3, <1>4, <2>1 DEF Behind
  <2>2. CASE i = n + 1
    BY <1>4, <2>2
  <2> QED BY <1>3, <1>4, <2>1, <2>2
<1>8. ASSUME NEW d \in Convs \ {c}, NEW i \in DOMAIN chan'[d]
      PROVE  /\ i \in DOMAIN chan[d] /\ chan'[d][i] = chan[d][i]
             /\ \A l, x : Behind(d, i, l, x) => Behind(d, i, l, x)'
  BY <1>2 DEF Behind
<1> QED BY <1>5, <1>6, <1>7, <1>8

(* The first event of a channel is taken.                                  *)
Takes(c) == chan[c] # <<>> /\ chan' = [chan EXCEPT ![c] = Tail(@)]

LEMMA Taken ==
  ASSUME Types, NEW c \in Convs, Takes(c)
  PROVE  /\ Head(chan[c]).msg \in Messages /\ Head(chan[c]).kind \in {"created", "deleted"}
         /\ 1 \in DOMAIN chan[c] /\ chan[c][1] = Head(chan[c])
         /\ \A d \in Convs : \A l, n :
              /\ UnderWay(d, l, n)' => UnderWay(d, l, n)
              /\ UnderWay(d, l, n) => \/ UnderWay(d, l, n)'
                                      \/ d = c /\ Head(chan[c]) = [kind |-> l, msg |-> n]
         /\ \A l, n : Behind(c, 1, l, n) => UnderWay(c, l, n)'
         /\ \A d \in Convs : \A i \in DOMAIN chan'[d] :
              \E j \in DOMAIN chan[d] :
                /\ chan'[d][i] = chan[d][j]
                /\ \A l, n : Behind(d, j, l, n) => Behind(d, i, l, n)'
<1> DEFINE e == Head(chan[c])
<1>1. DOMAIN chan = Convs /\ chan[c] \in Seq([kind : {"created", "deleted"}, msg : Messages])
  BY DEF Types, PaneOK
<1>2. /\ chan[c] # <<>>
      /\ (\A d \in Convs \ {c} : chan'[d] = chan[d]) /\ chan'[c] = Tail(chan[c])
  BY <1>1 DEF Takes
<1> DEFINE n == Len(chan[c])
<1>3. n \in Nat \ {0} /\ DOMAIN chan[c] = 1..n
  BY <1>1, <1>2, EmptySeq, LenProperties
<1>4. /\ DOMAIN chan'[c] = 1..n - 1 /\ e = chan[c][1]
      /\ \A i \in 1..n - 1 : chan'[c][i] = chan[c][i + 1]
  BY <1>1, <1>2, <1>3
<1> HIDE DEF n
<1>5. e.msg \in Messages /\ e.kind \in {"created", "deleted"} /\ 1 \in DOMAIN chan[c]
  BY <1>3, <1>4, TypeFacts
<1>6. ASSUME NEW l, NEW x, NEW i \in 1..n, chan[c][i] = [kind |-> l, msg |-> x], i # 1
      PROVE  UnderWay(c, l, x)'
  <2>1. i - 1 \in 1..n - 1 /\ chan'[c][i - 1] = chan[c][i]
    BY <1>3, <1>4, <1>6
  <2> QED BY <1>4, <1>6, <2>1 DEF UnderWay
<1>7. \A l, x : Behind(c, 1, l, x) => UnderWay(c, l, x)'
  BY <1>3, <1>6 DEF Behind
<1>8. ASSUME NEW l, NEW x
      PROVE  /\ UnderWay(c, l, x)' => UnderWay(c, l, x)
             /\ UnderWay(c, l, x) => UnderWay(c, l, x)' \/ e = [kind |-> l, msg |-> x]
  <2>1. UnderWay(c, l, x)' => UnderWay(c, l, x)
    <3> SUFFICES ASSUME NEW i \in 1..n - 1, chan'[c][i] = [kind |-> l, msg |-> x]
                 PROVE  UnderWay(c, l, x)
      BY <1>4 DEF UnderWay
    <3>1. i + 1 \in 1..n
      BY <1>3
    <3> QED BY <1>3, <1>4, <3>1 DEF UnderWay
  <2>2. UnderWay(c, l, x) => UnderWay(c, l, x)' \/ e = [kind |-> l, msg |-> x]
    BY <1>3, <1>4, <1>6 DEF UnderWay
  <2> QED BY <2>1, <2>2
<1>9. ASSUME NEW d \in Convs \ {c}, NEW l, NEW x
      PROVE  UnderWay(d, l, x)' <=> UnderWay(d, l, x)
  BY <1>2 DEF UnderWay
<1>10. ASSUME NEW i \in DOMAIN chan'[c]
       PROVE  /\ i + 1 \in DOMAIN chan[c] /\ chan'[c][i] = chan[c][i + 1]
              /\ \A l, x : Behind(c, i + 1, l, x) => Behind(c, i, l, x)'
  <2>1. i + 1 \in DOMAIN chan[c] /\ chan'[c][i] = chan[c][i + 1] /\ i \in Nat
    BY <1>3, <1>4
  <2>2. ASSUME NEW l, NEW x, NEW j \in 1..n, i + 1 < j, chan[c][j] = [kind |-> l, msg |-> x]
        PROVE  Behind(c, i, l, x)'
    <3>1. j - 1 \in 1..n - 1 /\ i < j - 1 /\ chan'[c][j - 1] = chan[c][j]
      BY <1>3, <1>4, <2>1, <2>2
    <3> QED BY <1>4, <2>2, <3>1 DEF Behind
  <2> QED BY <1>3, <2>1, <2>2 DEF Behind
<1>11. ASSUME NEW d \in Convs \ {c}, NEW i \in DOMAIN chan'[d]
       PROVE  /\ i \in DOMAIN chan[d] /\ chan'[d][i] = chan[d][i]
              /\ \A l, x : Behind(d, i, l, x) => Behind(d, i, l, x)'
  BY <1>2 DEF Behind
<1>12. ASSUME NEW d \in Convs, NEW l, NEW x
       PROVE  /\ UnderWay(d, l, x)' => UnderWay(d, l, x)
              /\ UnderWay(d, l, x) =>
                   UnderWay(d, l, x)' \/ (d = c /\ e = [kind |-> l, msg |-> x])
  BY <1>8, <1>9
<1>13. ASSUME NEW d \in Convs, NEW i \in DOMAIN chan'[d]
       PROVE  \E j \in DOMAIN chan[d] :
                /\ chan'[d][i] = chan[d][j]
                /\ \A l, x : Behind(d, j, l, x) => Behind(d, i, l, x)'
  <2>1. CASE d = c
    BY <1>10, <2>1
  <2>2. CASE d # c
    BY <1>11, <2>2
  <2> QED BY <2>1, <2>2
<1>14. e.msg \in Messages /\ e.kind \in {"created", "deleted"}
       /\ 1 \in DOMAIN chan[c] /\ chan[c][1] = e
  BY <1>4, <1>5
<1> QED BY <1>7, <1>12, <1>13, <1>14

-----------------------------------------------------------------------------
(* The steps of the server.                                                *)
LEMMA StoreKeeps ==
  ASSUME Types, Server, NEW c \in Convs, Store(c), UNCHANGED <<excused, dropped>>,
         NEW n, n = Len(log) + 1
  PROVE  /\ Server' /\ Steady
         /\ n \in Messages' /\ log'[n].conv = c /\ n \in rows'
         /\ log' \in Seq([conv : Convs, created : Nat \ {0}])
<1>0. Types /\ Server
  OBVIOUS
<1>1. /\ Len(log) \in Nat /\ Messages = 1..Len(log) /\ rows \subseteq Messages
      /\ \A m \in Messages : log[m].created \in Nat
  BY TypeFacts
<1>2. /\ \E t \in IF log = <<>> THEN {1}
                  ELSE {log[Len(log)].created, log[Len(log)].created + 1} :
           log' = Append(log, [conv |-> c, created |-> t])
      /\ rows' = rows \cup {n} /\ Event(c, "created", n)
      /\ excused' = excused /\ dropped' = dropped
  BY DEF Store
<1>3. /\ Messages' = 1..n /\ n \notin Messages /\ \A m \in Messages : log'[m] = log[m]
      /\ log'[n].conv = c
      /\ \A m \in Messages : log'[n].created >= log[m].created
      /\ log'[n].created \in Nat
      /\ log' \in Seq([conv : Convs, created : Nat \ {0}])
  <2>1. log \in Seq([conv : Convs, created : Nat \ {0}])
    BY <1>0 DEF Types, PaneOK
  <2>2. PICK t : /\ t \in IF log = <<>> THEN {1}
                          ELSE {log[Len(log)].created, log[Len(log)].created + 1}
                 /\ log' = Append(log, [conv |-> c, created |-> t])
    BY <1>2
  <2>3. /\ DOMAIN log' = 1..n /\ (\A m \in 1..Len(log) : log'[m] = log[m])
        /\ log'[n] = [conv |-> c, created |-> t]
    BY <1>1, <2>1, <2>2
  <2>4. t \in Nat \ {0} /\ \A m \in Messages : t >= log[m].created
    <3>1. CASE log = <<>>
      BY <1>1, <2>2, <3>1
    <3>2. CASE log # <<>>
      <4>1. Len(log) \in Messages /\ log[Len(log)].created \in Nat \ {0}
        BY <1>0, <1>1, <2>1, <3>2, EmptySeq, TypeFacts
      <4>2. \A m \in Messages : log[Len(log)].created >= log[m].created
        BY <1>0, <1>1, <4>1 DEF Server
      <4> QED BY <1>1, <2>2, <3>2, <4>1, <4>2
    <3> QED BY <3>1, <3>2
  <2>5. log' \in Seq([conv : Convs, created : Nat \ {0}])
    BY <2>1, <2>2, <2>4
  <2> QED BY <1>1, <2>3, <2>4, <2>5 DEF Messages
<1>4. /\ \A d \in Convs : \A l, x : UnderWay(d, l, x) => UnderWay(d, l, x)'
      /\ UnderWay(c, "created", n)'
      /\ \A d \in Convs : \A i \in DOMAIN chan'[d] :
           \/ /\ i \in DOMAIN chan[d] /\ chan'[d][i] = chan[d][i]
              /\ \A l, x : Behind(d, i, l, x) => Behind(d, i, l, x)'
              /\ d = c => Behind(d, i, "created", n)'
           \/ d = c /\ chan'[d][i] = [kind |-> "created", msg |-> n]
  BY <1>0, <1>2, Appended
<1>5. ASSUME NEW d \in Convs PROVE InOrder(d)'
  <2> SUFFICES ASSUME NEW i \in DOMAIN chan'[d], NEW e, e = chan'[d][i]
               PROVE  Ordered(d, i, e)'
    BY DEF InOrder
  <2>1. CASE /\ i \in DOMAIN chan[d] /\ chan'[d][i] = chan[d][i]
             /\ \A l, x : Behind(d, i, l, x) => Behind(d, i, l, x)'
             /\ d = c => Behind(d, i, "created", n)'
    <3>1. Ordered(d, i, e) /\ e.msg \in Messages
      BY <1>0, <2>1, TypeFacts DEF Server, InOrder
    <3>2. \A x \in Messages' : x \in Messages \/ x = n
      BY <1>1, <1>3
    <3>3. e.msg # n /\ log'[e.msg] = log[e.msg]
      BY <1>3, <3>1
    <3>4. e.kind = "created" /\ e.msg \notin rows' => Behind(d, i, "deleted", e.msg)'
      BY <1>2, <2>1, <3>1 DEF Ordered
    <3>5. e.kind = "created" =>
            \A x \in Messages' : x > e.msg /\ log'[x].conv = d => Behind(d, i, "created", x)'
      BY <1>3, <2>1, <3>1, <3>2 DEF Ordered
    <3> QED BY <1>2, <3>1, <3>3, <3>4, <3>5 DEF Ordered
  <2>2. CASE d = c /\ e = [kind |-> "created", msg |-> n]
    <3>1. \A x \in Messages' : ~(x > n)
      BY <1>1, <1>3
    <3>2. e.kind = "created" /\ e.msg = n /\ n \in rows' /\ log'[n].conv = d
      BY <1>2, <1>3, <2>2
    <3> QED BY <3>1, <3>2 DEF Ordered
  <2> QED BY <1>4, <2>1, <2>2
<1>6. ASSUME NEW x \in Messages', NEW y \in Messages', x <= y
      PROVE  log'[x].created <= log'[y].created
  <2>1. CASE y \in Messages
    <3>1. x \in Messages
      BY <1>1, <1>3, <1>6, <2>1
    <3> QED BY <1>0, <1>3, <1>6, <2>1, <3>1 DEF Server
  <2>2. CASE y = n /\ x \in Messages
    BY <1>1, <1>3, <2>2
  <2>3. CASE y = n /\ x = n
    BY <1>3, <2>3
  <2> QED BY <1>1, <1>3, <2>1, <2>2, <2>3
<1>7. Messages \subseteq Messages' /\ n \in Messages'
  BY <1>1, <1>3
<1>8. Grows
  <2>1. \A x \in Messages : ~(log'[n].created < log[x].created)
    BY <1>1, <1>3
  <2> QED BY <1>2, <1>3, <1>7, <2>1 DEF Grows
<1>9. ASSUME NEW d \in Convs PROVE Due(d)' \subseteq Due(d)
  <2> SUFFICES ASSUME NEW x \in Due(d)' PROVE x \in Due(d)
    OBVIOUS
  <2>1. x \in rows' \ (excused \cup dropped) /\ log'[x].conv = d /\ Alone(x)' /\ ~UnderWay(d, "created", x)'
    BY <1>2 DEF Due
  <2>2. x # n
    BY <1>3, <1>4, <2>1
  <2>3. x \in rows /\ x \in Messages
    BY <1>1, <1>2, <2>1, <2>2
  <2>4. Alone(x)
    BY <1>3, <1>7, <2>1, <2>3 DEF Alone
  <2>5. ~UnderWay(d, "created", x)
    BY <1>4, <2>1
  <2> QED BY <1>3, <2>1, <2>3, <2>4, <2>5 DEF Due
<1>10. ASSUME NEW x \in Messages, Told(x) PROVE Told(x)'
  <2>1. log[x].conv \in Convs /\ log'[x] = log[x]
    BY <1>0, <1>3, TypeFacts
  <2> QED BY <1>2, <1>4, <1>10, <2>1 DEF Told
<1>11. Server'
  BY <1>5, <1>6 DEF Server
<1>12. Steady
  BY <1>8, <1>9, <1>10 DEF Steady, Lasting
<1> QED BY <1>2, <1>3, <1>7, <1>11, <1>12

(* A deletion puts its event behind all others.                            *)
LEMMA DeleteKeeps ==
  ASSUME Types, Server, NEW m \in rows, Delete(m)
  PROVE  Server' /\ Steady
<1>0. Types /\ Server /\ log[m].conv \in Convs /\ m \in Messages
  BY TypeFacts
<1> SUFFICES ASSUME NEW c \in Convs, c = log[m].conv
             PROVE  Server' /\ Steady
  BY <1>0
<1>1. rows' = rows \ {m} /\ Event(c, "deleted", m) /\ log' = log /\ excused' = excused
      /\ dropped' = dropped \ {m}
  BY DEF Delete
<1>2. Messages' = Messages /\ \A x : Alone(x)' <=> Alone(x)
  BY <1>1 DEF Messages, Alone
<1>3. /\ \A d \in Convs : \A l, x : UnderWay(d, l, x) => UnderWay(d, l, x)'
      /\ UnderWay(c, "deleted", m)'
      /\ \A d \in Convs : \A i \in DOMAIN chan'[d] :
           \/ /\ i \in DOMAIN chan[d] /\ chan'[d][i] = chan[d][i]
              /\ \A l, x : Behind(d, i, l, x) => Behind(d, i, l, x)'
              /\ d = c => Behind(d, i, "deleted", m)'
           \/ d = c /\ chan'[d][i] = [kind |-> "deleted", msg |-> m]
  BY <1>0, <1>1, Appended
<1>4. ASSUME NEW d \in Convs PROVE InOrder(d)'
  <2> SUFFICES ASSUME NEW i \in DOMAIN chan'[d], NEW e, e = chan'[d][i]
               PROVE  Ordered(d, i, e)'
    BY DEF InOrder
  <2>1. CASE /\ i \in DOMAIN chan[d] /\ chan'[d][i] = chan[d][i]
             /\ \A l, x : Behind(d, i, l, x) => Behind(d, i, l, x)'
             /\ d = c => Behind(d, i, "deleted", m)'
    <3>1. Ordered(d, i, e)
      BY <1>0, <2>1 DEF Server, InOrder
    <3>2. log'[e.msg].conv = d /\ (e.msg = m => d = c)
      BY <1>1, <3>1 DEF Ordered
    <3>3. e.kind = "deleted" => e.msg \notin rows'
      BY <1>1, <3>1 DEF Ordered
    <3>4. e.kind = "created" /\ e.msg \notin rows' => Behind(d, i, "deleted", e.msg)'
      BY <1>1, <2>1, <3>1, <3>2 DEF Ordered
    <3>5. e.kind = "created" =>
            \A x \in Messages' : x > e.msg /\ log'[x].conv = d => Behind(d, i, "created", x)'
      BY <1>1, <1>2, <2>1, <3>1 DEF Ordered
    <3> QED BY <3>2, <3>3, <3>4, <3>5 DEF Ordered
  <2>2. CASE d = c /\ e = [kind |-> "deleted", msg |-> m]
    BY <1>1, <2>2 DEF Ordered
  <2> QED BY <1>3, <2>1, <2>2
<1>5. Server'
  BY <1>0, <1>1, <1>2, <1>4 DEF Server
<1>6. Grows
  BY <1>1, <1>2 DEF Grows
<1>7. ASSUME NEW d \in Convs PROVE Due(d)' \subseteq Due(d)
  BY <1>1, <1>2, <1>3 DEF Due
<1>8. ASSUME NEW x \in Messages, Told(x) PROVE Told(x)'
  <2>1. log[x].conv \in Convs
    BY <1>0, TypeFacts
  <2> QED BY <1>1, <1>3, <1>8, <2>1 DEF Told
<1> QED BY <1>5, <1>6, <1>7, <1>8 DEF Steady, Lasting

(* An event taken from its channel, heard or lost.  If it is lost, its     *)
(* message is excused; if it is heard, a creation makes its message due,   *)
(* and a deletion has told whoever shows the message.                      *)
LEMMA TakingKeeps ==
  ASSUME Types, Server, NEW c \in Convs, Takes(c), UNCHANGED <<log, rows, dropped>>,
         NEW e, e = Head(chan[c]), excused' \in {excused, excused \cup {e.msg}}
  PROVE  /\ Server' /\ Grows /\ e.msg \in Messages
         /\ \A d \in Convs : \A m \in Due(d)' :
              m \in Due(d) \/ (d = c /\ e.kind = "created" /\ m = e.msg /\ m \notin excused')
         /\ \A m \in Messages :
              Told(m) => Told(m)' \/ (e.kind = "deleted" /\ m = e.msg /\ m \notin excused')
<1>0. Types /\ Server /\ excused \subseteq excused'
  OBVIOUS
<1>1. log' = log /\ rows' = rows /\ Messages' = Messages /\ \A x : Alone(x)' <=> Alone(x)
  BY DEF Messages, Alone
<1>2. /\ e.msg \in Messages /\ e.kind \in {"created", "deleted"}
      /\ \A d \in Convs : \A l, n :
           /\ UnderWay(d, l, n)' => UnderWay(d, l, n)
           /\ UnderWay(d, l, n) => \/ UnderWay(d, l, n)'
                                   \/ d = c /\ e = [kind |-> l, msg |-> n]
      /\ \A d \in Convs : \A i \in DOMAIN chan'[d] :
           \E j \in DOMAIN chan[d] :
             /\ chan'[d][i] = chan[d][j]
             /\ \A l, n : Behind(d, j, l, n) => Behind(d, i, l, n)'
  BY <1>0, Taken
<1>3. ASSUME NEW d \in Convs, NEW i \in DOMAIN chan'[d], NEW f, f = chan'[d][i]
      PROVE  Ordered(d, i, f)'
  <2>1. PICK j \in DOMAIN chan[d] :
          /\ f = chan[d][j]
          /\ \A l, n : Behind(d, j, l, n) => Behind(d, i, l, n)'
    BY <1>2, <1>3
  <2>2. Ordered(d, j, f)
    BY <1>0, <2>1 DEF Server, InOrder
  <2> QED BY <1>1, <2>1, <2>2 DEF Ordered
<1>4. Server'
  BY <1>0, <1>1, <1>3 DEF Server, InOrder
<1>5. Grows
  BY <1>1 DEF Grows
<1>6. ASSUME NEW d \in Convs, NEW m \in Due(d)'
      PROVE  m \in Due(d) \/ (d = c /\ e.kind = "created" /\ m = e.msg /\ m \notin excused')
  <2>1. m \in rows \ (excused \cup dropped) /\ log[m].conv = d /\ Alone(m)
        /\ ~UnderWay(d, "created", m)'
        /\ m \notin excused'
    BY <1>0, <1>1 DEF Due
  <2>2. UnderWay(d, "created", m) => d = c /\ e = [kind |-> "created", msg |-> m]
    BY <1>2, <2>1
  <2> QED BY <2>1, <2>2 DEF Due
<1>7. ASSUME NEW m \in Messages, Told(m)
      PROVE  Told(m)' \/ (e.kind = "deleted" /\ m = e.msg /\ m \notin excused')
  <2>1. log[m].conv \in Convs
    BY <1>0, TypeFacts
  <2>2. \A d \in Convs : UnderWay(d, "deleted", m) =>
          UnderWay(d, "deleted", m)' \/ e = [kind |-> "deleted", msg |-> m]
    BY <1>2
  <2> QED BY <1>0, <1>1, <1>7, <2>1, <2>2 DEF Told
<1> QED BY <1>2, <1>4, <1>5, <1>6, <1>7

(* A loss: nobody is owed what was lost.                                   *)
LEMMA LoseKeeps ==
  ASSUME Types, Server, NEW c \in Convs, Lose(c)
  PROVE  Server' /\ Steady
<1>0. Types /\ Server
  OBVIOUS
<1> SUFFICES ASSUME NEW e, e = Head(chan[c]) PROVE Server' /\ Steady
  OBVIOUS
<1>1. Takes(c) /\ UNCHANGED <<log, rows, dropped>> /\ excused' = excused \cup {e.msg}
  BY DEF Lose, Takes
<1>2. /\ Server' /\ Grows
      /\ \A d \in Convs : \A m \in Due(d)' :
           m \in Due(d) \/ (d = c /\ e.kind = "created" /\ m = e.msg /\ m \notin excused')
      /\ \A m \in Messages :
           Told(m) => Told(m)' \/ (e.kind = "deleted" /\ m = e.msg /\ m \notin excused')
  BY <1>0, <1>1, TakingKeeps
<1>3. e.msg \in excused'
  BY <1>1
<1> QED BY <1>2, <1>3 DEF Steady, Lasting

(* A step of the browser alone: with what is dropped as it is or more,     *)
(* nothing more is due.                                                    *)
LEMMA ServerIdle ==
  ASSUME Types, Server, UNCHANGED <<server, excused>>
  PROVE  Server' /\ Lasting /\ (dropped \subseteq dropped' => Steady)
<1>1. UNCHANGED <<log, rows, chan, excused>> /\ Messages' = Messages
      /\ (\A m : Told(m)' <=> Told(m))
  BY DEF server, Messages, Told, UnderWay
<1>2. Server'
  BY <1>1 DEF Server, InOrder, Ordered, Behind
<1>3. Grows
  BY <1>1 DEF Grows
<1>4. ASSUME dropped \subseteq dropped' PROVE \A d : Due(d)' \subseteq Due(d)
  BY <1>1, <1>4 DEF Due, Alone, UnderWay
<1> QED BY <1>1, <1>2, <1>3, <1>4 DEF Steady, Lasting

-----------------------------------------------------------------------------
(* A page of the server: rows it has, none twice, the latest of them, and  *)
(* all if they fill no page.                                               *)
LEMMA PagesAre ==
  ASSUME Types, NEW c, NEW cursor, NEW p \in Pages(c, cursor)
  PROVE  /\ p \in Seq(Messages) /\ IsInjective(p) /\ Range(p) \subseteq Before(c, cursor)
         /\ Latest(Range(p), Before(c, cursor))
         /\ Len(p) # PageSize => Range(p) = Before(c, cursor)
<1> DEFINE B    == Before(c, cursor)
           size == IF Cardinality(B) < PageSize THEN Cardinality(B) ELSE PageSize
<1>1. /\ p \in [1..size -> B]
      /\ \A i, j \in 1..size : i < j => p[i] < p[j]
      /\ Latest(Range(p), B)
  BY DEF Pages
<1>2. B \subseteq 1..Len(log) /\ Len(log) \in Nat /\ Messages = 1..Len(log)
  BY TypeFacts DEF Before
<1>3. IsFiniteSet(B) /\ Cardinality(B) \in Nat
  <2>1. IsFiniteSet(1..Len(log)) /\ B \in SUBSET (1..Len(log))
    BY <1>2, FS_Interval
  <2> QED BY <2>1, FS_Subset, FS_CardinalityType
<1>4. size \in Nat
  BY <1>3, PageSizeAssumption
<1> HIDE DEF B, size
<1>5. \A i \in 1..size : p[i] \in B /\ p[i] \in Nat
  <2>1. \A m \in B : m \in Nat
    BY <1>2
  <2> QED BY <1>1, <2>1
<1>6. IsInjective(p)
  <2> SUFFICES ASSUME NEW i \in 1..size, NEW j \in 1..size, p[i] = p[j] PROVE i = j
    BY <1>1 DEF IsInjective
  <2>1. ~(i < j) /\ ~(j < i)
    BY <1>1, <1>5
  <2> QED BY <1>4, <2>1
<1>7. p \in Seq(Messages) /\ Len(p) = size
  <2>1. p \in [1..size -> Messages]
    BY <1>1, <1>2
  <2>2. p \in Seq(Messages)
    BY <1>4, <2>1, SeqDef
  <2> QED BY <1>4, <2>1, <2>2, LenProperties
<1>8. Range(p) \subseteq B
  BY <1>1 DEF Range
<1>9. ASSUME size # PageSize PROVE Range(p) = B
  <2>1. size = Cardinality(B)
    BY <1>9 DEF size
  <2>2. p \in Injection(1..size, B)
    BY <1>1, <1>6 DEF Injection
  <2>3. IsFiniteSet(1..size) /\ Cardinality(1..size) = size
    BY <1>4, FS_Interval
  <2>4. p \in Surjection(1..size, B)
    BY <1>3, <2>1, <2>2, <2>3, FS_Injection
  <2> QED BY <1>1, <1>8, <2>4 DEF Range, Surjection
<1> QED BY <1>1, <1>6, <1>7, <1>8, <1>9 DEF B

-----------------------------------------------------------------------------
(* Types, of the server's part: messages only grow, an event names one.    *)
LEMMA SeqGrows ==
  ASSUME NEW S, NEW T, S \subseteq T, NEW s \in Seq(S)
  PROVE  s \in Seq(T)
BY SMT

(* The channels carry events of messages there are.                        *)
ChannelsOK == /\ DOMAIN chan = Convs
              /\ \A d \in Convs : chan[d] \in Seq([kind : {"created", "deleted"}, msg : Messages])

LEMMA ChannelsGrow ==
  ASSUME ChannelsOK, Messages \subseteq Messages', NEW c \in Convs,
         \/ chan' = chan
         \/ Takes(c)
         \/ \E k \in {"created", "deleted"}, m \in Messages' : Event(c, k, m)
  PROVE  ChannelsOK'
<1> DEFINE Old == [kind : {"created", "deleted"}, msg : Messages]
           New == [kind : {"created", "deleted"}, msg : Messages']
<1>1. DOMAIN chan = Convs /\ \A d \in Convs : chan[d] \in Seq(Old)
  BY DEF ChannelsOK
<1>2. Old \subseteq New
  OBVIOUS
<1> HIDE DEF Old, New
<1>3. \A d \in Convs : chan[d] \in Seq(New)
  BY <1>1, <1>2, SeqGrows
<1>4. CASE chan' = chan
  BY <1>1, <1>3, <1>4 DEF ChannelsOK, New
<1>5. CASE Takes(c)
  <2>1. Tail(chan[c]) \in Seq(New)
    BY <1>3, <1>5, EmptySeq, HeadTailProperties DEF Takes
  <2>2. DOMAIN chan' = Convs /\ \A d \in Convs : chan'[d] \in Seq(New)
    BY <1>1, <1>3, <1>5, <2>1 DEF Takes
  <2> QED BY <2>2 DEF ChannelsOK, New
<1>6. ASSUME NEW k \in {"created", "deleted"}, NEW m \in Messages', Event(c, k, m)
      PROVE  ChannelsOK'
  <2>1. [kind |-> k, msg |-> m] \in New
    BY DEF New
  <2>2. Append(chan[c], [kind |-> k, msg |-> m]) \in Seq(New)
    BY <1>3, <2>1, AppendProperties
  <2>3. DOMAIN chan' = Convs /\ \A d \in Convs : chan'[d] \in Seq(New)
    BY <1>1, <1>3, <1>6, <2>2 DEF Event
  <2> QED BY <2>3 DEF ChannelsOK, New
<1> QED BY <1>4, <1>5, <1>6

LEMMA ServerTypes ==
  ASSUME Types, Messages \subseteq Messages', ChannelsOK',
         log' \in Seq([conv : Convs, created : Nat \ {0}]),
         rows' \subseteq Messages', excused' \cup dropped' \subseteq Messages',
         pane' \in Seq(Messages'),
         UNCHANGED <<selected, hasOlder, loading, strayed, first, older>>,
         sent' = sent \/ /\ sent' \in [at : {"answered"}, conv : Convs, msg : Messages']
                         /\ sent'.msg \in Nat
  PROVE  Types'
<1>1. first.page \in Seq(Messages') /\ older.page \in Seq(Messages')
  BY SeqGrows DEF Types, PaneOK
<1>2. /\ first \in [at : {"none", "asked", "answered", "shown"}, page : Seq(Messages)]
      /\ older \in [at : {"none", "asked", "answered"}, conv : Convs \cup {"none"},
                    cursor : Nat, page : Seq(Messages), stale : BOOLEAN]
  BY DEF Types
<1>3. /\ first' \in [at : {"none", "asked", "answered", "shown"}, page : Seq(Messages')]
      /\ older' \in [at : {"none", "asked", "answered"}, conv : Convs \cup {"none"},
                     cursor : Nat, page : Seq(Messages'), stale : BOOLEAN]
  BY <1>1, <1>2
<1>4. /\ sent' \in [at : {"none", "asked", "answered"}, conv : Convs \cup {"none"}, msg : Nat]
      /\ sent'.at # "none" => sent'.conv \in Convs
      /\ sent'.at = "answered" => sent'.msg \in Messages'
  BY DEF Types, PaneOK
<1>5. PaneOK'
  BY <1>1, <1>4 DEF PaneOK, Types, ChannelsOK
<1> QED BY <1>3, <1>4, <1>5 DEF Types

(* Types, of a step of the browser alone.                                  *)
LEMMA BrowserTypes ==
  ASSUME Types, UNCHANGED <<server, excused>>, dropped' \subseteq Messages,
         selected' \in Convs, pane' \in Seq(Messages),
         hasOlder' \in BOOLEAN, loading' \in BOOLEAN, strayed' \in BOOLEAN,
         first' \in [at : {"none", "asked", "answered", "shown"}, page : Seq(Messages)],
         first'.at # "answered" => first'.page = <<>>,
         older' \in [at : {"none", "asked", "answered"}, conv : Convs \cup {"none"},
                     cursor : Nat, page : Seq(Messages), stale : BOOLEAN],
         older'.at = "none" => older' = NoOlder,
         sent' \in [at : {"none", "asked", "answered"}, conv : Convs \cup {"none"}, msg : Nat],
         sent'.at # "none" => sent'.conv \in Convs,
         sent'.at = "answered" => sent'.msg \in Messages
  PROVE  Types'
<1>1. Messages' = Messages /\ UNCHANGED <<log, rows, chan, excused>>
  BY DEF server, Messages
<1>2. first'.page \in Seq(Messages) /\ older'.page \in Seq(Messages)
      /\ first'.at \in {"none", "asked", "answered", "shown"}
  OBVIOUS
<1>3. PaneOK'
  BY <1>1, <1>2 DEF PaneOK, Types
<1> QED BY <1>1, <1>3 DEF Types

-----------------------------------------------------------------------------
(* The step of each action.                                                *)
LEMMA InitHolds == PaneInit => PaneInv
<1> SUFFICES ASSUME PaneInit PROVE PaneInv
  OBVIOUS
<1>1. Messages = {} /\ log = <<>> /\ rows = {} /\ excused = {} /\ dropped = {}
      /\ chan = [c \in Convs |-> <<>>]
  BY DEF PaneInit, Messages
<1>2. Types
  BY <1>1, EmptySeq DEF PaneInit, Types, PaneOK, Asked, NoOlder, NotSent
<1>3. Server
  BY <1>1 DEF Server, InOrder
<1>4. Range(<<>>) = {} /\ IsInjective(<<>>)
  BY DEF Range, IsInjective
<1>5. FirstPage
  BY <1>4 DEF PaneInit, FirstPage, Asked
<1>6. OlderPage
  BY <1>4 DEF PaneInit, OlderPage, NoOlder
<1>7. Answer
  BY DEF PaneInit, Answer, NotSent
<1>8. Pane
  BY <1>4 DEF PaneInit, Pane, Asked, NoOlder, Welcome, NothingTwice, PaneOfSelected
<1> QED BY <1>2, <1>3, <1>5, <1>6, <1>7, <1>8 DEF PaneInv

LEMMA StutterStep == PaneInv /\ UNCHANGED paneVars => PaneInv'
<1> SUFFICES ASSUME PaneInv, UNCHANGED paneVars PROVE PaneInv'
  OBVIOUS
<1>1. Types /\ Server /\ FirstPage /\ OlderPage /\ Answer /\ Pane
  BY DEF PaneInv
<1>2. UNCHANGED <<server, view, first, older, sent, aux>>
  BY DEF paneVars
<1>3. UNCHANGED <<selected, pane, hasOlder, loading>>
  BY <1>2 DEF view
<1>4. Server' /\ Steady
  BY <1>1, <1>2, ServerIdle
<1>5. Types'
  <2>1. UNCHANGED <<log, rows, chan, selected, pane, hasOlder, loading, first, older, sent,
                    aux>>
    BY <1>2, <1>3 DEF server
  <2> QED BY <1>1, <2>1 DEF Types, PaneOK, Messages
<1>6. FirstPage' /\ OlderPage' /\ Answer' /\ Pane'
  BY <1>1, <1>2, <1>3, <1>4, FirstKeeps, OlderKeeps, AnswerKeeps, PaneKeeps DEF Steady
<1> QED BY <1>4, <1>5, <1>6 DEF PaneInv

LEMMA SendStep ==
  ASSUME PaneInv, NEW c \in Convs, Send(c)
  PROVE  PaneInv'
<1>1. Types /\ Server /\ FirstPage /\ OlderPage /\ Answer /\ Pane
  BY DEF PaneInv
<1>2. Store(c) /\ UNCHANGED <<view, first, older, sent, aux>>
  BY DEF Send
<1>3. UNCHANGED <<selected, pane, hasOlder, loading>>
  BY <1>2 DEF view
<1> SUFFICES ASSUME NEW n, n = Len(log) + 1 PROVE PaneInv'
  OBVIOUS
<1>4. /\ Server' /\ Steady /\ n \in Messages'
      /\ log' \in Seq([conv : Convs, created : Nat \ {0}])
  BY <1>1, <1>2, StoreKeeps
<1>5. Types'
  <2>1. Messages \subseteq Messages'
    BY <1>4 DEF Steady, Lasting, Grows
  <2>2. ChannelsOK'
    BY <1>1, <1>2, <1>4, <2>1, ChannelsGrow DEF Types, PaneOK, ChannelsOK, Store
  <2>3. rows' \subseteq Messages' /\ excused' \cup dropped' \subseteq Messages'
    BY <1>1, <1>2, <1>4, <2>1 DEF Types, PaneOK, Store
  <2>4. pane' \in Seq(Messages')
    BY <1>1, <1>3, <2>1, SeqGrows DEF Types, PaneOK
  <2> QED BY <1>1, <1>2, <1>3, <1>4, <2>1, <2>2, <2>3, <2>4, ServerTypes
<1>6. FirstPage' /\ OlderPage' /\ Answer' /\ Pane'
  BY <1>1, <1>2, <1>3, <1>4, FirstKeeps, OlderKeeps, AnswerKeeps, PaneKeeps DEF Steady
<1> QED BY <1>4, <1>5, <1>6 DEF PaneInv

LEMMA DeleteStep ==
  ASSUME PaneInv, NEW m \in rows, Delete(m)
  PROVE  PaneInv'
<1>1. Types /\ Server /\ FirstPage /\ OlderPage /\ Answer /\ Pane
  BY DEF PaneInv
<1>2. /\ rows' = rows \ {m} /\ Event(log[m].conv, "deleted", m)
      /\ excused' = excused /\ dropped' = dropped \ {m}
      /\ UNCHANGED <<log, view, first, older, sent, strayed>>
  BY DEF Delete
<1>3. UNCHANGED <<selected, pane, hasOlder, loading>> /\ Messages' = Messages
  BY <1>2 DEF view, Messages
<1>4. Server' /\ Steady
  BY <1>1, DeleteKeeps
<1>5. Types'
  <2>1. log[m].conv \in Convs /\ m \in Messages'
    BY <1>1, <1>3, TypeFacts
  <2>2. ChannelsOK'
    BY <1>1, <1>2, <1>3, <2>1, ChannelsGrow DEF Types, PaneOK, ChannelsOK
  <2>3. rows' \subseteq Messages' /\ excused' \cup dropped' \subseteq Messages' /\ pane' \in Seq(Messages')
        /\ log' \in Seq([conv : Convs, created : Nat \ {0}])
    BY <1>1, <1>2, <1>3 DEF Types, PaneOK
  <2> QED BY <1>1, <1>2, <1>3, <2>2, <2>3, ServerTypes
<1>6. FirstPage' /\ OlderPage' /\ Answer' /\ Pane'
  BY <1>1, <1>2, <1>3, <1>4, FirstKeeps, OlderKeeps, AnswerKeeps, PaneKeeps DEF Steady
<1> QED BY <1>4, <1>5, <1>6 DEF PaneInv

LEMMA LoseStep ==
  ASSUME PaneInv, NEW c \in Convs, Lose(c)
  PROVE  PaneInv'
<1>1. Types /\ Server /\ FirstPage /\ OlderPage /\ Answer /\ Pane
  BY DEF PaneInv
<1>2. /\ Takes(c) /\ excused' = excused \cup {Head(chan[c]).msg}
      /\ UNCHANGED <<log, rows, view, first, older, sent, strayed, dropped>>
  BY DEF Lose, Takes
<1>3. UNCHANGED <<selected, pane, hasOlder, loading>> /\ Messages' = Messages
  BY <1>2 DEF view, Messages
<1>4. Server' /\ Steady
  BY <1>1, LoseKeeps
<1>5. Types'
  <2>1. Head(chan[c]).msg \in Messages
    BY <1>1, <1>2, Taken
  <2>2. ChannelsOK'
    BY <1>1, <1>2, <1>3, ChannelsGrow DEF Types, PaneOK, ChannelsOK
  <2>3. rows' \subseteq Messages' /\ excused' \cup dropped' \subseteq Messages' /\ pane' \in Seq(Messages')
        /\ log' \in Seq([conv : Convs, created : Nat \ {0}])
    BY <1>1, <1>2, <1>3, <2>1 DEF Types, PaneOK
  <2> QED BY <1>1, <1>2, <1>3, <2>2, <2>3, ServerTypes
<1>6. FirstPage' /\ OlderPage' /\ Answer' /\ Pane'
  BY <1>1, <1>2, <1>3, <1>4, FirstKeeps, OlderKeeps, AnswerKeeps, PaneKeeps DEF Steady
<1> QED BY <1>4, <1>5, <1>6 DEF PaneInv

LEMMA AnswerFirstStep ==
  ASSUME PaneInv, AnswerFirst
  PROVE  PaneInv'
<1>1. Types /\ Server /\ FirstPage /\ OlderPage /\ Answer /\ Pane
  BY DEF PaneInv
<1>2. PICK p \in Pages(selected, 0) : first' = [at |-> "answered", page |-> p]
  BY DEF AnswerFirst
<1>3. /\ first.at = "asked" /\ UNCHANGED <<server, view, older, sent, aux>>
      /\ UNCHANGED <<log, rows, chan, selected, pane, hasOlder, loading>>
      /\ Messages' = Messages
  BY DEF AnswerFirst, server, view, Messages
<1>4. Server' /\ Steady
  BY <1>1, <1>3, ServerIdle
<1>5. /\ p \in Seq(Messages) /\ IsInjective(p) /\ Range(p) \subseteq Before(selected, 0)
      /\ Latest(Range(p), Before(selected, 0))
      /\ Len(p) # PageSize => Range(p) = Before(selected, 0)
  BY <1>1, PagesAre
<1>6. first'.at = "answered" /\ first'.page = p
      /\ first' \in [at : {"none", "asked", "answered", "shown"}, page : Seq(Messages)]
  BY <1>2, <1>5
<1>7. Types'
  BY <1>1, <1>3, <1>6, BrowserTypes DEF Types, PaneOK
<1>8. FirstPage'
  <2>1. ASSUME NEW m \in Range(p) PROVE log[m].conv = selected /\ m \in Messages /\ Told(m)'
    BY <1>1, <1>3, <1>5 DEF Before, Told, Types, PaneOK
  <2>2. ASSUME NEW m \in Due(selected)' PROVE m \in Due(selected) /\ m \in Before(selected, 0)
    <3>1. selected \in Convs /\ Due(selected)' \subseteq Due(selected)
      BY <1>1, <1>3, <1>4, TypeFacts DEF Steady, Lasting, Due
    <3> QED BY <3>1 DEF Due, Before
  <2>3. ASSUME NEW m \in Due(selected)', NEW x \in Range(p), log[m].created >= log[x].created
        PROVE  m \in Range(p)
    <3> SUFFICES ASSUME m \notin Range(p) PROVE FALSE
      OBVIOUS
    <3>1. m \in Messages /\ Alone(m) /\ log[m].conv = selected
      BY <1>1, <2>2 DEF Due, Types, PaneOK
    <3>2. x \in Messages \ {m} /\ log[x].conv = selected
      BY <2>1
    <3>3. log[x].created >= log[m].created
      BY <1>5, <2>2 DEF Latest
    <3>4. log[x].created = log[m].created
      BY <1>1, <2>3, <3>1, <3>2, <3>3, TypeFacts
    <3> QED BY <3>1, <3>2, <3>4 DEF Alone
  <2> QED BY <1>3, <1>5, <1>6, <2>1, <2>2, <2>3 DEF FirstPage, DownToOldest
<1>9. Pane'
  <2>1. first'.at # "shown" /\ first.at # "shown"
    BY <1>3, <1>6
  <2>2. ASSUME ~strayed PROVE ~hasOlder /\ ~Welcome
    BY <1>1, <2>1, <2>2 DEF Pane
  <2>3. \A m \in Messages : Told(m) => Told(m)'
    BY <1>4 DEF Steady, Lasting
  <2> QED BY <1>1, <1>3, <2>1, <2>2, <2>3, TypeFacts DEF Pane, NothingTwice, PaneOfSelected, Welcome
<1>10. OlderPage' /\ Answer'
  BY <1>1, <1>3, <1>4, OlderKeeps, AnswerKeeps DEF Steady
<1> QED BY <1>4, <1>7, <1>8, <1>9, <1>10 DEF PaneInv

LEMMA ShowFirstStep ==
  ASSUME PaneInv, ShowFirst
  PROVE  PaneInv'
<1>1. Types /\ Server /\ FirstPage /\ OlderPage /\ Answer /\ Pane
  BY DEF PaneInv
<1>2. /\ first.at = "answered" /\ pane' = first.page
      /\ hasOlder' = (Len(first.page) = PageSize)
      /\ strayed' = (strayed /\ older.at # "none")
      /\ UNCHANGED <<server, selected, loading, older, sent, excused, dropped>>
      /\ UNCHANGED <<log, rows, chan>> /\ Messages' = Messages
  BY DEF ShowFirst, server, Messages
<1>3. first' = [at |-> "shown", page |-> <<>>]
  BY <1>1 DEF ShowFirst, Types
<1>4. Server' /\ Steady
  BY <1>1, <1>2, ServerIdle
<1>5. first'.at = "shown" /\ first'.page = <<>> /\ <<>> \in Seq(Messages)
      /\ first' \in [at : {"none", "asked", "answered", "shown"}, page : Seq(Messages)]
  BY <1>3
<1>6. Types'
  <2>1. hasOlder' \in BOOLEAN /\ strayed' \in BOOLEAN /\ pane' \in Seq(Messages)
    BY <1>1, <1>2 DEF Types, PaneOK
  <2> QED BY <1>1, <1>2, <1>5, <2>1, BrowserTypes DEF Types, PaneOK
<1>7. FirstPage'
  BY <1>5 DEF FirstPage, Range, IsInjective
<1>8. Pane'
  <2>1. ~strayed' => ~Welcome'
    BY <1>1, <1>2 DEF Pane, Welcome
  <2>2. selected \in Convs /\ Due(selected)' \subseteq Due(selected)
    BY <1>1, <1>2, <1>4 DEF Steady, Lasting, Types, PaneOK, Due
  <2>3. \A m \in Range(first.page) : log[m].conv = selected /\ Told(m)'
    BY <1>1, <1>4, TypeFacts DEF Steady, Lasting, FirstPage
  <2>4. \A m \in Due(selected)', x \in Range(pane') :
          log'[m].created >= log'[x].created => m \in Range(pane')
    BY <1>1, <1>2, <2>2 DEF FirstPage, DownToOldest
  <2>5. ~hasOlder' => Due(selected)' \subseteq Range(pane')
    BY <1>1, <1>2, <2>2 DEF FirstPage
  <2> QED BY <1>1, <1>2, <1>5, <2>1, <2>3, <2>4, <2>5
          DEF Pane, FirstPage, NothingTwice, PaneOfSelected, DownToOldest
<1>9. OlderPage' /\ Answer'
  BY <1>1, <1>2, <1>4, OlderKeeps, AnswerKeeps DEF Steady
<1> QED BY <1>4, <1>6, <1>7, <1>8, <1>9 DEF PaneInv

LEMMA FailFirstStep ==
  ASSUME PaneInv, FailFirst
  PROVE  PaneInv'
<1>1. Types /\ Server /\ FirstPage /\ OlderPage /\ Answer /\ Pane
  BY DEF PaneInv
<1>2. /\ first.at # "shown" /\ first' = [at |-> "none", page |-> <<>>]
      /\ UNCHANGED <<server, view, older, sent, aux>>
      /\ UNCHANGED <<log, rows, chan, selected, pane, hasOlder, loading>>
      /\ Messages' = Messages
  BY DEF FailFirst, NoPage, server, view, Messages
<1>3. Server' /\ Steady
  BY <1>1, <1>2, ServerIdle
<1>4. first'.at = "none" /\ first'.page = <<>> /\ <<>> \in Seq(Messages)
      /\ first' \in [at : {"none", "asked", "answered", "shown"}, page : Seq(Messages)]
  BY <1>2
<1>5. Types'
  BY <1>1, <1>2, <1>4, BrowserTypes DEF Types, PaneOK
<1>6. FirstPage'
  BY <1>4 DEF FirstPage, Range, IsInjective
<1>7. Pane'
  <2>1. ASSUME ~strayed PROVE ~hasOlder /\ ~Welcome
    BY <1>1, <1>2, <2>1 DEF Pane
  <2>2. \A m \in Messages : Told(m) => Told(m)'
    BY <1>3 DEF Steady, Lasting
  <2> QED BY <1>1, <1>2, <1>4, <2>1, <2>2, TypeFacts
          DEF Pane, NothingTwice, PaneOfSelected, Welcome
<1>8. OlderPage' /\ Answer'
  BY <1>1, <1>2, <1>3, OlderKeeps, AnswerKeeps DEF Steady
<1> QED BY <1>3, <1>5, <1>6, <1>7, <1>8 DEF PaneInv

LEMMA SelectStep ==
  ASSUME PaneInv, NEW c \in Convs, Select(c)
  PROVE  PaneInv'
<1>1. Types /\ Server /\ FirstPage /\ OlderPage /\ Answer /\ Pane
  BY DEF PaneInv
<1>2. /\ selected' = c /\ pane' = <<>> /\ hasOlder' = FALSE /\ loading' = FALSE
      /\ first' = [at |-> "asked", page |-> <<>>] /\ strayed' = FALSE
      /\ dropped' = {} /\ UNCHANGED <<server, sent, excused>>
      /\ UNCHANGED <<log, rows, chan>> /\ Messages' = Messages
  BY DEF Select, Empty, RestartFirst, Asked, server, Messages
<1>3. PICK b \in BOOLEAN : b = (older.at # "none")
  OBVIOUS
<1>4. older' = [at |-> older.at, conv |-> older.conv, cursor |-> older.cursor,
                page |-> older.page, stale |-> b]
  BY <1>1, <1>3 DEF Select, Types
<1>5. /\ older'.at = older.at /\ older'.conv = older.conv /\ older'.cursor = older.cursor
      /\ older'.page = older.page /\ older'.stale = (older.at # "none")
      /\ older' \in [at : {"none", "asked", "answered"}, conv : Convs \cup {"none"},
                     cursor : Nat, page : Seq(Messages), stale : BOOLEAN]
  BY <1>1, <1>3, <1>4 DEF Types
<1>6. Server' /\ Lasting
  BY <1>1, <1>2, ServerIdle
<1>7. first'.at = "asked" /\ first'.page = <<>> /\ <<>> \in Seq(Messages)
      /\ first' \in [at : {"none", "asked", "answered", "shown"}, page : Seq(Messages)]
  BY <1>2
<1>8. Types'
  <2>1. older'.at = "none" => older' = NoOlder
    <3> SUFFICES ASSUME older.at = "none" PROVE older' = NoOlder
      BY <1>5
    <3>1. older = [at |-> "none", conv |-> "none", cursor |-> 0, page |-> <<>>,
                   stale |-> FALSE]
      BY <1>1 DEF Types, PaneOK, NoOlder
    <3>2. older.conv = "none" /\ older.cursor = 0 /\ older.page = <<>> /\ b = FALSE
      BY <1>3, <3>1
    <3> QED BY <1>4, <3>2 DEF NoOlder
  <2> QED BY <1>1, <1>2, <1>5, <1>7, <2>1, BrowserTypes DEF Types, PaneOK
<1>9. Range(<<>>) = {} /\ IsInjective(<<>>)
  BY DEF Range, IsInjective
<1>10. FirstPage'
  BY <1>7, <1>9 DEF FirstPage
<1>11. Pane'
  BY <1>2, <1>5, <1>7, <1>9 DEF Pane, NothingTwice, PaneOfSelected, Welcome
<1>12. OlderPage'
  <2>1. \A m \in Messages : Told(m) => Told(m)'
    BY <1>6 DEF Lasting
  <2> QED BY <1>1, <1>2, <1>5, <2>1, TypeFacts DEF OlderPage
<1>13. Answer'
  BY <1>1, <1>2, <1>6, AnswerKeeps
<1> QED BY <1>6, <1>8, <1>10, <1>11, <1>12, <1>13 DEF PaneInv

(* The pane of the selection emptied: nothing is due of it any more.       *)
LEMMA CreateSelectedStep ==
  ASSUME PaneInv, CreateSelected
  PROVE  PaneInv'
<1>1. Types /\ Server /\ FirstPage /\ OlderPage /\ Answer /\ Pane
  BY DEF PaneInv
<1>2. /\ ~strayed /\ dropped = {}
      /\ pane' = <<>> /\ hasOlder' = FALSE /\ loading' = FALSE
      /\ UNCHANGED <<server, selected, first, older, sent, strayed, excused>>
      /\ UNCHANGED <<log, rows, chan>> /\ Messages' = Messages
  BY DEF CreateSelected, Empty, server, Messages
<1>3. Server' /\ Steady
  BY <1>1, <1>2, ServerIdle
<1>4. Types'
  <2>1. dropped' \subseteq Messages
    BY <1>1 DEF CreateSelected, Types, PaneOK
  <2>2. <<>> \in Seq(Messages)
    OBVIOUS
  <2> QED BY <1>1, <1>2, <2>1, <2>2, BrowserTypes DEF Types, PaneOK
<1>5. Range(<<>>) = {} /\ IsInjective(<<>>)
  BY DEF Range, IsInjective
<1>6. first.at = "shown" => Due(selected)' = {}
  BY <1>2 DEF CreateSelected, Due, UnderWay, Range
<1>7. Pane'
  <2>1. Welcome' <=> Welcome
    BY <1>2 DEF Welcome
  <2>2. Welcome => first.at = "shown" /\ older.conv = selected
    BY <1>1, <1>2 DEF Pane
  <2> QED BY <1>2, <1>5, <1>6, <2>1, <2>2
          DEF Pane, NothingTwice, PaneOfSelected, DownToOldest
<1>8. FirstPage' /\ OlderPage' /\ Answer'
  BY <1>1, <1>2, <1>3, FirstKeeps, OlderKeeps, AnswerKeeps DEF Steady
<1> QED BY <1>3, <1>4, <1>7, <1>8 DEF PaneInv

LEMMA AskOlderStep ==
  ASSUME PaneInv, AskOlder
  PROVE  PaneInv'
<1>1. Types /\ Server /\ FirstPage /\ OlderPage /\ Answer /\ Pane
  BY DEF PaneInv
<1>2. /\ hasOlder /\ pane # <<>> /\ loading' = TRUE
      /\ UNCHANGED <<server, selected, pane, hasOlder, first, sent, aux>>
      /\ UNCHANGED <<log, rows, chan>> /\ Messages' = Messages
  BY DEF AskOlder, server, Messages
<1> SUFFICES ASSUME NEW x, x = Head(pane) PROVE PaneInv'
  OBVIOUS
<1>3. x \in Messages /\ x \in Range(pane) /\ log[x].created \in Nat
  <2>1. pane \in Seq(Messages)
    BY <1>1 DEF Types, PaneOK
  <2>2. 1 \in DOMAIN pane /\ x = pane[1]
    BY <1>2, <2>1, EmptySeq, LenProperties
  <2>3. x \in Range(pane)
    BY <2>2 DEF Range
  <2> QED BY <1>1, <2>3, TypeFacts
<1>4. older' = [at |-> "asked", conv |-> selected, page |-> <<>>,
                cursor |-> log[x].created, stale |-> FALSE]
  BY DEF AskOlder
<1>5. Server' /\ Steady
  BY <1>1, <1>2, ServerIdle
<1>6. /\ older'.at = "asked" /\ older'.conv = selected /\ older'.page = <<>>
      /\ older'.cursor = log[x].created /\ older'.stale = FALSE
      /\ older' \in [at : {"none", "asked", "answered"}, conv : Convs \cup {"none"},
                     cursor : Nat, page : Seq(Messages), stale : BOOLEAN]
  <2>1. <<>> \in Seq(Messages) /\ selected \in Convs
    BY <1>1 DEF Types, PaneOK
  <2> QED BY <1>3, <1>4, <2>1
<1>7. Types'
  BY <1>1, <1>2, <1>6, BrowserTypes DEF Types, PaneOK
<1>8. OlderPage'
  BY <1>2, <1>3, <1>6 DEF OlderPage, Range, IsInjective
<1>9. Pane'
  <2>1. selected \in Convs /\ Due(selected)' \subseteq Due(selected)
    BY <1>1, <1>2, <1>5, TypeFacts DEF Steady, Lasting, Due
  <2>2. \A m \in Range(pane) : Told(m) => Told(m)'
    BY <1>1, <1>5, TypeFacts DEF Steady, Lasting
  <2>3. ~strayed => first.at = "shown" /\ DownToOldest(selected, Range(pane))
    BY <1>1, <1>2 DEF Pane
  <2>4. ~strayed => \A m \in Due(selected)' : log'[m].created >= older'.cursor => m \in Range(pane)
    BY <1>2, <1>3, <1>6, <2>1, <2>3 DEF DownToOldest
  <2>5. ~strayed => DownToOldest(selected, Range(pane))'
    BY <1>2, <2>1, <2>3 DEF DownToOldest
  <2> QED BY <1>1, <1>2, <1>6, <2>2, <2>3, <2>4, <2>5
          DEF Pane, NothingTwice, PaneOfSelected, Welcome
<1>10. FirstPage' /\ Answer'
  BY <1>1, <1>2, <1>5, FirstKeeps, AnswerKeeps DEF Steady
<1> QED BY <1>5, <1>7, <1>8, <1>9, <1>10 DEF PaneInv

LEMMA AnswerOlderStep ==
  ASSUME PaneInv, AnswerOlder
  PROVE  PaneInv'
<1>1. Types /\ Server /\ FirstPage /\ OlderPage /\ Answer /\ Pane
  BY DEF PaneInv
<1>2. /\ older.at = "asked"
      /\ UNCHANGED <<server, view, first, sent, aux>>
      /\ UNCHANGED <<log, rows, chan, selected, pane, hasOlder, loading>>
      /\ Messages' = Messages
  BY DEF AnswerOlder, server, view, Messages
<1>3. PICK p \in Pages(older.conv, older.cursor) :
        older' = [older EXCEPT !.at = "answered", !.page = p]
  BY DEF AnswerOlder
<1>4. older' = [at |-> "answered", conv |-> older.conv, cursor |-> older.cursor,
                page |-> p, stale |-> older.stale]
  BY <1>1, <1>3 DEF Types
<1>5. /\ p \in Seq(Messages) /\ IsInjective(p) /\ Range(p) \subseteq Before(older.conv, older.cursor)
      /\ Latest(Range(p), Before(older.conv, older.cursor))
      /\ Len(p) # PageSize => Range(p) = Before(older.conv, older.cursor)
  BY <1>1, PagesAre
<1>6. /\ older'.at = "answered" /\ older'.conv = older.conv /\ older'.cursor = older.cursor
      /\ older'.page = p /\ older'.stale = older.stale
      /\ older' \in [at : {"none", "asked", "answered"}, conv : Convs \cup {"none"},
                     cursor : Nat, page : Seq(Messages), stale : BOOLEAN]
  BY <1>1, <1>4, <1>5 DEF Types
<1>7. Server' /\ Steady
  BY <1>1, <1>2, ServerIdle
<1>8. Types'
  BY <1>1, <1>2, <1>6, BrowserTypes DEF Types, PaneOK
<1>9. OlderPage'
  <2>1. PICK x \in Messages : log[x].created = older.cursor
    BY <1>1, <1>2 DEF OlderPage
  <2>2. ASSUME NEW m \in Range(p) PROVE log[m].conv = older.conv /\ m \in Messages /\ Told(m)'
    BY <1>1, <1>2, <1>5 DEF Before, Told, Types, PaneOK
  <2>3. ASSUME NEW m \in rows, log[m].conv = older.conv, log[m].created < older.cursor
        PROVE  /\ Len(p) # PageSize => m \in Range(p)
               /\ \A y \in Range(p) : log[m].created > log[y].created => m \in Range(p)
    <3>1. m \in Before(older.conv, older.cursor)
      BY <2>3 DEF Before
    <3>2. ASSUME NEW y \in Range(p), log[m].created > log[y].created, m \notin Range(p)
          PROVE  FALSE
      <4>1. log[y].created >= log[m].created
        BY <1>5, <3>1, <3>2 DEF Latest
      <4>2. m \in Messages /\ y \in Messages
        BY <1>1, <2>2, TypeFacts
      <4> QED BY <1>1, <3>2, <4>1, <4>2, TypeFacts
    <3> QED BY <1>5, <3>1, <3>2
  <2> QED BY <1>2, <1>5, <1>6, <2>1, <2>2, <2>3 DEF OlderPage
<1>10. Pane'
  <2>1. selected \in Convs /\ Due(selected)' \subseteq Due(selected)
    BY <1>1, <1>2, <1>7, TypeFacts DEF Steady, Lasting, Due
  <2>2. \A m \in Range(pane) : Told(m) => Told(m)'
    BY <1>1, <1>7, TypeFacts DEF Steady, Lasting
  <2>3. Welcome' <=> Welcome
    BY <1>2, <1>6 DEF Welcome
  <2> QED BY <1>1, <1>2, <1>6, <2>1, <2>2, <2>3
          DEF Pane, NothingTwice, PaneOfSelected, DownToOldest
<1>11. FirstPage' /\ Answer'
  BY <1>1, <1>2, <1>7, FirstKeeps, AnswerKeeps DEF Steady
<1> QED BY <1>7, <1>8, <1>9, <1>10, <1>11 DEF PaneInv

LEMMA FailOlderStep ==
  ASSUME PaneInv, FailOlder
  PROVE  PaneInv'
<1>1. Types /\ Server /\ FirstPage /\ OlderPage /\ Answer /\ Pane
  BY DEF PaneInv
<1>2. /\ loading' = FALSE
      /\ older' = NoOlder
      /\ UNCHANGED <<server, selected, pane, hasOlder, first, sent, aux>>
      /\ UNCHANGED <<log, rows, chan>> /\ Messages' = Messages
  BY DEF FailOlder, server, Messages
<1>3. /\ older'.at = "none" /\ older'.page = <<>>
      /\ older' \in [at : {"none", "asked", "answered"}, conv : Convs \cup {"none"},
                     cursor : Nat, page : Seq(Messages), stale : BOOLEAN]
  <2>1. <<>> \in Seq(Messages)
    OBVIOUS
  <2> QED BY <1>2, <2>1 DEF NoOlder
<1>4. Server' /\ Steady
  BY <1>1, <1>2, ServerIdle
<1>5. Types'
  BY <1>1, <1>2, <1>3, BrowserTypes DEF Types, PaneOK
<1>6. OlderPage'
  BY <1>3 DEF OlderPage, Range, IsInjective
<1>7. Pane'
  <2>1. selected \in Convs /\ Due(selected)' \subseteq Due(selected)
    BY <1>1, <1>2, <1>4, TypeFacts DEF Steady, Lasting, Due
  <2>2. \A m \in Range(pane) : Told(m) => Told(m)'
    BY <1>1, <1>4, TypeFacts DEF Steady, Lasting
  <2> QED BY <1>1, <1>2, <1>3, <2>1, <2>2
          DEF Pane, NothingTwice, PaneOfSelected, DownToOldest, Welcome
<1>8. FirstPage' /\ Answer'
  BY <1>1, <1>2, <1>4, FirstKeeps, AnswerKeeps DEF Steady
<1> QED BY <1>4, <1>5, <1>6, <1>7, <1>8 DEF PaneInv

(* What a pane that is injective is with a page put before it.             *)
LEMMA Concatenated ==
  ASSUME NEW S, NEW s \in Seq(S), NEW t \in Seq(S), IsInjective(s), IsInjective(t),
         Range(s) \cap Range(t) = {}
  PROVE  s \o t \in Seq(S) /\ IsInjective(s \o t) /\ Range(s \o t) = Range(s) \cup Range(t)
<1> SUFFICES ASSUME NEW k, k = Len(s), NEW l, l = Len(t), NEW u, u = s \o t
             PROVE  u \in Seq(S) /\ IsInjective(u) /\ Range(u) = Range(s) \cup Range(t)
  OBVIOUS
<1>1. k \in Nat /\ l \in Nat /\ DOMAIN s = 1..k /\ DOMAIN t = 1..l
  BY LenProperties
<1>2. /\ u \in Seq(S) /\ DOMAIN u = 1..k + l
      /\ \A i \in 1..k : u[i] = s[i]
      /\ \A i \in k + 1..k + l : u[i] = t[i - k]
  BY <1>1, ConcatProperties, LenProperties
<1>3. Range(u) = Range(s) \cup Range(t)
  <2>1. ASSUME NEW i \in 1..k + l PROVE u[i] \in Range(s) \cup Range(t)
    <3>1. CASE i \in 1..k
      BY <1>1, <1>2, <3>1 DEF Range
    <3>2. CASE i \in k + 1..k + l
      <4>1. i - k \in 1..l
        BY <1>1, <3>2
      <4> QED BY <1>1, <1>2, <3>2, <4>1 DEF Range
    <3> QED BY <1>1, <3>1, <3>2
  <2>2. ASSUME NEW i \in 1..k PROVE s[i] \in Range(u)
    BY <1>1, <1>2 DEF Range
  <2>3. ASSUME NEW i \in 1..l PROVE t[i] \in Range(u)
    <3>1. i + k \in k + 1..k + l /\ (i + k) - k = i /\ i + k \in 1..k + l
      BY <1>1
    <3>2. u[i + k] = t[i]
      BY <1>2, <3>1
    <3> QED BY <1>2, <3>1, <3>2 DEF Range
  <2> QED BY <1>1, <1>2, <2>1, <2>2, <2>3 DEF Range
<1>4. ASSUME NEW i \in 1..k + l, NEW j \in 1..k + l, u[i] = u[j]
      PROVE  i = j
  <2>1. CASE i \in 1..k /\ j \in 1..k
    BY <1>1, <1>2, <1>4, <2>1 DEF IsInjective
  <2>2. CASE i \in k + 1..k + l /\ j \in k + 1..k + l
    <3>1. i - k \in 1..l /\ j - k \in 1..l /\ t[i - k] = t[j - k]
      BY <1>1, <1>2, <1>4, <2>2
    <3>2. i - k = j - k
      BY <1>1, <3>1 DEF IsInjective
    <3> QED BY <1>1, <2>2, <3>2
  <2>3. ASSUME NEW a \in 1..k, NEW b \in k + 1..k + l, u[a] = u[b] PROVE FALSE
    <3>1. b - k \in 1..l /\ s[a] = t[b - k]
      BY <1>1, <1>2, <2>3
    <3> QED BY <1>1, <3>1 DEF Range
  <2> QED BY <1>1, <1>4, <2>1, <2>2, <2>3
<1> QED BY <1>2, <1>3, <1>4 DEF IsInjective

LEMMA ShowOlderStep ==
  ASSUME PaneInv, ShowOlder
  PROVE  PaneInv'
<1>1. Types /\ Server /\ FirstPage /\ OlderPage /\ Answer /\ Pane
  BY DEF PaneInv
<1>2. /\ older.at = "answered" /\ hasOlder' = (Len(older.page) = PageSize) /\ loading' = FALSE
      /\ strayed' = (strayed \/ older.stale) /\ older' = NoOlder
      /\ UNCHANGED <<server, selected, first, sent, excused, dropped>>
      /\ UNCHANGED <<log, rows, chan>> /\ Messages' = Messages
  BY DEF ShowOlder, server, Messages
<1> SUFFICES ASSUME NEW p, p = Without(older.page, Range(pane)) PROVE PaneInv'
  OBVIOUS
<1>3. pane' = p \o pane
  BY DEF ShowOlder, Prepend
<1>4. /\ pane' \in Seq(Messages) /\ IsInjective(pane')
      /\ Range(pane') = Range(older.page) \cup Range(pane)
  <2>1. older.page \in Seq(Messages) /\ pane \in Seq(Messages)
    BY <1>1 DEF Types, PaneOK
  <2>2. p \in Seq(Messages) /\ IsInjective(p) /\ Range(p) = Range(older.page) \ Range(pane)
    BY <1>1, <2>1, WithoutKeeps DEF OlderPage
  <2>3. IsInjective(pane)
    BY <1>1 DEF Pane, NothingTwice
  <2> QED BY <1>3, <2>1, <2>2, <2>3, Concatenated
<1>5. Server' /\ Steady
  BY <1>1, <1>2, ServerIdle
<1>6. /\ older'.at = "none" /\ older'.page = <<>>
      /\ older' \in [at : {"none", "asked", "answered"}, conv : Convs \cup {"none"},
                     cursor : Nat, page : Seq(Messages), stale : BOOLEAN]
  <2>1. <<>> \in Seq(Messages)
    OBVIOUS
  <2> QED BY <1>2, <2>1 DEF NoOlder
<1>7. Types'
  <2>1. hasOlder' \in BOOLEAN /\ strayed' \in BOOLEAN
    BY <1>1, <1>2 DEF Types, PaneOK
  <2> QED BY <1>1, <1>2, <1>4, <1>6, <2>1, BrowserTypes DEF Types, PaneOK
<1>8. OlderPage'
  BY <1>6 DEF OlderPage, Range, IsInjective
<1>9. Pane'
  <2>1. CASE strayed'
    BY <1>4, <2>1 DEF Pane, NothingTwice, PaneOfSelected
  <2>2. CASE ~strayed'
    <3>1. ~strayed /\ Welcome
      BY <1>2, <2>2 DEF Welcome
    <3>2. /\ older.conv = selected /\ first.at = "shown"
          /\ DownToOldest(selected, Range(pane))
          /\ \A m \in Due(selected) : log[m].created >= older.cursor => m \in Range(pane)
      BY <1>1, <3>1 DEF Pane
    <3>3. selected \in Convs /\ Due(selected)' \subseteq Due(selected)
      BY <1>1, <1>2, <1>5, TypeFacts DEF Steady, Lasting, Due
    <3>4. \A m \in Range(pane') : log'[m].conv = selected' /\ Told(m)'
      <4>1. \A m \in Range(pane') : log[m].conv = selected /\ Told(m) /\ m \in Messages
        BY <1>1, <1>4, <3>1, <3>2, TypeFacts DEF OlderPage, Pane, PaneOfSelected
      <4> QED BY <1>2, <1>5, <4>1 DEF Steady, Lasting
    <3>5. older.cursor \in Nat
      BY <1>1 DEF Types
    <3>6. ASSUME NEW m \in Due(selected), m \notin Range(pane)
          PROVE  /\ m \in rows /\ m \in Messages /\ Alone(m) /\ log[m].conv = older.conv
                 /\ log[m].created < older.cursor
      <4>1. m \in rows /\ m \in Messages /\ Alone(m) /\ log[m].conv = older.conv
        BY <1>1, <3>2, TypeFacts DEF Due
      <4>2. ~(log[m].created >= older.cursor) /\ log[m].created \in Nat
        BY <1>1, <3>2, <3>6, <4>1, TypeFacts
      <4> QED BY <3>5, <4>1, <4>2
    <3>7. ASSUME NEW m \in Due(selected), NEW x \in Range(pane'),
                 log[m].created >= log[x].created
          PROVE  m \in Range(pane')
      <4> SUFFICES ASSUME m \notin Range(pane) PROVE m \in Range(older.page)
        BY <1>4
      <4>1. x \in Range(older.page) /\ log[x].conv = older.conv /\ x \in Messages
        BY <1>1, <1>4, <3>2, <3>7, TypeFacts DEF DownToOldest, OlderPage
      <4>2. log[m].created > log[x].created => m \in Range(older.page)
        BY <1>1, <1>2, <3>6, <4>1 DEF OlderPage
      <4>3. log[m].created = log[x].created => m = x
        BY <3>6, <4>1 DEF Alone
      <4>4. log[m].created > log[x].created \/ log[m].created = log[x].created
        BY <1>1, <3>6, <3>7, <4>1, TypeFacts
      <4> QED BY <4>1, <4>2, <4>3, <4>4
    <3>8. ~hasOlder' => Due(selected) \subseteq Range(pane')
      BY <1>1, <1>2, <1>4, <3>6 DEF OlderPage
    <3>9. DownToOldest(selected, Range(pane))'
      BY <1>2, <3>3, <3>7 DEF DownToOldest
    <3> QED BY <1>2, <1>4, <1>6, <3>2, <3>3, <3>4, <3>8, <3>9
            DEF Pane, NothingTwice, PaneOfSelected, Welcome
  <2> QED BY <2>1, <2>2
<1>10. FirstPage' /\ Answer'
  BY <1>1, <1>2, <1>5, FirstKeeps, AnswerKeeps DEF Steady
<1> QED BY <1>5, <1>7, <1>8, <1>9, <1>10 DEF PaneInv

(* A message put at the bottom of the pane, unless it is there.            *)
LEMMA AddKeeps ==
  ASSUME NEW S, pane \in Seq(S), IsInjective(pane), NEW m \in S
  PROVE  Add(m) \in Seq(S) /\ IsInjective(Add(m)) /\ Range(Add(m)) = Range(pane) \cup {m}
<1>1. CASE m \in Range(pane)
  BY <1>1 DEF Add
<1>2. CASE m \notin Range(pane)
  <2> SUFFICES ASSUME NEW p, p = Append(pane, m), NEW k, k = Len(pane)
               PROVE  p \in Seq(S) /\ IsInjective(p) /\ Range(p) = Range(pane) \cup {m}
    BY <1>2 DEF Add
  <2>1. k \in Nat /\ DOMAIN pane = 1..k
    BY LenProperties
  <2>2. /\ p \in Seq(S) /\ DOMAIN p = 1..k + 1 /\ p[k + 1] = m
        /\ \A i \in 1..k : p[i] = pane[i]
    BY <2>1, AppendProperties, LenProperties
  <2>3. Range(p) = Range(pane) \cup {m}
    <3>1. ASSUME NEW i \in 1..k + 1 PROVE p[i] \in Range(pane) \cup {m}
      <4>1. i \in 1..k \/ i = k + 1
        BY <2>1
      <4> QED BY <2>1, <2>2, <4>1 DEF Range
    <3>2. 1..k \subseteq 1..k + 1 /\ k + 1 \in 1..k + 1
      BY <2>1
    <3> QED BY <2>1, <2>2, <3>1, <3>2 DEF Range
  <2>4. ASSUME NEW i \in 1..k + 1, NEW j \in 1..k + 1, p[i] = p[j] PROVE i = j
    <3>1. (i \in 1..k \/ i = k + 1) /\ (j \in 1..k \/ j = k + 1)
      BY <2>1
    <3>2. \A l \in 1..k : p[l] # m
      BY <1>2, <2>1, <2>2 DEF Range
    <3> QED BY <2>1, <2>2, <2>4, <3>1, <3>2 DEF IsInjective
  <2> QED BY <2>2, <2>3, <2>4 DEF IsInjective
<1> QED BY <1>1, <1>2

LEMMA AskSendStep ==
  ASSUME PaneInv, AskSend
  PROVE  PaneInv'
<1>1. Types /\ Server /\ FirstPage /\ OlderPage /\ Answer /\ Pane
  BY DEF PaneInv
<1>2. /\ sent' = [at |-> "asked", conv |-> selected, msg |-> 0]
      /\ UNCHANGED <<server, view, first, older, aux>>
      /\ UNCHANGED <<log, rows, chan, selected, pane, hasOlder, loading>>
  BY DEF AskSend, server, view
<1>3. /\ sent'.at = "asked" /\ sent'.conv \in Convs
      /\ sent' \in [at : {"none", "asked", "answered"}, conv : Convs \cup {"none"}, msg : Nat]
  BY <1>1, <1>2 DEF Types, PaneOK
<1>4. Server' /\ Steady
  BY <1>1, <1>2, ServerIdle
<1>5. Types'
  BY <1>1, <1>2, <1>3, BrowserTypes DEF Types, PaneOK
<1>6. Answer'
  BY <1>3 DEF Answer
<1>7. FirstPage' /\ OlderPage' /\ Pane'
  BY <1>1, <1>2, <1>4, FirstKeeps, OlderKeeps, PaneKeeps DEF Steady
<1> QED BY <1>4, <1>5, <1>6, <1>7 DEF PaneInv

LEMMA FailSendStep ==
  ASSUME PaneInv, FailSend
  PROVE  PaneInv'
<1>1. Types /\ Server /\ FirstPage /\ OlderPage /\ Answer /\ Pane
  BY DEF PaneInv
<1>2. /\ sent' = [at |-> "none", conv |-> "none", msg |-> 0]
      /\ UNCHANGED <<server, view, first, older, aux>>
      /\ UNCHANGED <<log, rows, chan, selected, pane, hasOlder, loading>>
  BY DEF FailSend, NotSent, server, view
<1>3. /\ sent'.at = "none"
      /\ sent' \in [at : {"none", "asked", "answered"}, conv : Convs \cup {"none"}, msg : Nat]
  BY <1>2
<1>4. Server' /\ Steady
  BY <1>1, <1>2, ServerIdle
<1>5. Types'
  BY <1>1, <1>2, <1>3, BrowserTypes DEF Types, PaneOK
<1>6. Answer'
  BY <1>3 DEF Answer
<1>7. FirstPage' /\ OlderPage' /\ Pane'
  BY <1>1, <1>2, <1>4, FirstKeeps, OlderKeeps, PaneKeeps DEF Steady
<1> QED BY <1>4, <1>5, <1>6, <1>7 DEF PaneInv

LEMMA AnswerSendStep ==
  ASSUME PaneInv, AnswerSend
  PROVE  PaneInv'
<1>1. Types /\ Server /\ FirstPage /\ OlderPage /\ Answer /\ Pane
  BY DEF PaneInv
<1> SUFFICES ASSUME NEW n, n = Len(log) + 1, NEW c, c = sent.conv PROVE PaneInv'
  OBVIOUS
<1>2. /\ sent.at = "asked" /\ c \in Convs /\ Store(c)
      /\ UNCHANGED <<view, first, older, aux>>
      /\ UNCHANGED <<selected, pane, hasOlder, loading>>
  BY <1>1 DEF AnswerSend, Types, view
<1>3. sent' = [at |-> "answered", conv |-> c, msg |-> n]
  <2>1. sent' = [sent EXCEPT !.at = "answered", !.msg = n]
    BY DEF AnswerSend
  <2> QED BY <1>1, <2>1 DEF Types
<1>4. /\ Server' /\ Steady /\ n \in Messages' /\ log'[n].conv = c /\ n \in rows'
      /\ log' \in Seq([conv : Convs, created : Nat \ {0}])
  BY <1>1, <1>2, StoreKeeps
<1>5. sent'.at = "answered" /\ sent'.conv = c /\ sent'.msg = n /\ n \in Nat
  BY <1>1, <1>3, TypeFacts
<1>6. Types'
  <2>1. Messages \subseteq Messages'
    BY <1>4 DEF Steady, Lasting, Grows
  <2>2. ChannelsOK'
    BY <1>1, <1>2, <1>4, <2>1, ChannelsGrow DEF Types, PaneOK, ChannelsOK, Store
  <2>3. rows' \subseteq Messages' /\ excused' \cup dropped' \subseteq Messages'
    BY <1>1, <1>2, <1>4, <2>1 DEF Types, PaneOK, Store
  <2>4. pane' \in Seq(Messages')
    BY <1>1, <1>2, <2>1, SeqGrows DEF Types, PaneOK
  <2>5. sent' \in [at : {"answered"}, conv : Convs, msg : Messages'] /\ sent'.msg \in Nat
    BY <1>2, <1>3, <1>4, <1>5
  <2> QED BY <1>1, <1>2, <1>4, <2>1, <2>2, <2>3, <2>4, <2>5, ServerTypes
<1>7. Answer'
  <2>1. Told(n)'
    BY <1>4 DEF Told
  <2> QED BY <1>4, <1>5, <2>1 DEF Answer
<1>8. FirstPage' /\ OlderPage' /\ Pane'
  BY <1>1, <1>2, <1>4, FirstKeeps, OlderKeeps, PaneKeeps DEF Steady
<1> QED BY <1>4, <1>6, <1>7, <1>8 DEF PaneInv

LEMMA ShowSentStep ==
  ASSUME PaneInv, ShowSent
  PROVE  PaneInv'
<1>1. Types /\ Server /\ FirstPage /\ OlderPage /\ Answer /\ Pane
  BY DEF PaneInv
<1> SUFFICES ASSUME NEW s, s = sent.msg PROVE PaneInv'
  OBVIOUS
<1>2. /\ sent.at = "answered" /\ pane' = Add(s) /\ strayed' = (strayed \/ Late)
      /\ sent' = [at |-> "none", conv |-> "none", msg |-> 0]
      /\ UNCHANGED <<server, selected, hasOlder, loading, first, older, excused,
                  dropped>>
      /\ UNCHANGED <<log, rows, chan>> /\ Messages' = Messages
  BY DEF ShowSent, NotSent, server, Messages
<1>3. s \in Messages /\ log[s].conv = sent.conv /\ Told(s)
  BY <1>1, <1>2 DEF Answer
<1>4. /\ pane' \in Seq(Messages) /\ IsInjective(pane') /\ Range(pane') = Range(pane) \cup {s}
  BY <1>1, <1>2, <1>3, AddKeeps DEF Types, PaneOK, Pane, NothingTwice
<1>5. Server' /\ Steady
  BY <1>1, <1>2, ServerIdle
<1>6. /\ sent'.at = "none"
      /\ sent' \in [at : {"none", "asked", "answered"}, conv : Convs \cup {"none"}, msg : Nat]
  BY <1>2
<1>7. Types'
  <2>1. strayed' \in BOOLEAN
    BY <1>1, <1>2 DEF Types, PaneOK, Late
  <2> QED BY <1>1, <1>2, <1>4, <1>6, <2>1, BrowserTypes DEF Types, PaneOK
<1>8. Answer'
  BY <1>6 DEF Answer
<1>9. Pane'
  <2>1. CASE strayed'
    BY <1>4, <2>1 DEF Pane, NothingTwice, PaneOfSelected
  <2>2. CASE ~strayed'
    <3>1. /\ ~strayed /\ sent.conv = selected
          /\ hasOlder => \A n \in Messages : ~(n > s /\ log[n].conv = sent.conv)
      BY <1>2, <2>2 DEF Late
    <3>2. selected \in Convs /\ Due(selected)' \subseteq Due(selected)
      BY <1>1, <1>2, <1>5, TypeFacts DEF Steady, Lasting, Due
    <3>3. \A m \in Range(pane') : log'[m].conv = selected' /\ Told(m)'
      <4>1. \A m \in Range(pane') : log[m].conv = selected /\ Told(m) /\ m \in Messages
        BY <1>1, <1>3, <1>4, <3>1, TypeFacts DEF Pane, PaneOfSelected
      <4> QED BY <1>2, <1>5, <4>1 DEF Steady, Lasting
    <3>4. ASSUME first.at = "shown", NEW m \in Due(selected), NEW x \in Range(pane'),
                 log[m].created >= log[x].created
          PROVE  m \in Range(pane')
      <4>1. CASE x \in Range(pane) \/ ~hasOlder
        BY <1>1, <1>4, <3>1, <3>4, <4>1 DEF Pane, DownToOldest
      <4>2. CASE x = s /\ hasOlder
        <5>1. m \in Messages /\ Alone(m) /\ log[m].conv = selected
          BY <1>1, TypeFacts DEF Due
        <5>2. m <= s
          BY <1>1, <1>3, <3>1, <4>2, <5>1, TypeFacts
        <5>3. log[m].created <= log[s].created
          BY <1>1, <1>3, <5>1, <5>2 DEF Server
        <5>4. log[m].created = log[s].created
          BY <1>1, <1>3, <3>4, <4>2, <5>1, <5>3, TypeFacts
        <5>5. m = s
          BY <1>3, <3>1, <5>1, <5>4 DEF Alone
        <5> QED BY <1>4, <5>5
      <4> QED BY <1>4, <4>1, <4>2
    <3>5. Welcome' <=> Welcome
      BY <1>2 DEF Welcome
    <3>6. first.at = "shown" => DownToOldest(selected, Range(pane))'
      BY <1>2, <3>2, <3>4 DEF DownToOldest
    <3> QED BY <1>1, <1>2, <1>4, <3>1, <3>2, <3>3, <3>5, <3>6
            DEF Pane, NothingTwice, PaneOfSelected
  <2> QED BY <2>1, <2>2
<1>10. FirstPage' /\ OlderPage'
  BY <1>1, <1>2, <1>5, FirstKeeps, OlderKeeps DEF Steady
<1> QED BY <1>5, <1>7, <1>8, <1>9, <1>10 DEF PaneInv

(* An event heard: one that a page or an answer on its way contradicts has *)
(* its message excused, so what that page promises stays.                  *)
LEMMA HearStep ==
  ASSUME PaneInv, NEW c \in Convs, Hear(c)
  PROVE  PaneInv'
<1>1. Types /\ Server /\ FirstPage /\ OlderPage /\ Answer /\ Pane
  BY DEF PaneInv
<1> SUFFICES ASSUME NEW e, e = Head(chan[c]) PROVE PaneInv'
  OBVIOUS
<1>2. /\ Takes(c)
      /\ c # selected => pane' = pane
      /\ c = selected /\ e.kind = "created" => pane' = Add(e.msg)
      /\ c = selected /\ e.kind # "created" => pane' = Without(pane, {e.msg})
      /\ excused' = IF Meets(c, e) THEN excused \cup {e.msg} ELSE excused
      /\ UNCHANGED <<log, rows, selected, hasOlder, loading, first, older, sent, strayed,
                     dropped>>
      /\ Messages' = Messages
  BY DEF Hear, Takes, Messages
<1>3. /\ Server' /\ Grows /\ e.msg \in Messages
      /\ \A d \in Convs : \A m \in Due(d)' :
           m \in Due(d) \/ (d = c /\ e.kind = "created" /\ m = e.msg /\ m \notin excused')
      /\ \A m \in Messages :
           Told(m) => Told(m)' \/ (e.kind = "deleted" /\ m = e.msg /\ m \notin excused')
  BY <1>1, <1>2, TakingKeeps
<1>4. /\ e.kind \in {"created", "deleted"} /\ Ordered(c, 1, e)
      /\ \A l, n : Behind(c, 1, l, n) => UnderWay(c, l, n)'
  BY <1>1, <1>2, Taken DEF Server, InOrder
<1>5. selected \in Convs /\ \A m \in Due(selected)' : 
        m \in Due(selected) \/ (selected = c /\ e.kind = "created" /\ m = e.msg /\ m \notin excused')
  BY <1>1, <1>2, <1>3, TypeFacts DEF Due
<1>6. /\ pane \in Seq(Messages) /\ IsInjective(pane)
      /\ pane' \in Seq(Messages) /\ IsInjective(pane')
  <2>1. pane \in Seq(Messages) /\ IsInjective(pane)
    BY <1>1 DEF Types, PaneOK, Pane, NothingTwice
  <2> QED BY <1>2, <1>3, <2>1, AddKeeps, WithoutKeeps
<1>7. Types'
  <2>1. ChannelsOK'
    BY <1>1, <1>2, ChannelsGrow DEF Types, PaneOK, ChannelsOK
  <2>2. rows' \subseteq Messages' /\ excused' \cup dropped' \subseteq Messages' /\ pane' \in Seq(Messages')
        /\ log' \in Seq([conv : Convs, created : Nat \ {0}])
    BY <1>1, <1>2, <1>3, <1>6 DEF Types, PaneOK
  <2> QED BY <1>1, <1>2, <2>1, <2>2, ServerTypes
<1>8. FirstPage'
  <2>1. \A m \in Range(first.page) : log[m].conv = selected /\ Told(m)'
    BY <1>1, <1>2, <1>3, TypeFacts DEF FirstPage, Meets
  <2>2. first.at = "answered" =>
          \A m \in Due(selected)' : m \in Due(selected) \/ m \in Range(first.page)
    BY <1>2, <1>5 DEF Meets
  <2> QED BY <1>1, <1>2, <2>1, <2>2 DEF FirstPage, DownToOldest
<1>9. OlderPage'
  <2>1. \A m \in Range(older.page) : log[m].conv = older.conv /\ Told(m)'
    BY <1>1, <1>2, <1>3, TypeFacts DEF OlderPage, Meets
  <2> QED BY <1>1, <1>2, <2>1 DEF OlderPage
<1>10. Answer'
  BY <1>1, <1>2, <1>3 DEF Answer, Meets
<1>11. Pane'
  <2>1. CASE strayed
    BY <1>2, <1>6, <2>1 DEF Pane, NothingTwice, PaneOfSelected
  <2>2. CASE ~strayed
    <3>1. /\ \A m \in Range(pane) : log[m].conv = selected /\ Told(m) /\ m \in Messages
          /\ hasOlder \/ Welcome => first.at = "shown"
          /\ Welcome => /\ older.conv = selected
                        /\ \A m \in Due(selected) :
                             log[m].created >= older.cursor => m \in Range(pane)
          /\ first.at = "shown" =>
               /\ DownToOldest(selected, Range(pane))
               /\ ~hasOlder => Due(selected) \subseteq Range(pane)
      BY <1>1, <2>2, TypeFacts DEF Pane, PaneOfSelected
    <3>2. \A m \in Range(pane') : log[m].conv = selected /\ Told(m)'
      <4>1. CASE c # selected
        BY <1>2, <1>3, <1>4, <3>1, <4>1 DEF Ordered
      <4>2. CASE c = selected /\ e.kind = "created"
        <5>1. Range(pane') = Range(pane) \cup {e.msg}
          BY <1>2, <1>3, <1>6, <4>2, AddKeeps
        <5>2. log[e.msg].conv = selected /\ Told(e.msg)'
          BY <1>2, <1>4, <4>2 DEF Ordered, Told
        <5> QED BY <1>3, <3>1, <4>2, <5>1, <5>2
      <4>3. CASE c = selected /\ e.kind = "deleted"
        <5>1. Range(pane') = Range(pane) \ {e.msg}
          BY <1>2, <1>6, <4>3, WithoutKeeps
        <5> QED BY <1>3, <3>1, <5>1
      <4> QED BY <1>4, <4>1, <4>2, <4>3
    <3>3. \A m \in Due(selected)' : m \in Range(pane) => m \in Range(pane')
      <4>1. CASE c # selected
        BY <1>2, <4>1
      <4>2. CASE c = selected /\ e.kind = "created"
        BY <1>2, <1>3, <1>6, <4>2, AddKeeps
      <4>3. CASE c = selected /\ e.kind = "deleted"
        <5>1. Range(pane') = Range(pane) \ {e.msg}
          BY <1>2, <1>6, <4>3, WithoutKeeps
        <5>2. \A m \in Due(selected)' : m \in rows
          BY <1>2 DEF Due
        <5> QED BY <1>4, <4>3, <5>1, <5>2 DEF Ordered
      <4> QED BY <1>4, <4>1, <4>2, <4>3
    <3>4. \A m \in Due(selected)' : m \in Due(selected) \/ m \in Range(pane')
      <4> SUFFICES ASSUME NEW m \in Due(selected)', m \notin Due(selected)
                   PROVE  m \in Range(pane')
        OBVIOUS
      <4>1. selected = c /\ e.kind = "created" /\ m = e.msg
        BY <1>5
      <4> QED BY <1>2, <1>3, <1>6, <4>1, AddKeeps
    <3>5. ASSUME first.at = "shown", NEW m \in Due(selected)', NEW x \in Range(pane'),
                 log[m].created >= log[x].created
          PROVE  m \in Range(pane')
      <4>1. CASE m \notin Due(selected)
        BY <3>4, <4>1
      <4>2. CASE m \in Due(selected) /\ x \in Range(pane)
        BY <3>1, <3>3, <3>5, <4>2 DEF DownToOldest
      <4>3. CASE m \in Due(selected) /\ x \notin Range(pane)
        <5>1. c = selected /\ e.kind = "created" /\ x = e.msg
              /\ Range(pane') = Range(pane) \cup {e.msg}
          <6>1. c = selected /\ e.kind = "created"
            BY <1>2, <1>4, <1>6, <4>3, WithoutKeeps
          <6> QED BY <1>2, <1>3, <1>6, <4>3, <6>1, AddKeeps
        <5>2. m \in Messages /\ Alone(m) /\ log[m].conv = selected
              /\ ~UnderWay(c, "created", m)'
          BY <1>1, <1>2, <4>3, <5>1, TypeFacts DEF Due
        <5>3. m <= x
          <6>1. ~(m > x)
            BY <1>4, <5>1, <5>2 DEF Ordered
          <6> QED BY <1>1, <1>3, <5>1, <5>2, <6>1, TypeFacts
        <5>4. log[m].created <= log[x].created /\ log[x].conv = selected
          BY <1>1, <1>3, <1>4, <5>1, <5>2, <5>3 DEF Server, Ordered
        <5>5. log[m].created = log[x].created
          BY <1>1, <1>3, <3>5, <5>1, <5>2, <5>4, TypeFacts
        <5>6. m = x
          BY <1>3, <5>1, <5>2, <5>4, <5>5 DEF Alone
        <5> QED BY <5>6
      <4> QED BY <4>1, <4>2, <4>3
    <3>6. Welcome' <=> Welcome
      BY <1>2 DEF Welcome
    <3>7. first.at = "shown" => DownToOldest(selected, Range(pane))'
      BY <1>2, <3>5 DEF DownToOldest
    <3>8. Welcome => \A m \in Due(selected)' :
                       log[m].created >= older.cursor => m \in Range(pane')
      BY <3>1, <3>3, <3>4
    <3>9. first.at = "shown" /\ ~hasOlder => Due(selected)' \subseteq Range(pane')
      BY <3>1, <3>3, <3>4
    <3> QED BY <1>2, <1>6, <3>1, <3>2, <3>6, <3>7, <3>8, <3>9
            DEF Pane, NothingTwice, PaneOfSelected
  <2> QED BY <2>1, <2>2
<1> QED BY <1>3, <1>7, <1>8, <1>9, <1>10, <1>11 DEF PaneInv

LEMMA PaneStep == PaneInv /\ [PaneNext]_paneVars => PaneInv'
<1> SUFFICES ASSUME PaneInv, [PaneNext]_paneVars PROVE PaneInv'
  OBVIOUS
<1>1. CASE \E c \in Convs : Send(c) \/ Select(c) \/ Hear(c) \/ Lose(c)
  BY <1>1, SendStep, SelectStep, HearStep, LoseStep
<1>2. CASE \E m \in rows : Delete(m)
  BY <1>2, DeleteStep
<1>3. CASE AnswerFirst \/ ShowFirst \/ FailFirst
  BY <1>3, AnswerFirstStep, ShowFirstStep, FailFirstStep
<1>4. CASE AskOlder \/ AnswerOlder \/ ShowOlder \/ FailOlder
  BY <1>4, AskOlderStep, AnswerOlderStep, ShowOlderStep, FailOlderStep
<1>5. CASE AskSend \/ AnswerSend \/ ShowSent \/ FailSend
  BY <1>5, AskSendStep, AnswerSendStep, ShowSentStep, FailSendStep
<1>6. CASE CreateSelected
  BY <1>6, CreateSelectedStep
<1>7. CASE UNCHANGED paneVars
  BY <1>7, StutterStep
<1> QED BY <1>1, <1>2, <1>3, <1>4, <1>5, <1>6, <1>7 DEF PaneNext

(* The invariant holds in every state.                                     *)
LEMMA PaneInvariance == PaneSpec => []PaneInv
<1> QED BY InitHolds, PaneStep, PTL DEF PaneSpec

(* PaneOK in every state: the pane and the requests name messages that the *)
(* server has stored at some time, and a request that is not under way     *)
(* carries nothing (App.tsx:305-353, 1149-1196, 1278-1311).                *)
THEOREM PaneWellFormed == PaneSpec => []PaneOK
<1>1. PaneInv => PaneOK
  BY DEF PaneInv, Types
<1> QED BY <1>1, PaneInvariance, PTL

(* The pane shows no message twice, in whatever order answers and events   *)
(* come: a page leaves out what is shown, and a message is added once      *)
(* (App.tsx:651-660, 1140-1146, 1177-1185).                                *)
THEOREM PaneShowsNothingTwice == PaneSpec => []NothingTwice
<1>1. PaneInv => NothingTwice
  BY DEF PaneInv, Pane
<1> QED BY <1>1, PaneInvariance, PTL

(* Only an answer to an older page or to a message sent that comes after   *)
(* the selection changed brings a message of another conversation in       *)
(* (App.tsx:1172-1185, 1296-1297).                                         *)
THEOREM StraysCameLate == PaneSpec => []PaneOfSelected
<1>1. PaneInv => PaneOfSelected
  BY DEF PaneInv, Pane
<1> QED BY <1>1, PaneInvariance, PTL

(* The pane is a true copy once it is loaded and nothing is under way: of  *)
(* the messages with a microsecond of their own whose event neither met an *)
(* answer on its way nor was lost, it shows exactly those that are stored  *)
(* (App.tsx:330, 642-708, 1173; message_repository.go:64-70), but for what *)
(* there was when the user created the selected conversation again, which  *)
(* empties the pane and asks for nothing (App.tsx:353, 1244-1249).         *)
THEOREM PaneShowsWhatIsStored == PaneSpec => []PaneIsTrue
<1>1. PaneInv => PaneIsTrue
  <2> SUFFICES ASSUME PaneInv, Quiet, ~strayed, NEW m \in Messages \ excused,
                      log[m].conv = selected, Alone(m)
               PROVE  /\ m \in Range(pane) => m \in rows
                      /\ m \in rows => m \in Range(pane) \cup dropped
    BY DEF PaneIsTrue
  <2>1. Pane
    BY DEF PaneInv
  <2>2. \A k : ~UnderWay(selected, k, m)
    BY DEF Quiet, UnderWay
  <2>3. ASSUME m \in Range(pane) PROVE m \in rows
    BY <2>1, <2>2, <2>3 DEF Pane, Told
  <2>4. ASSUME m \in rows \ dropped PROVE m \in Range(pane)
    <3>1. m \in Due(selected)
      BY <2>2, <2>4 DEF Due
    <3> QED BY <2>1, <3>1 DEF Pane, Quiet
  <2> QED BY <2>3, <2>4
<1> QED BY <1>1, PaneInvariance, PTL

-----------------------------------------------------------------------------
(* A pane without messages: whatever is due of its selection was shown, or *)
(* would have been, below one that has been deleted.                       *)
Emptied == first.at = "shown" /\ pane = <<>> /\ ~strayed =>
             \A m \in Due(selected) : NewerDeleted(m)

(* Deleted messages stay deleted and keep their time.                      *)
LEMMA DeletedForGood ==
  ASSUME Types, Grows, NEW m \in Messages, NewerDeleted(m)
  PROVE  NewerDeleted(m)'
BY TypeFacts DEF NewerDeleted, Grows

(* A step that neither shows a first page nor empties the pane.            *)
LEMMA EmptiedKeeps ==
  ASSUME Types, Emptied, Steady, UNCHANGED selected,
         ~strayed' => ~strayed, first'.at = "shown" => first.at = "shown",
         pane' = <<>> => pane = <<>>
  PROVE  Emptied'
<1> SUFFICES ASSUME first'.at = "shown", pane' = <<>>, ~strayed',
                    NEW m \in Due(selected)'
             PROVE  NewerDeleted(m)'
  BY DEF Emptied
<1>1. selected \in Convs /\ Due(selected)' \subseteq Due(selected)
  BY TypeFacts DEF Steady, Lasting, Due
<1>2. m \in Messages /\ NewerDeleted(m)
  BY <1>1, TypeFacts DEF Emptied, Due
<1> QED BY <1>2, DeletedForGood DEF Steady, Lasting

(* An event that empties the pane reports the deletion of the last message *)
(* shown, and what is due and was not shown is older.                      *)
LEMMA HearEmpties ==
  ASSUME PaneInv, Emptied, NEW c \in Convs, Hear(c)
  PROVE  Emptied'
<1>1. Types /\ Server /\ Pane
  BY DEF PaneInv
<1> SUFFICES ASSUME NEW e, e = Head(chan[c]) PROVE Emptied'
  OBVIOUS
<1>2. /\ Takes(c)
      /\ c # selected => pane' = pane
      /\ c = selected /\ e.kind = "created" => pane' = Add(e.msg)
      /\ c = selected /\ e.kind # "created" => pane' = Without(pane, {e.msg})
      /\ excused' \in {excused, excused \cup {e.msg}}
      /\ UNCHANGED <<log, rows, selected, first, strayed, dropped>>
  BY DEF Hear, Takes
<1>3. /\ Grows /\ e.msg \in Messages
      /\ \A d \in Convs : \A m \in Due(d)' :
           m \in Due(d) \/ (d = c /\ e.kind = "created" /\ m = e.msg /\ m \notin excused')
  BY <1>1, <1>2, TakingKeeps
<1>4. e.kind \in {"created", "deleted"} /\ Ordered(c, 1, e)
  BY <1>1, <1>2, Taken DEF Server, InOrder
<1>5. pane \in Seq(Messages) /\ IsInjective(pane)
  BY <1>1 DEF Types, PaneOK, Pane, NothingTwice
<1> SUFFICES ASSUME first.at = "shown", pane' = <<>>, ~strayed,
                    NEW m \in Due(selected)'
             PROVE  NewerDeleted(m)'
  BY <1>2 DEF Emptied
<1>6. Range(pane') = {}
  BY DEF Range
<1>7. ~(c = selected /\ e.kind = "created")
  BY <1>2, <1>3, <1>5, <1>6, AddKeeps
<1>8. selected \in Convs /\ m \in Due(selected)
  BY <1>1, <1>2, <1>3, <1>7, TypeFacts DEF Due
<1>9. m \in Messages /\ m \in rows /\ log[m].conv = selected
  BY <1>1, <1>8, TypeFacts DEF Due
<1>10. NewerDeleted(m)
  <2>1. CASE pane = <<>>
    BY <1>8, <2>1 DEF Emptied
  <2>2. CASE pane # <<>>
    <3>1. c = selected /\ e.kind = "deleted" /\ pane' = Without(pane, {e.msg})
      BY <1>2, <1>4, <1>7, <2>2
    <3>2. Range(pane) \subseteq {e.msg} /\ Range(pane) # {}
      <4>1. Range(pane') = Range(pane) \ {e.msg}
        BY <1>5, <3>1, WithoutKeeps
      <4>2. Head(pane) \in Range(pane)
        <5>1. Len(pane) \in Nat /\ DOMAIN pane = 1..Len(pane) /\ Len(pane) # 0
          BY <1>5, <2>2, EmptySeq, LenProperties
        <5>2. 1 \in DOMAIN pane /\ Head(pane) = pane[1]
          BY <1>5, <2>2, <5>1
        <5> QED BY <5>2 DEF Range
      <4> QED BY <1>6, <4>1, <4>2
    <3>3. e.msg \notin rows /\ log[e.msg].conv = selected
      BY <1>4, <3>1 DEF Ordered
    <3>4. ~(log[m].created >= log[e.msg].created)
      <4>1. DownToOldest(selected, Range(pane))
        BY <1>1 DEF Pane
      <4> QED BY <1>8, <1>9, <3>2, <3>3, <4>1 DEF DownToOldest
    <3>5. log[e.msg].created > log[m].created
      BY <1>1, <1>3, <1>9, <3>4, TypeFacts
    <3> QED BY <1>3, <1>9, <3>3, <3>5 DEF NewerDeleted
  <2> QED BY <2>1, <2>2
<1> QED BY <1>1, <1>3, <1>9, <1>10, DeletedForGood

LEMMA EmptiedStep == PaneInv /\ PaneInv' /\ Emptied /\ [PaneNext]_paneVars => Emptied'
<1> SUFFICES ASSUME PaneInv, PaneInv', Emptied, [PaneNext]_paneVars PROVE Emptied'
  OBVIOUS
<1>1. Types /\ Server /\ Pane
  BY DEF PaneInv
<1>2. ASSUME Steady, UNCHANGED <<view, first, strayed>> PROVE Emptied'
  BY <1>1, <1>2, EmptiedKeeps DEF view
<1>3. ASSUME NEW c \in Convs, Send(c) PROVE Emptied'
  BY <1>1, <1>2, <1>3, StoreKeeps DEF Send
<1>4. ASSUME NEW c \in Convs, Select(c) PROVE Emptied'
  BY <1>4 DEF Select, RestartFirst, Asked, Emptied
<1>5. ASSUME NEW c \in Convs, Lose(c) PROVE Emptied'
  BY <1>1, <1>2, <1>5, LoseKeeps DEF Lose
<1>6. ASSUME NEW m \in rows, Delete(m) PROVE Emptied'
  BY <1>1, <1>2, <1>6, DeleteKeeps DEF Delete
<1>7. CASE AnswerFirst \/ FailFirst
  <2>1. first'.at # "shown"
    BY <1>7 DEF AnswerFirst, FailFirst, NoPage
  <2> QED BY <2>1 DEF Emptied
<1>8. CASE ShowFirst
  <2>1. pane' = first.page /\ hasOlder' = (Len(first.page) = PageSize)
    BY <1>8 DEF ShowFirst
  <2>2. pane' = <<>> => ~hasOlder' /\ Range(pane') = {}
    <3>1. Len(<<>>) = 0 /\ Range(<<>>) = {} /\ PageSize # 0
      BY PageSizeAssumption DEF Range
    <3> QED BY <2>1, <3>1
  <2>3. first'.at = "shown" /\ ~strayed' /\ ~hasOlder' => Due(selected)' \subseteq Range(pane')
    BY DEF PaneInv, Pane
  <2> QED BY <2>2, <2>3 DEF Emptied
<1>9. CASE AskOlder \/ AnswerOlder \/ FailOlder \/ AskSend \/ FailSend
  <2>1. UNCHANGED <<server, excused, dropped, selected, pane, first, strayed>>
    BY <1>9 DEF AskOlder, AnswerOlder, FailOlder, AskSend, FailSend, view
  <2>2. Steady
    BY <1>1, <2>1, ServerIdle
  <2> QED BY <1>1, <2>1, <2>2, EmptiedKeeps
<1>10. CASE ShowOlder
  <2>1. /\ UNCHANGED <<server, excused, dropped, selected, first>>
        /\ strayed' = (strayed \/ older.stale)
        /\ pane' = Without(older.page, Range(pane)) \o pane
    BY <1>10 DEF ShowOlder, Prepend
  <2>2. Steady
    BY <1>1, <2>1, ServerIdle
  <2>3. pane' = <<>> => pane = <<>>
    <3> SUFFICES ASSUME NEW p, p = Without(older.page, Range(pane)), p \o pane = <<>>
                 PROVE  pane = <<>>
      BY <2>1
    <3>1. older.page \in Seq(Messages) /\ IsInjective(older.page) /\ pane \in Seq(Messages)
      BY <1>1 DEF Types, PaneOK, PaneInv, OlderPage
    <3>2. p \in Seq(Messages)
      BY <3>1, WithoutKeeps
    <3>3. Len(p) + Len(pane) = 0 /\ Len(p) \in Nat /\ Len(pane) \in Nat
      BY <3>1, <3>2, ConcatProperties, LenProperties, EmptySeq
    <3> QED BY <3>1, <3>3, EmptySeq
  <2> QED BY <1>1, <2>1, <2>2, <2>3, EmptiedKeeps
<1>11. CASE AnswerSend
  BY <1>1, <1>2, <1>11, StoreKeeps DEF AnswerSend, Types
<1>12. CASE ShowSent
  <2>1. sent.msg \in Messages /\ pane \in Seq(Messages) /\ IsInjective(pane)
    BY <1>1, <1>12 DEF ShowSent, PaneInv, Answer, Types, PaneOK, Pane, NothingTwice
  <2>2. Range(pane') # {}
    BY <1>12, <2>1, AddKeeps DEF ShowSent
  <2>3. pane' # <<>>
    BY <2>2 DEF Range
  <2> QED BY <2>3 DEF Emptied
<1>13. CASE CreateSelected
  <2>1. first'.at = "shown" => Due(selected)' = {}
    BY <1>13 DEF CreateSelected, Due, UnderWay, Range, server
  <2> QED BY <2>1 DEF Emptied
<1>14. CASE UNCHANGED paneVars
  BY <1>1, <1>2, <1>14, ServerIdle DEF paneVars, server, view
<1> QED BY <1>3, <1>4, <1>5, <1>6, <1>7, <1>8, <1>9, <1>10, <1>11, <1>12, <1>13, <1>14,
           HearEmpties DEF PaneNext

(* A stored message that a shown pane misses is older than all it shows    *)
(* and can still be asked for, and a pane that shows nothing while there   *)
(* are messages has lost a newer one to a deletion (App.tsx:1155-1185).    *)
(* What there was when the pane was emptied by creating the selected       *)
(* conversation again is the exception (App.tsx:353, 1244-1249).           *)
THEOREM PaneMissesOnlyOlder == PaneSpec => []MissingIsOlder
<1>1. PaneInit => Emptied
  BY DEF PaneInit, Asked, Emptied
<1>2. PaneInv /\ Emptied => MissingIsOlder
  <2> SUFFICES ASSUME PaneInv, Emptied, first.at = "shown", chan[selected] = <<>>, ~strayed,
                      NEW m \in rows \ (excused \cup dropped \cup Range(pane)),
                      log[m].conv = selected, Alone(m)
               PROVE  /\ hasOlder
                      /\ \A x \in Range(pane) : log[x].created > log[m].created
                      /\ pane = <<>> => NewerDeleted(m)
    BY DEF MissingIsOlder
  <2>1. Types /\ Pane
    BY DEF PaneInv
  <2>2. m \in Due(selected)
    BY DEF Due, UnderWay
  <2>3. ASSUME NEW x \in Range(pane) PROVE log[x].created > log[m].created
    <3>1. ~(log[m].created >= log[x].created)
      BY <2>1, <2>2 DEF Pane, DownToOldest
    <3> QED BY <2>1, <3>1, TypeFacts
  <2> QED BY <2>1, <2>2, <2>3 DEF Pane, Emptied
<1> QED BY <1>1, <1>2, EmptiedStep, PaneInvariance, PTL DEF PaneSpec
=============================================================================
