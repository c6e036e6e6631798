------------------------------ MODULE Sockets -------------------------------
(***************************************************************************)
(* The WebSockets of a tab, composed with its Session: an effect (App.tsx: *)
(* 772-836) opens one for each listed conversation and closes those of the *)
(* others, keeping them in a map.  The close event of a socket comes later *)
(* than close(), and takes the map entry of its conversation away whatever *)
(* socket that has become.  Nothing but the effect opens sockets.          *)
(***************************************************************************)
EXTENDS Session

CONSTANT K  \* bound: sockets one conversation has at a time

ASSUME KAssumption == K \in Nat

VARIABLES
  socket,   \* conversation -> number -> its state and whose token it carries
  mapped,   \* conversationSocketsRef: conversation -> number, 0 for none
  orphaned, \* auxiliary: sockets whose entry another's close event took
  lost      \* auxiliary: conversations whose entry went since the effect ran

sockets == <<socket, mapped, orphaned, lost>>
allVars == <<vars, sockets>>

None == [state |-> "none", of |-> NoUser]

SocketsInit == /\ Init
               /\ socket = [id \in Conversations |-> [k \in 1..K |-> None]]
               /\ mapped = [id \in Conversations |-> 0]
               /\ orphaned = {} /\ lost = {}

(* Mutated form: signing out is left to the sockets of the next list.      *)
ListedAlways == conversations'

(* Signed out, nothing counts as listed.                                   *)
Listed == IF NoUser \in {token', user'} THEN {} ELSE conversations'

(* Mutated form: the entry goes, the socket is not closed.                 *)
Dropped(s) == s

Closed(s) == [s EXCEPT !.state = "closing"]

(* Mutated form: a conversation that had a socket gets no new one.         *)
NeedsFirstSocket(id) == mapped[id] = 0 /\ id \notin lost

NeedsSocket(id) == mapped[id] = 0

Free(id) == { k \in 1..K : socket[id][k] = None }

Effect ==
  LET unlisted == { id \in Conversations \ Listed : mapped[id] # 0 }
      opened   == { id \in Listed : NeedsSocket(id) }
      new(id)  == CHOOSE k \in Free(id) : TRUE
  IN /\ \A id \in opened : Free(id) # {}
     /\ socket' = [id \in Conversations |-> [k \in 1..K |->
          IF id \in unlisted /\ k = mapped[id] THEN Closed(socket[id][k])
          ELSE IF id \in opened /\ k = new(id) THEN [state |-> "open", of |-> token']
          ELSE socket[id][k]]]
     /\ mapped' = [id \in Conversations |-> IF id \in unlisted THEN 0
                                            ELSE IF id \in opened THEN new(id)
                                            ELSE mapped[id]]
     /\ lost' = {}
     /\ UNCHANGED orphaned

(* An event or a mark of read replaces the list by a copy, a click selects *)
(* another conversation: the effect runs, nothing of the session changes.  *)
Refreshed ==
  /\ \/ user # NoUser
     \/ \E id \in Conversations, k \in 1..K : socket[id][k].state = "open"
  /\ UNCHANGED vars
  /\ Effect

(* The close event of a socket that has been closed from either side.      *)
SocketCloses(id, k) ==
  /\ socket[id][k] # None
  /\ socket' = [socket EXCEPT ![id][k] = None]
  /\ mapped' = [mapped EXCEPT ![id] = 0]
  /\ orphaned' = (orphaned \cup IF mapped[id] = 0 THEN {} ELSE {<<id, mapped[id]>>})
                   \ {<<id, k>>}
  /\ lost' = lost \cup IF mapped[id] = 0 THEN {} ELSE {id}
  /\ UNCHANGED vars

(* The page goes, and its sockets with it.                                 *)
Reloaded ==
  /\ Reload
  /\ socket' = [id \in Conversations |-> [k \in 1..K |-> None]]
  /\ mapped' = [id \in Conversations |-> 0]
  /\ orphaned' = {} /\ lost' = {}

SocketsNext ==
  \/ Changes /\ Effect
  \/ Stays /\ UNCHANGED sockets
  \/ Refreshed
  \/ \E id \in Conversations, k \in 1..K : SocketCloses(id, k)
  \/ Reloaded

SocketsSpec == SocketsInit /\ [][SocketsNext]_allVars

(* The request of the session's first effect is answered or fails.         *)
SocketsFairSpec ==
  SocketsSpec /\ WF_allVars(\E r \in me : (MeAnswers(r) \/ MeFails(r)) /\ Effect)

-----------------------------------------------------------------------------
Open(id, k) == socket[id][k].state = "open"

(* SocketsOK: the types of the session and of its sockets, which carry a   *)
(* user's token; what an auxiliary mark names is there.                    *)
SocketsOK ==
  /\ TypeOK
  /\ socket \in [Conversations -> [1..K -> {None} \cup [state : {"open", "closing"}, of : Users]]]
  /\ mapped \in [Conversations -> 0..K]
  /\ lost \subseteq Conversations
  /\ orphaned \subseteq Conversations \X (1..K)
  /\ \A o \in orphaned : socket[o[1]][o[2]] # None

(* The map holds open sockets of the user who is signed in, and of listed  *)
(* conversations: signing out, filtering the list and leaving a room take  *)
(* sockets down (App.tsx:773-787).                                         *)
MappedIsOwn ==
  \A id \in Conversations : mapped[id] # 0 =>
    /\ Open(id, mapped[id]) /\ socket[id][mapped[id]].of = user
    /\ id \in conversations

(* A socket stays open outside the map, signed out even, only if the late  *)
(* close event of its predecessor took its entry (App.tsx:819-820).        *)
StrayOnlyIfOrphaned ==
  \A id \in Conversations, k \in 1..K :
    Open(id, k) /\ mapped[id] # k => <<id, k>> \in orphaned

(* A listed conversation is without its socket only if that closed since   *)
(* the effect last ran: every new list, event or selection brings it back  *)
(* (App.tsx:789-795).                                                      *)
SilentOnlyIfLost ==
  user # NoUser => \A id \in conversations : mapped[id] = 0 => id \in lost
=============================================================================
