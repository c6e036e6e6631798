------------------------------ MODULE Session -------------------------------
(***************************************************************************)
(* The session of one browser tab (App.tsx): its token, the user it is     *)
(* signed in as and the conversation list, each of which is set by answers *)
(* that may come when the session they were asked in is over.  Effects ask *)
(* again whenever a value they depend on changes, and then ignore the      *)
(* answers to what they asked before; answers awaited by a click handler   *)
(* are never ignored.  The list is the set of its conversations; selection *)
(* and messages are the subject of MessagePane.                            *)
(***************************************************************************)
EXTENDS Naturals, FiniteSets

CONSTANTS
  Users, NoUser,
  Conversations,
  MemberOf,      \* user -> the conversations the server lists for him
  MaxClicks      \* bound: requests of click handlers under way at a time

ASSUME MemberOfAssumption ==
  NoUser \notin Users /\ MemberOf \in [Users -> SUBSET Conversations]

VARIABLES
  token,          \* whose token the tab holds
  stored,         \* and whose is in localStorage, which all tabs share
  user,           \* the user shown, once known
  isBootstrapping,
  search,         \* the list is filtered
  conversations,
  me, lists,      \* requests of the effects that are not answered yet
  creates, leaves,\* and of click handlers
  leftover        \* auxiliary: what is listed from an earlier session

effects == <<me, lists>>
clicks  == <<creates, leaves>>
vars == <<token, stored, user, isBootstrapping, search, conversations,
          effects, clicks, leftover>>

Init == /\ stored \in Users \cup {NoUser} /\ token = stored /\ user = NoUser
        /\ isBootstrapping = (stored # NoUser)
        /\ search = FALSE /\ conversations = {} /\ leftover = {}
        /\ me = IF stored = NoUser THEN {} ELSE {[of |-> stored, isCurrent |-> TRUE]}
        /\ lists = {} /\ creates = {} /\ leaves = {}

(* Mutated form: an answer counts whenever it comes.                       *)
HeededAlways(r) == TRUE

Heeded(r) == r.isCurrent

(* Mutated form: no clean-up when an effect runs again.                    *)
NotSuperseded(asked) == asked

Superseded(asked) == { [r EXCEPT !.isCurrent = FALSE] : r \in asked }

(* The effects on [token] and on [token, user, conversationSearch].        *)
MeEffect ==
  me' = Superseded(me) \cup
        IF token' = NoUser THEN {} ELSE {[of |-> token', isCurrent |-> TRUE]}

ListEffect ==
  lists' = Superseded(lists) \cup
           IF NoUser \in {token', user'} THEN {}
           ELSE {[of |-> token', search |-> search', isCurrent |-> TRUE]}

-----------------------------------------------------------------------------
(* handleSubmit: the answer to the login is awaited on its own.            *)
SignIn(u) ==
  /\ token = NoUser /\ ~isBootstrapping
  /\ token' = u /\ stored' = u /\ user' = u
  /\ MeEffect /\ UNCHANGED search /\ ListEffect
  /\ UNCHANGED <<isBootstrapping, conversations, clicks, leftover>>

MeAnswers(r) ==
  /\ Heeded(r)
  /\ user' = r.of /\ isBootstrapping' = FALSE
  /\ me' = me \ {r}
  /\ UNCHANGED <<token, stored, search, conversations, clicks, leftover>>
  /\ ListEffect

(* Mutated form: a failure leaves the tab waiting.                         *)
StillWaiting == UNCHANGED isBootstrapping /\ user' = NoUser

NobodyKnown == user' = NoUser /\ isBootstrapping' = FALSE

(* Whatever the failure, the token is dropped; the list stays as it is.    *)
MeFails(r) ==
  /\ Heeded(r)
  /\ token' = NoUser /\ stored' = NoUser /\ NobodyKnown
  /\ me' = Superseded(me \ {r})
  /\ leftover' = conversations
  /\ UNCHANGED <<search, conversations, clicks>>
  /\ ListEffect

(* handleLogout                                                            *)
Logout ==
  /\ user # NoUser
  /\ token' = NoUser /\ stored' = NoUser /\ user' = NoUser
  /\ search' = FALSE /\ conversations' = {} /\ leftover' = {}
  /\ MeEffect /\ ListEffect
  /\ UNCHANGED <<isBootstrapping, clicks>>

ListAnswers(r) ==
  /\ Heeded(r)
  /\ lists' = lists \ {r}
  /\ \E items \in IF r.search THEN SUBSET MemberOf[r.of] ELSE {MemberOf[r.of]} :
       conversations' = items
  /\ leftover' = {}
  /\ UNCHANGED <<token, stored, user, isBootstrapping, search, me, clicks>>

CreateAnswers(r) ==
  /\ creates' = creates \ {r}
  /\ conversations' = conversations \cup {r.id}
  /\ leftover' = leftover \cup IF r.of = user THEN {} ELSE {r.id}
  /\ UNCHANGED <<token, stored, user, isBootstrapping, search, effects, leaves>>

(* The answer to leaving, or deleting, a room.                             *)
LeaveAnswers(id) ==
  /\ leaves' = leaves \ {id}
  /\ conversations' = conversations \ {id}
  /\ leftover' = leftover \ {id}
  /\ UNCHANGED <<token, stored, user, isBootstrapping, search, effects, creates>>

(* What changes the token, the user or the list.                           *)
Changes == \/ \E u \in Users : SignIn(u)
           \/ \E r \in me : MeAnswers(r) \/ MeFails(r)
           \/ Logout
           \/ \E r \in lists : ListAnswers(r)
           \/ \E r \in creates : CreateAnswers(r)
           \/ \E id \in leaves : LeaveAnswers(id)

-----------------------------------------------------------------------------
(* Typing in the search field.                                             *)
Search ==
  /\ user # NoUser
  /\ search' \in BOOLEAN
  /\ UNCHANGED <<token, stored, user, isBootstrapping, conversations, me, clicks,
                 leftover>>
  /\ ListEffect

(* Creating a conversation, leaving or deleting one that is listed.        *)
Click ==
  /\ user # NoUser
  /\ Cardinality(creates) + Cardinality(leaves) < MaxClicks
  /\ \/ /\ \E id \in MemberOf[user] : creates' = creates \cup {[of |-> user, id |-> id]}
        /\ UNCHANGED leaves
     \/ \E id \in conversations : leaves' = leaves \cup {id} /\ UNCHANGED creates
  /\ UNCHANGED <<token, stored, user, isBootstrapping, search, conversations,
                 effects, leftover>>

(* An answer that is ignored, a failed request that only shows an error.   *)
NoNews ==
  /\ \/ \E r \in me : ~Heeded(r) /\ me' = me \ {r} /\ UNCHANGED <<lists, clicks>>
     \/ \E r \in lists : lists' = lists \ {r} /\ UNCHANGED <<me, clicks>>
     \/ \E r \in creates : creates' = creates \ {r} /\ UNCHANGED <<effects, leaves>>
     \/ \E id \in leaves : leaves' = leaves \ {id} /\ UNCHANGED <<effects, creates>>
  /\ UNCHANGED <<token, stored, user, isBootstrapping, search, conversations, leftover>>

(* Somebody signs in or out in another tab.                                *)
OtherTab ==
  /\ stored' \in Users \cup {NoUser}
  /\ UNCHANGED <<token, user, isBootstrapping, search, conversations, effects,
                 clicks, leftover>>

Stays == Search \/ Click \/ NoNews \/ OtherTab

(* The page starts anew from what is in localStorage.                      *)
Reload ==
  /\ token' = stored /\ user' = NoUser /\ isBootstrapping' = (stored # NoUser)
  /\ search' = FALSE /\ conversations' = {} /\ leftover' = {}
  /\ me' = IF stored = NoUser THEN {} ELSE {[of |-> stored, isCurrent |-> TRUE]}
  /\ lists' = {} /\ creates' = {} /\ leaves' = {}
  /\ UNCHANGED stored

Next == Changes \/ Stays \/ Reload

Spec == Init /\ [][Next]_vars

(* A request is answered or fails in the end.                              *)
FairSpec == Spec /\ WF_vars(\E r \in me : MeAnswers(r) \/ MeFails(r))

-----------------------------------------------------------------------------
(* TypeOK: values, and of what an effect asked at most one answer counts.  *)
TypeOK ==
  /\ {token, stored, user} \subseteq Users \cup {NoUser}
  /\ {isBootstrapping, search} \subseteq BOOLEAN
  /\ leftover \subseteq conversations /\ conversations \subseteq Conversations
  /\ me \subseteq [of : Users, isCurrent : BOOLEAN]
  /\ lists \subseteq [of : Users, search : BOOLEAN, isCurrent : BOOLEAN]
  /\ creates \subseteq [of : Users, id : Conversations] /\ leaves \subseteq Conversations
  /\ \A asked \in {me, lists} : \A r, s \in asked : r.isCurrent /\ s.isCurrent => r = s

(* The tab shows the user whose token it sends, or nobody: never the user  *)
(* of an earlier session whose answer comes late (App.tsx:234-258); and it *)
(* holds a token nobody is shown for only while it is bootstrapping, with  *)
(* the request under way that ends this.                                   *)
UserIsTokens ==
  /\ user \in {token, NoUser}
  /\ isBootstrapping <=> token # NoUser /\ user = NoUser
  /\ isBootstrapping => \E r \in me : r.isCurrent /\ r.of = token

(* The list shows conversations of the user it is shown to, but for those  *)
(* a failed me left standing or a conversation created in an earlier       *)
(* session added (App.tsx:242-248, 276-285, 1238); the next list answer    *)
(* takes these away.                                                       *)
ShowsOwn ==
  user # NoUser => conversations \subseteq MemberOf[user] \cup leftover

(* A tab does not stay at "Opening your workspace" for ever.               *)
BootEnds == isBootstrapping ~> ~isBootstrapping
=============================================================================
