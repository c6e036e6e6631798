---------------------------- MODULE MessagePane ----------------------------
(***************************************************************************)
(* The message pane of one browser (frontend/src/App.tsx): the first page  *)
(* of the conversation that is selected, older pages as the user scrolls,  *)
(* the answer to a message it sends, and the events of the sockets, one    *)
(* for each conversation.  Requests are answered and events arrive in any  *)
(* order, and the user may have selected another conversation by then.     *)
(*                                                                         *)
(* The server is as Messages has it, a commit and its event in one step    *)
(* and in order of time: what overlapping commits do to each other is      *)
(* there.                                                                  *)
(***************************************************************************)
EXTENDS Naturals, FiniteSets, Sequences, Functions

CONSTANTS
  Convs,       \* the conversations of the user
  PageSize,    \* MESSAGE_PAGE_SIZE, 30 in the browser
  MaxMessages  \* conversation -> bound on the messages there ever are, for
               \* it to be sent another

ASSUME PageSizeAssumption == PageSize \in Nat \ {0}

VARIABLES
  log,       \* every message sent, as [conv, created], in order of commit
  rows,      \* those not deleted
  chan,      \* conversation -> events under way to its socket
  selected,  \* selectedConversationID
  pane,      \* messages
  hasOlder,  \* hasOlderMessages
  loading,   \* isLoadingOlderMessages
  first,     \* the request for the first page
  older,     \* a request for an older page
  sent,      \* a message being sent
  strayed,   \* auxiliary: an answer to another selection reached the pane
  excused,   \* auxiliary: messages whose event met an answer on its way, or
             \* was lost
  dropped    \* auxiliary: messages there were when the shown pane of the
             \* selection was emptied

server   == <<log, rows, chan>>
view     == <<selected, pane, hasOlder, loading>>
aux      == <<strayed, excused, dropped>>
paneVars == <<server, view, first, older, sent, aux>>

Messages == DOMAIN log
NoPage   == [at |-> "none", page |-> <<>>]
Asked    == [at |-> "asked", page |-> <<>>]
NoOlder  == [at |-> "none", conv |-> "none", cursor |-> 0, page |-> <<>>,
             stale |-> FALSE]
NotSent  == [at |-> "none", conv |-> "none", msg |-> 0]

(* The filter of an array: what is left, in the order it was in.           *)
Without(s, M) ==
  LET left   == {i \in DOMAIN s : s[i] \notin M}
      nth(k) == CHOOSE i \in left : Cardinality({j \in left : j <= i}) = k
  IN  [k \in 1..Cardinality(left) |-> s[nth(k)]]

PaneInit ==
  /\ log = <<>> /\ rows = {} /\ chan = [c \in Convs |-> <<>>]
  /\ selected \in Convs /\ pane = <<>> /\ hasOlder = FALSE /\ loading = FALSE
  /\ first = Asked /\ older = NoOlder /\ sent = NotSent
  /\ strayed = FALSE /\ excused = {} /\ dropped = {}

-----------------------------------------------------------------------------
(* The server.  Two messages may share a microsecond.                      *)
Event(c, kind, m) == chan' = [chan EXCEPT ![c] = Append(@, [kind |-> kind, msg |-> m])]

HasSpace(c) == Len(log) < MaxMessages[c]

Store(c) ==
  /\ HasSpace(c)
  /\ \E t \in IF log = <<>> THEN {1}
              ELSE {log[Len(log)].created, log[Len(log)].created + 1} :
       log' = Append(log, [conv |-> c, created |-> t])
  /\ rows' = rows \cup {Len(log) + 1}
  /\ Event(c, "created", Len(log) + 1)

Send(c) == Store(c) /\ UNCHANGED <<view, first, older, sent, aux>>

Delete(m) ==
  /\ m \in rows
  /\ rows' = rows \ {m}
  /\ Event(log[m].conv, "deleted", m)
  /\ dropped' = dropped \ {m}
  /\ UNCHANGED <<log, view, first, older, sent, strayed, excused>>

(* Rows a page is taken from: strictly older than the cursor, if any.      *)
Before(c, cursor) ==
  {m \in rows : log[m].conv = c /\ (cursor = 0 \/ log[m].created < cursor)}

(* Mutated form: the page starts from the oldest.                          *)
Earliest(P, B) == \A m \in P, n \in B \ P : log[m].created <= log[n].created

Latest(P, B) == \A m \in P, n \in B \ P : log[m].created >= log[n].created

(* ORDER BY created_at DESC LIMIT, turned round; rows of one microsecond   *)
(* come in any order.                                                      *)
Pages(c, cursor) ==
  LET B    == Before(c, cursor)
      size == IF Cardinality(B) < PageSize THEN Cardinality(B) ELSE PageSize
  IN  {p \in [1..size -> B] : /\ \A i, j \in 1..size : i < j => p[i] < p[j]
                              /\ Latest(Range(p), B)}

-----------------------------------------------------------------------------
(* The effect that loads the first page: its cleanup makes an answer to an *)
(* earlier selection void, so there is one request that counts.            *)
AnswerFirst ==
  /\ first.at = "asked"
  /\ \E p \in Pages(selected, 0) : first' = [at |-> "answered", page |-> p]
  /\ UNCHANGED <<server, view, older, sent, aux>>

ShowFirst ==
  /\ first.at = "answered"
  /\ pane' = first.page
  /\ hasOlder' = (Len(first.page) = PageSize)
  /\ first' = [first EXCEPT !.at = "shown", !.page = <<>>]
  /\ strayed' = (strayed /\ older.at # "none")
  /\ UNCHANGED <<server, selected, loading, older, sent, excused, dropped>>

FailFirst ==
  /\ first.at \in {"asked", "answered"}
  /\ first' = NoPage
  /\ UNCHANGED <<server, view, older, sent, aux>>

(* Mutated form: an answer under way keeps counting.                       *)
KeepFirst == IF first.at = "answered" THEN first ELSE Asked

RestartFirst == Asked

Empty == pane' = <<>> /\ hasOlder' = FALSE /\ loading' = FALSE

(* selectConversation, or the answer to handleCreateConversation with      *)
(* another conversation than the one selected.                             *)
Select(c) ==
  /\ c # selected
  /\ selected' = c /\ Empty
  /\ first' = RestartFirst
  /\ older' = [older EXCEPT !.stale = (older.at # "none")]
  /\ strayed' = FALSE /\ dropped' = {}
  /\ UNCHANGED <<server, sent, excused>>

(* handleCreateConversation when createDirect returns the conversation     *)
(* that is selected: the pane is emptied, but the selection has not        *)
(* changed and so the effect does not ask for the first page again.        *)
(* Bound: not when an answer or event has gone amiss or this was before.   *)
CreateSelected ==
  /\ ~strayed /\ excused = {} /\ dropped = {}
  /\ Empty
  /\ dropped' = {m \in rows :
                   /\ first.at = "shown" /\ log[m].conv = selected
                   /\ [kind |-> "created", msg |-> m] \notin Range(chan[selected])}
  /\ UNCHANGED <<server, selected, first, older, sent, strayed, excused>>

-----------------------------------------------------------------------------
(* loadOlderMessages: nothing checks the selection when the answer comes.  *)
(* Bound: one such request is under way at a time.                         *)
AskOlder ==
  /\ hasOlder /\ ~loading /\ pane # <<>> /\ older.at = "none"
  /\ loading' = TRUE
  /\ older' = [at |-> "asked", conv |-> selected, page |-> <<>>,
               cursor |-> log[Head(pane)].created, stale |-> FALSE]
  /\ UNCHANGED <<server, selected, pane, hasOlder, first, sent, aux>>

AnswerOlder ==
  /\ older.at = "asked"
  /\ \E p \in Pages(older.conv, older.cursor) :
       older' = [older EXCEPT !.at = "answered", !.page = p]
  /\ UNCHANGED <<server, view, first, sent, aux>>

(* Mutated form: what the pane shows already is not left out.              *)
PrependAll(p) == p \o pane

Prepend(p) == Without(p, Range(pane)) \o pane

ShowOlder ==
  /\ older.at = "answered"
  /\ pane' = Prepend(older.page)
  /\ hasOlder' = (Len(older.page) = PageSize)
  /\ loading' = FALSE
  /\ strayed' = (strayed \/ older.stale)
  /\ older' = NoOlder
  /\ UNCHANGED <<server, selected, first, sent, excused, dropped>>

FailOlder ==
  /\ older.at # "none"
  /\ loading' = FALSE
  /\ older' = NoOlder
  /\ UNCHANGED <<server, selected, pane, hasOlder, first, sent, aux>>

-----------------------------------------------------------------------------
(* handleSendMessage and addMessage; isSendingMessage admits one at a time.*)
Add(m) == IF m \in Range(pane) THEN pane ELSE Append(pane, m)

AskSend ==
  /\ sent.at = "none" /\ HasSpace(selected)
  /\ sent' = [at |-> "asked", conv |-> selected, msg |-> 0]
  /\ UNCHANGED <<server, view, first, older, aux>>

AnswerSend ==
  /\ sent.at = "asked" /\ Store(sent.conv)
  /\ sent' = [sent EXCEPT !.at = "answered", !.msg = Len(log) + 1]
  /\ UNCHANGED <<view, first, older, aux>>

(* Appended below newer messages that may go again, it would be taken for  *)
(* the oldest the pane has.                                                *)
Late == \/ sent.conv # selected
        \/ hasOlder /\ \E n \in Messages : n > sent.msg /\ log[n].conv = sent.conv

ShowSent ==
  /\ sent.at = "answered"
  /\ pane' = Add(sent.msg)
  /\ strayed' = (strayed \/ Late)
  /\ sent' = NotSent
  /\ UNCHANGED <<server, selected, hasOlder, loading, first, older, excused,
                 dropped>>

FailSend ==
  /\ sent.at # "none"
  /\ sent' = NotSent
  /\ UNCHANGED <<server, view, first, older, aux>>

-----------------------------------------------------------------------------
(* An event that an answer on its way contradicts: the answer was given    *)
(* before it and is shown after it.                                        *)
Meets(c, e) ==
  IF e.kind = "created"
  THEN c = selected /\ first.at = "answered" /\ e.msg \notin Range(first.page)
  ELSE e.msg \in Range(first.page) \cup Range(older.page) \cup {sent.msg}

(* handleRealtimeEvent, as far as the pane goes.                           *)
Hear(c) ==
  /\ chan[c] # <<>>
  /\ LET e == Head(chan[c])
     IN  /\ pane' = IF c # selected THEN pane
                    ELSE IF e.kind = "created" THEN Add(e.msg)
                    ELSE Without(pane, {e.msg})
         /\ excused' = IF Meets(c, e) THEN excused \cup {e.msg} ELSE excused
  /\ chan' = [chan EXCEPT ![c] = Tail(@)]
  /\ UNCHANGED <<log, rows, selected, hasOlder, loading, first, older, sent,
                 strayed, dropped>>

(* The hub delivers at most once.  Bound: one event is lost, and before    *)
(* another has met an answer.                                              *)
Lose(c) ==
  /\ chan[c] # <<>> /\ excused = {}
  /\ excused' = excused \cup {Head(chan[c]).msg}
  /\ chan' = [chan EXCEPT ![c] = Tail(@)]
  /\ UNCHANGED <<log, rows, view, first, older, sent, strayed, dropped>>

PaneNext ==
  \/ \E c \in Convs : Send(c) \/ Select(c) \/ Hear(c) \/ Lose(c)
  \/ CreateSelected
  \/ \E m \in rows : Delete(m)
  \/ AnswerFirst \/ ShowFirst \/ FailFirst
  \/ AskOlder \/ AnswerOlder \/ ShowOlder \/ FailOlder
  \/ AskSend \/ AnswerSend \/ ShowSent \/ FailSend

PaneSpec == PaneInit /\ [][PaneNext]_paneVars

-----------------------------------------------------------------------------
(* PaneOK: the pane and the requests name messages the server has stored   *)
(* at some time; a request that is not under way carries nothing.          *)
PaneOK ==
  /\ log \in Seq([conv : Convs, created : Nat \ {0}])
  /\ rows \subseteq Messages /\ excused \cup dropped \subseteq Messages
  /\ DOMAIN chan = Convs
  /\ \A c \in Convs : chan[c] \in Seq([kind : {"created", "deleted"}, msg : Messages])
  /\ selected \in Convs /\ pane \in Seq(Messages)
  /\ hasOlder \in BOOLEAN /\ loading \in BOOLEAN /\ strayed \in BOOLEAN
  /\ first.at \in {"none", "asked", "answered", "shown"}
  /\ first.page \in Seq(Messages) /\ older.page \in Seq(Messages)
  /\ first.at # "answered" => first.page = <<>>
  /\ older.at = "none" => older = NoOlder
  /\ sent.at = "answered" => sent.msg \in Messages

(* The pane shows no message twice, whatever the order of answers and      *)
(* events (App.tsx:651-660, 1140-1146, 1177-1185).                         *)
NothingTwice == IsInjective(pane)

(* A message of another conversation is in the pane only if the answer to  *)
(* loadOlderMessages or handleSendMessage came after the selection changed *)
(* (App.tsx:1172-1185, 1296-1297); a first page never puts one there.      *)
PaneOfSelected ==
  ~strayed => \A m \in Range(pane) : log[m].conv = selected

(* Once the pane is loaded back to the beginning and nothing is under way, *)
(* it shows what is stored, unless an answer to another selection reached  *)
(* it: only a message whose event crossed an answer or was lost, or that   *)
(* shares its microsecond with another, may be missing or be shown after   *)
(* it is gone (App.tsx:330, 1173; message_repository.go:68-70); and those  *)
(* there were when the user created this very conversation again may be    *)
(* missing (App.tsx:1244-1249).                                            *)
Quiet == /\ first.at = "shown" /\ older.at = "none" /\ sent.at = "none"
         /\ chan[selected] = <<>> /\ ~hasOlder

Alone(m) == \A n \in Messages \ {m} :
              log[n].conv = log[m].conv => log[n].created # log[m].created

PaneIsTrue ==
  Quiet /\ ~strayed =>
    \A m \in Messages \ excused :
      log[m].conv = selected /\ Alone(m) =>
        /\ m \in Range(pane) => m \in rows
        /\ m \in rows => m \in Range(pane) \cup dropped

(* A stored message that a shown pane misses is older than all it shows    *)
(* and can still be asked for: the pane has no gap (App.tsx:1156-1185).  A *)
(* pane may also be empty with older messages left, and then               *)
(* loadOlderMessages does nothing (App.tsx:1155); but only because a newer *)
(* message has been deleted, never because it was not shown.  Again but    *)
(* for those there were when createDirect answered with the selection.     *)
NewerDeleted(m) == \E n \in Messages \ rows : /\ log[n].conv = log[m].conv
                                             /\ log[n].created > log[m].created

MissingIsOlder ==
  first.at = "shown" /\ chan[selected] = <<>> /\ ~strayed =>
    \A m \in rows \ (excused \cup dropped \cup Range(pane)) :
      log[m].conv = selected /\ Alone(m) =>
        /\ hasOlder
        /\ \A x \in Range(pane) : log[x].created > log[m].created
        /\ pane = <<>> => NewerDeleted(m)
=============================================================================
