----------------------------- MODULE RateLimit -----------------------------
(***************************************************************************)
(* ratelimit/limiter.go for one key: the fixed-window counter that         *)
(* middleware/rate_limit.go asks before a handler runs.  INCR, EXPIRE and  *)
(* TTL are three commands, sent one after the other by every request;      *)
(* requests overlap, a command may fail, and Redis drops the key when its  *)
(* time to live has passed.                                                *)
(***************************************************************************)
EXTENDS Naturals, FiniteSets

CONSTANTS
  Workers,   \* requests for the key being checked at the same time
  Limit,     \* requests allowed in a window
  MaxCount,  \* bound on the counter: it stays there, every request refused
  Faulty     \* whether a Redis command may fail

ASSUME LimitAssumption == /\ Limit \in Nat /\ MaxCount \in Nat
                          /\ 0 < Limit /\ Limit < MaxCount
                          /\ Faulty \in BOOLEAN

VARIABLES
  counter,   \* value of the key, 0 when there is none
  expires,   \* the key has a time to live
  stage,     \* worker -> "idle", "expire", "ttl" or "decide"
  count,     \* worker -> what its INCR returned
  window,    \* auxiliary: worker -> the window its INCR counted in is current
  admitted,  \* auxiliary: requests of the current window let through
  orphaned   \* auxiliary: the request that made the key failed to EXPIRE it

vars == <<counter, expires, stage, count, window, admitted, orphaned>>

Init == /\ counter = 0 /\ expires = FALSE
        /\ stage = [w \in Workers |-> "idle"]
        /\ count = [w \in Workers |-> 0]
        /\ window = [w \in Workers |-> FALSE]
        /\ admitted = 0 /\ orphaned = FALSE

-----------------------------------------------------------------------------
Counted == IF counter < MaxCount THEN counter + 1 ELSE MaxCount

(* Mutated form: INCR taken to return the value before.                    *)
FirstMissed(n) == n = 0

First(n) == n = 1

Incr(w) ==
  /\ stage[w] = "idle"
  /\ counter' = Counted
  /\ count' = [count EXCEPT ![w] = Counted]
  /\ window' = [window EXCEPT ![w] = TRUE]
  /\ stage' = [stage EXCEPT ![w] = IF First(Counted) THEN "expire" ELSE "ttl"]
  /\ UNCHANGED <<expires, admitted, orphaned>>

(* EXPIRE of a key that has gone does nothing.                             *)
Expire(w) ==
  /\ stage[w] = "expire"
  /\ expires' = (counter > 0)
  /\ stage' = [stage EXCEPT ![w] = "ttl"]
  /\ UNCHANGED <<counter, count, window, admitted, orphaned>>

(* The answer only goes into Retry-After.                                  *)
TTL(w) ==
  /\ stage[w] = "ttl"
  /\ stage' = [stage EXCEPT ![w] = "decide"]
  /\ UNCHANGED <<counter, expires, count, window, admitted, orphaned>>

(* Mutated form: one request more.                                         *)
AllowedOneMore(n) == n <= Limit + 1

Allowed(n) == n <= Limit

(* The middleware lets the request through or answers 429.                 *)
Decide(w) ==
  /\ stage[w] = "decide"
  /\ admitted' = IF Allowed(count[w]) /\ window[w] THEN admitted + 1 ELSE admitted
  /\ stage' = [stage EXCEPT ![w] = "idle"]
  /\ window' = [window EXCEPT ![w] = FALSE]
  /\ UNCHANGED <<counter, expires, count, orphaned>>

(* A command fails, carried out or not, or the process dies: 500, and      *)
(* nothing makes up for the commands not sent.                             *)
Fail(w) ==
  /\ Faulty /\ stage[w] \in {"expire", "ttl"}
  /\ \/ /\ stage[w] = "expire" /\ orphaned' = TRUE
        /\ UNCHANGED expires
     \/ /\ stage[w] = "expire" /\ expires' = TRUE
        /\ UNCHANGED orphaned
     \/ /\ stage[w] = "ttl"
        /\ UNCHANGED <<expires, orphaned>>
  /\ stage' = [stage EXCEPT ![w] = "idle"]
  /\ window' = [window EXCEPT ![w] = FALSE]
  /\ UNCHANGED <<counter, count, admitted>>

(* The minute is over.                                                     *)
KeyExpires ==
  /\ expires
  /\ counter' = 0 /\ expires' = FALSE
  /\ window' = [w \in Workers |-> FALSE]
  /\ admitted' = 0
  /\ UNCHANGED <<stage, count, orphaned>>

Allow(w) == Incr(w) \/ Expire(w) \/ TTL(w) \/ Decide(w) \/ Fail(w)

Next == KeyExpires \/ \E w \in Workers : Allow(w)

Spec == Init /\ [][Next]_vars

(* Requests are served and time passes; nothing makes a client ask again.  *)
FairSpec == /\ Spec
            /\ WF_vars(KeyExpires)
            /\ \A w \in Workers : WF_vars(Expire(w) \/ TTL(w) \/ Decide(w))

-----------------------------------------------------------------------------
(* TypeOK: the values the variables range over.                            *)
TypeOK ==
  /\ counter \in 0..MaxCount /\ expires \in BOOLEAN /\ orphaned \in BOOLEAN
  /\ stage \in [Workers -> {"idle", "expire", "ttl", "decide"}]
  /\ count \in [Workers -> 0..MaxCount]
  /\ window \in [Workers -> BOOLEAN]
  /\ admitted \in 0..MaxCount

(* No more than Limit requests of one window get through, however many are *)
(* checked at once and wherever the window ends between INCR and the       *)
(* answer (limiter.go:29, 55).                                             *)
AtMostLimitPerWindow == admitted <= Limit

(* A counter without a time to live is one whose first request is about to *)
(* set it, or failed to: overlapping requests never leave one              *)
(* (limiter.go:34-38).                                                     *)
LastsOnlyIfOrphaned ==
  counter > 0 /\ ~expires => orphaned \/ \E w \in Workers : stage[w] = "expire"

(* Every window ends, however many requests keep coming, unless its first  *)
(* request failed to set the time to live.                                 *)
WindowEnds == counter > 0 ~> (counter = 0 \/ orphaned)
=============================================================================
