--------------------------- MODULE ToolCallProofs ---------------------------
(* Proofs about ToolCall for any operations and calls, any timeouts and any *)
(* lifetimes of tokens.                                                     *)
EXTENDS ToolCall, TLAPS

Phase == Answer \cup Awaiting \cup {"idle", "start", "lock", "poll"}

(* What the refinement needs of the types.                                  *)
BreakerTypes ==
  /\ phase \in [Calls -> Phase]
  /\ operation \in [Calls -> Operations]
  /\ failures \in [Operations -> Nat]
  /\ is_open \in [Operations -> BOOLEAN]
  /\ gauge \in [Operations -> BOOLEAN]

(* The phase of a call as RuntimeProxy sees it.                             *)
Seen == [c \in Calls |-> IF phase[c] \in Answer \cup {"idle"}
                         THEN phase[c] ELSE "upstream"]

(* The token cache never promises more than the token has to live.          *)
CacheInv ==
  /\ phase \in [Calls -> Phase]
  /\ timer \in [Calls -> Int]
  /\ deadline \in [Calls -> Int]
  /\ cache \in 0 .. Forever \cup {NoToken}
  /\ life \in 0 .. Forever
  /\ asked \in Int
  /\ cache <= life
  /\ holder \in Calls \cup {None}
  /\ AskedByHolder
-----------------------------------------------------------------------------
(* The phases a call can be in before it has its answer.                    *)
UnderWay == Awaiting \cup {"start", "lock", "poll"}

(* A call that ends is a call that ends in RuntimeProxy.                    *)
LEMMA EndSeen ==
  ASSUME BreakerTypes, NEW c \in Calls, NEW a \in Answer,
         phase[c] \in UnderWay, phase' = [phase EXCEPT ![c] = a], Leave(c)
  PROVE  Proxy!End(c, a)
<1>1. Seen[c] = "upstream"
  BY DEF Seen, UnderWay, Awaiting, Answer
<1>2. Seen' = [Seen EXCEPT ![c] = a]
  BY DEF Seen, BreakerTypes
<1>3. operation' = operation
  BY DEF Leave
<1> QED
  BY <1>1, <1>2, <1>3 DEF Seen, Proxy!End

(* The four ways to end, on either path.                                    *)
LEMMA OutcomeSeen ==
  ASSUME BreakerTypes, NEW c \in Calls, phase[c] \in UnderWay,
         \/ Succeed(c) \/ Fail(c) \/ RaiseToolError(c) \/ Cancel(c)
  PROVE  Proxy!Next /\ BreakerTypes'
<1>0. "ok" \in Answer /\ "error" \in Answer
  BY DEF Answer
<1>1. CASE Succeed(c)
  <2>1. Proxy!End(c, "ok")
    BY <1>0, <1>1, EndSeen DEF Succeed
  <2>2. Proxy!Succeed(c)
    BY <1>1, <2>1 DEF Succeed, Proxy!Succeed
  <2> QED
    BY <1>0, <1>1, <2>2
       DEF Proxy!Next, Succeed, Leave, BreakerTypes, Phase, Proxy!RecordSuccess, Proxy!SetState
<1>2. CASE Fail(c)
  <2>1. Proxy!End(c, "error")
    BY <1>0, <1>2, EndSeen DEF Fail
  <2>2. Proxy!UpstreamFails(c)
    BY <1>2, <2>1 DEF Fail, Proxy!UpstreamFails
  <2>3. BreakerTypes'
    BY <1>0, <1>2 DEF Fail, Leave, BreakerTypes, Phase, Proxy!RecordFailure, Proxy!SetState
  <2> QED
    BY <2>2, <2>3 DEF Proxy!Next
<1>3. CASE RaiseToolError(c)
  <2>1. Proxy!End(c, "error")
    BY <1>0, <1>3, EndSeen DEF RaiseToolError
  <2>2. Proxy!ToolErrorRaised(c)
    BY <1>3, <2>1 DEF RaiseToolError, Proxy!ToolErrorRaised, breakerVars, Proxy!breakerVars
  <2>3. BreakerTypes'
    <3>1. CASE operation[c] \in Native
      <4>1. Fail(c)
        BY <1>3, <3>1 DEF RaiseToolError, Fail
      <4> QED
        BY <1>0, <4>1 DEF Fail, Leave, BreakerTypes, Phase, Proxy!RecordFailure, Proxy!SetState
    <3>2. CASE operation[c] \notin Native
      BY <1>0, <1>3, <3>2 DEF RaiseToolError, Leave, BreakerTypes, Phase, breakerVars
    <3> QED
      BY <3>1, <3>2
  <2> QED
    BY <2>2, <2>3 DEF Proxy!Next
<1>4. CASE Cancel(c)
  <2>1. Proxy!End(c, "error")
    BY <1>0, <1>4, EndSeen DEF Cancel
  <2>2. Proxy!OtherException(c)
    BY <1>4, <2>1 DEF Cancel, Proxy!OtherException, breakerVars, Proxy!breakerVars
  <2>3. BreakerTypes'
    BY <1>0, <1>4 DEF Cancel, Leave, BreakerTypes, Phase, breakerVars
  <2> QED
    BY <2>2, <2>3 DEF Proxy!Next
<1> QED
  BY <1>1, <1>2, <1>3, <1>4

(* A call that goes on to another await is a stutter.                       *)
LEMMA GoesOnUnseen ==
  ASSUME BreakerTypes, NEW c \in Calls, phase[c] \in UnderWay, NEW p \in UnderWay,
         phase' = [phase EXCEPT ![c] = p], UNCHANGED <<operation, breakerVars>>
  PROVE  /\ BreakerTypes'
         /\ UNCHANGED <<Seen, operation, failures, is_open, gauge>>
<1>1. Seen' = Seen
  BY DEF Seen, BreakerTypes, UnderWay, Awaiting, Answer
<1> QED
  BY <1>1 DEF BreakerTypes, breakerVars, Phase, UnderWay

LEMMA AuthorizeUnseen ==
  ASSUME BreakerTypes, NEW c \in Calls, phase[c] \in UnderWay, Authorize(c) \/ LockGranted(c)
  PROVE  /\ BreakerTypes'
         /\ UNCHANGED <<Seen, operation, failures, is_open, gauge>>
<1>1. UNCHANGED <<operation, breakerVars>>
  BY DEF Authorize, LockGranted
<1>2. \E p \in UnderWay : phase' = [phase EXCEPT ![c] = p]
  BY DEF Authorize, LockGranted, Send, AskForToken, UnderWay, Awaiting
<1> QED
  BY <1>1, <1>2, GoesOnUnseen

(* Every step keeps the types and is a step of RuntimeProxy or a stutter.   *)
LEMMA NextSeen ==
  ASSUME BreakerTypes, [Next]_vars
  PROVE  /\ BreakerTypes'
         /\ Proxy!Next \/ UNCHANGED <<Seen, operation, failures, is_open, gauge>>
<1>1. ASSUME NEW c \in Calls, NEW o \in Operations, Invoke(c, o)
      PROVE  BreakerTypes' /\ Proxy!Next
  <2>1. Seen[c] = "idle"
    BY <1>1 DEF Invoke, Seen
  <2>2. Seen' = [Seen EXCEPT ![c] = IF is_open[o] THEN "blocked" ELSE "upstream"]
    BY <1>1 DEF Invoke, Seen, BreakerTypes, Answer
  <2>3. IF is_open[o] THEN gauge' = [gauge EXCEPT ![o] = TRUE] ELSE gauge' = gauge
    BY <1>1 DEF Invoke, BreakerTypes
  <2>4. Proxy!Invoke(c, o)
    BY <1>1, <2>1, <2>2, <2>3 DEF Invoke, Seen, Proxy!Invoke, Proxy!SetState
  <2>5. BreakerTypes'
    BY <1>1 DEF Invoke, BreakerTypes, Phase, Answer
  <2> QED
    BY <2>4, <2>5 DEF Proxy!Next
<1>2. ASSUME NEW c \in Calls,
             \/ NativeEnds(c) \/ Cancel(c) \/ TokenFails(c) \/ SessionEnds(c) \/ RequestFails(c)
      PROVE  BreakerTypes' /\ Proxy!Next
  <2>1. phase[c] \in UnderWay
    BY <1>2 DEF NativeEnds, Cancel, TokenFails, SessionEnds, RequestFails, UnderWay, Awaiting
  <2>2. Succeed(c) \/ Fail(c) \/ RaiseToolError(c) \/ Cancel(c)
    BY <1>2 DEF NativeEnds, TokenFails, SessionEnds, RequestFails
  <2> QED
    BY <2>1, <2>2, OutcomeSeen
<1>3. ASSUME NEW c \in Calls,
             \/ Prepare(c) \/ LockGranted(c) \/ Poll(c) \/ Wake(c)
             \/ \E e \in Lifetimes : TokenGranted(c, e)
             \/ Response(c) \/ PollResponse(c)
      PROVE  /\ BreakerTypes'
             /\ Proxy!Next \/ UNCHANGED <<Seen, operation, failures, is_open, gauge>>
  <2>1. phase[c] \in UnderWay
    BY <1>3 DEF Prepare, LockGranted, Poll, Wake, TokenGranted, Response, PollResponse,
                UnderWay, Awaiting
  <2>2. \/ Succeed(c) \/ Fail(c) \/ RaiseToolError(c) \/ Authorize(c) \/ LockGranted(c)
        \/ /\ \E p \in UnderWay : phase' = [phase EXCEPT ![c] = p]
           /\ UNCHANGED <<operation, breakerVars>>
    BY <1>3 DEF Prepare, Poll, Wake, TokenGranted, Response, PollResponse, Judge, Send,
                UnderWay, Awaiting
  <2> QED
    BY <2>1, <2>2, OutcomeSeen, AuthorizeUnseen, GoesOnUnseen
<1>4. ASSUME NEW c \in Calls, Return(c) PROVE BreakerTypes' /\ Proxy!Next
  <2>1. Seen[c] \in Answer
    BY <1>4 DEF Return, Seen
  <2>2. Seen' = [Seen EXCEPT ![c] = "idle"]
    BY <1>4 DEF Return, Seen, BreakerTypes
  <2>3. Proxy!Return(c)
    BY <1>4, <2>1, <2>2 DEF Return, Seen, Proxy!Return, breakerVars, Proxy!breakerVars,
                            Answer, Proxy!Answer
  <2>4. BreakerTypes'
    BY <1>4 DEF Return, BreakerTypes, breakerVars, Phase
  <2> QED
    BY <2>3, <2>4 DEF Proxy!Next
<1>5. CASE Restart
  <2>1. Seen' = [c \in Calls |-> "idle"]
    BY <1>5 DEF Restart, Seen
  <2>2. Proxy!Restart
    BY <1>5, <2>1 DEF Restart, Seen, Proxy!Restart, Proxy!Uncounted, Proxy!AllClosed
  <2>3. BreakerTypes'
    BY <1>5 DEF Restart, BreakerTypes, Phase
  <2> QED
    BY <2>2, <2>3 DEF Proxy!Next
<1>6. CASE Tick \/ (\E c \in Calls : Dribble(c)) \/ UNCHANGED vars
  BY <1>6 DEF Tick, Dribble, vars, BreakerTypes, breakerVars, Seen
<1> QED
  BY <1>1, <1>2, <1>3, <1>4, <1>5, <1>6 DEF Next

(* The detailed tool call implements the circuit breaker model: through the *)
(* lock, the token, the request, the polling or the session, every call     *)
(* ends in exactly one of RuntimeProxy's ways and is counted as such, for   *)
(* any number of calls that interleave at every await.                      *)
THEOREM CallsImplementProxy == Spec => ImplementsProxy
<1>1. Init => BreakerTypes /\ Proxy!Init
  <2> SUFFICES ASSUME Init PROVE BreakerTypes /\ Proxy!Init
    OBVIOUS
  <2>1. BreakerTypes
    BY DEF Init, BreakerTypes, Phase
  <2>2. Seen = [c \in Calls |-> "idle"]
    BY DEF Init, Seen
  <2> QED
    BY <2>1, <2>2 DEF Init, BreakerTypes, Seen, Proxy!Init, Proxy!Uncounted, Proxy!AllClosed
<1>2. BreakerTypes /\ [Next]_vars => BreakerTypes' /\ [Proxy!Next]_(Proxy!vars)
  BY NextSeen DEF Proxy!vars, Seen
<1> QED
  BY <1>1, <1>2, PTL DEF Spec, ImplementsProxy, Proxy!Spec
-----------------------------------------------------------------------------
(* The larger and the smaller of two numbers.                               *)
LEMMA PairBounds ==
  ASSUME NEW a \in Int, NEW b \in Int
  PROVE  /\ Max({a, b}) = IF a >= b THEN a ELSE b
         /\ Min({a, b}) = IF a <= b THEN a ELSE b
<1>1. \E x \in {a, b} : \A y \in {a, b} : x >= y
  OBVIOUS
<1>2. /\ Max({a, b}) \in {a, b}
      /\ \A y \in {a, b} : Max({a, b}) >= y
  BY <1>1 DEF Max
<1>3. \E x \in {a, b} : \A y \in {a, b} : x <= y
  OBVIOUS
<1>4. /\ Min({a, b}) \in {a, b}
      /\ \A y \in {a, b} : Min({a, b}) <= y
  BY <1>3 DEF Min
<1> QED
  BY <1>2, <1>4

LEMMA SubValue ==
  ASSUME NEW a \in Int, NEW b \in Int
  PROVE  Sub(a, b) = IF a >= b THEN a - b ELSE 0
<1>1. a - b \in Int /\ 0 \in Int
  OBVIOUS
<1>2. Max({a - b, 0}) = IF a - b >= 0 THEN a - b ELSE 0
  BY <1>1, PairBounds
<1> QED
  BY <1>2 DEF Sub

(* The request that goes out has a timeout.                                 *)
LEMMA SendTypes ==
  ASSUME CacheInv, NEW c \in Calls, Send(c)
  PROVE  /\ timer' \in [Calls -> Int]
         /\ phase' \in [Calls -> Phase]
         /\ \A d \in Calls \ {c} : phase'[d] = phase[d]
         /\ phase'[c] \in {"request", "pollreq", "session"}
<1>1. Timeout \in Int /\ SessionTime \in Int /\ deadline[c] \in Int
  BY ToolCallAssumption DEF CacheInv
<1>2. Max({deadline[c], 1}) \in Int
  BY <1>1, PairBounds
<1>3. Min({Timeout, Max({deadline[c], 1})}) \in Int
  BY <1>1, <1>2, PairBounds
<1>4. PICK n \in Int : timer' = [timer EXCEPT ![c] = n]
  BY <1>1, <1>3 DEF Send
<1>5. PICK p \in {"request", "pollreq", "session"} : phase' = [phase EXCEPT ![c] = p]
  <2>1. CASE deadline[c] # NoJob
    BY <2>1 DEF Send
  <2>2. CASE deadline[c] = NoJob
    BY <2>2 DEF Send
  <2> QED
    BY <2>1, <2>2
<1> QED
  BY <1>4, <1>5 DEF CacheInv, Phase, Awaiting

LEMMA AskTypes ==
  ASSUME CacheInv, NEW c \in Calls, AskForToken(c)
  PROVE  /\ timer' \in [Calls -> Int]
         /\ phase' \in [Calls -> Phase]
         /\ \A d \in Calls \ {c} : phase'[d] = phase[d]
         /\ phase'[c] = "token" /\ holder' = c /\ asked' \in Int
BY ToolCallAssumption DEF AskForToken, CacheInv, Phase, Awaiting

(* However a call ends, the lock is free if it had it.                      *)
LEMMA LeaveKeepsCache ==
  ASSUME CacheInv, NEW c \in Calls, NEW a \in Answer,
         phase' = [phase EXCEPT ![c] = a], Leave(c)
  PROVE  CacheInv'
<1>1. /\ timer' \in [Calls -> Int] /\ deadline' \in [Calls -> Int] /\ asked' \in Int
      /\ phase' \in [Calls -> Phase]
  BY ToolCallAssumption DEF Leave, CacheInv, Phase, NoJob
<1>2. /\ phase'[c] # "token" /\ \A d \in Calls \ {c} : phase'[d] = phase[d]
      /\ UNCHANGED <<cache, life>>
      /\ holder' = IF holder = c THEN None ELSE holder
  BY DEF Leave, CacheInv, Answer
<1>3. None \notin Calls
  BY ToolCallAssumption
<1>4. AskedByHolder'
  <2>1. ASSUME NEW d \in Calls, phase'[d] = "token" PROVE holder' = d /\ ~Usable'
    BY <1>2, <2>1 DEF CacheInv, AskedByHolder, Usable
  <2>2. ASSUME holder' # None PROVE phase'[holder'] = "token"
    <3>1. holder' = holder /\ holder # c /\ phase[holder] = "token"
      BY <1>2, <2>2 DEF CacheInv, AskedByHolder
    <3>2. phase'[holder] = phase[holder]
      BY <3>1, <1>2 DEF Leave, CacheInv
    <3> QED
      BY <3>1, <3>2
  <2> QED
    BY <2>1, <2>2 DEF AskedByHolder
<1> QED
  BY <1>1, <1>2, <1>4 DEF CacheInv

(* A call that gets no token from anyone and lets the cache alone keeps the *)
(* account of who asks.                                                     *)
LEMMA StepAside ==
  ASSUME CacheInv, NEW c \in Calls, phase[c] # "token", phase'[c] # "token",
         \A d \in Calls \ {c} : phase'[d] = phase[d],
         UNCHANGED <<cache, holder>>
  PROVE  AskedByHolder'
BY ToolCallAssumption DEF CacheInv, AskedByHolder, Usable

(* A call asks for a token only while nobody has the lock.                  *)
LEMMA AskAlone ==
  ASSUME CacheInv, NEW c \in Calls, holder = None, ~Usable, UNCHANGED cache,
         phase'[c] = "token", holder' = c, \A d \in Calls \ {c} : phase'[d] = phase[d]
  PROVE  AskedByHolder'
BY ToolCallAssumption DEF CacheInv, AskedByHolder, Usable

(* Authorize and the grant of the lock: either the cached token is usable   *)
(* and its request goes out, or the call asks or waits.                     *)
LEMMA AuthorizeCache ==
  ASSUME CacheInv, NEW c \in Calls, phase[c] \in {"start", "poll", "lock"},
         Authorize(c) \/ LockGranted(c)
  PROVE  /\ CacheInv'
         /\ \A d \in Calls \ {c} : phase'[d] = phase[d]
         /\ phase'[c] \in {"request", "pollreq", "session"} => life > Margin
<1>0. /\ UNCHANGED <<deadline, cache, life>>
      /\ phase[c] # "token" /\ None \notin Calls
  BY ToolCallAssumption DEF Authorize, LockGranted
<1>1. CASE Usable /\ Send(c) /\ holder' = holder /\ asked' = asked
  <2>1. life > Margin
    BY <1>1, ToolCallAssumption DEF Usable, CacheInv, NoToken
  <2>2. AskedByHolder'
    BY <1>0, <1>1, SendTypes, StepAside
  <2> QED
    BY <1>0, <1>1, <2>1, <2>2, SendTypes DEF CacheInv
<1>2. CASE ~Usable /\ holder = None /\ AskForToken(c)
  <2>1. AskedByHolder'
    BY <1>0, <1>2, AskTypes, AskAlone
  <2> QED
    BY <1>0, <1>2, <2>1, AskTypes DEF CacheInv
<1>3. CASE phase' = [phase EXCEPT ![c] = "lock"] /\ UNCHANGED <<timer, asked, holder>>
  <2>1. /\ phase' \in [Calls -> Phase] /\ phase'[c] = "lock"
        /\ \A d \in Calls \ {c} : phase'[d] = phase[d]
    BY <1>3 DEF CacheInv, Phase
  <2>2. AskedByHolder'
    BY <1>0, <1>3, <2>1, StepAside
  <2> QED
    BY <1>0, <1>3, <2>1, <2>2 DEF CacheInv
<1> QED
  BY <1>1, <1>2, <1>3 DEF Authorize, LockGranted

(* The token that is granted is cached for no longer than it lives.         *)
LEMMA GrantedCache ==
  ASSUME CacheInv, NEW c \in Calls, NEW e \in Lifetimes, TokenGranted(c, e)
  PROVE  CacheInv' /\ \A d \in Calls \ {c} : phase'[d] = phase[d]
<1>1. /\ e \in Int /\ 0 <= e /\ e <= Forever /\ Forever \in Nat
      /\ asked \in Int /\ None \notin Calls
  BY ToolCallAssumption DEF CacheInv
<1>2. /\ cache' \in 0 .. Forever /\ life' \in 0 .. Forever /\ cache' <= life'
  <2>1. CASE e = Forever
    BY <1>1, <2>1 DEF TokenGranted
  <2>2. CASE e # Forever
    <3>1. Sub(e, asked) \in Int /\ Sub(e, asked) >= 0
      BY <1>1, SubValue
    <3>2. cache' = Sub(e, asked) /\ life' \in Sub(e, asked) .. e
      BY <2>2 DEF TokenGranted
    <3> QED
      BY <1>1, <3>1, <3>2
  <2> QED
    BY <2>1, <2>2
<1>3. /\ holder = c /\ holder' = None /\ deadline' = deadline /\ asked' = 0
      /\ \A d \in Calls \ {c} : phase[d] # "token"
  BY DEF TokenGranted, CacheInv, AskedByHolder
<1>4. /\ timer' \in [Calls -> Int] /\ phase' \in [Calls -> Phase]
      /\ \A d \in Calls \ {c} : phase'[d] = phase[d]
      /\ phase'[c] \in {"request", "pollreq", "session"}
  BY SendTypes DEF TokenGranted
<1>5. AskedByHolder'
  BY <1>3, <1>4 DEF AskedByHolder
<1> QED
  BY <1>2, <1>3, <1>4, <1>5 DEF CacheInv

(* Time makes no token usable, and runs as fast for the cache as for the    *)
(* token.                                                                   *)
LEMMA TickCache ==
  ASSUME CacheInv, Tick
  PROVE  CacheInv'
<1>1. /\ Forever \in Nat /\ Margin \in Nat /\ JobTimeout \in Nat
      /\ cache \in Int /\ life \in Int
  BY ToolCallAssumption DEF CacheInv, NoToken
<1>2. timer' \in [Calls -> Int]
  <2>1. \A c \in Calls : Sub(timer[c], 1) \in Int
    BY SubValue DEF CacheInv
  <2> QED
    BY <2>1 DEF Tick
<1>3. deadline' \in [Calls -> Int]
  <2>1. \A c \in Calls : deadline[c] - 1 \in Int
    BY DEF CacheInv
  <2>2. \A c \in Calls : Max({deadline[c] - 1, -1}) \in Int
    BY <2>1, PairBounds
  <2> QED
    BY <1>1, <2>2 DEF Tick, NoJob
<1>4. /\ Sub(cache, 1) = IF cache >= 1 THEN cache - 1 ELSE 0
      /\ Sub(life, 1) = IF life >= 1 THEN life - 1 ELSE 0
  BY <1>1, SubValue
<1>5. /\ cache' \in 0 .. Forever \cup {NoToken} /\ life' \in 0 .. Forever
      /\ cache' <= life'
      /\ cache' > Margin => cache > Margin
  BY <1>1, <1>4 DEF Tick, CacheInv, NoToken
<1>6. AskedByHolder'
  BY <1>5 DEF Tick, CacheInv, AskedByHolder, Usable
<1>7. asked' \in Int
  BY DEF Tick, CacheInv
<1> QED
  BY <1>2, <1>3, <1>5, <1>6, <1>7 DEF Tick, CacheInv

(* Every step keeps CacheInv, and only a usable token is sent.              *)
LEMMA NextCache ==
  ASSUME CacheInv, [Next]_vars
  PROVE  /\ CacheInv'
         /\ \A c \in Calls :
              /\ phase[c] \in {"start", "poll", "lock"}
              /\ phase'[c] \in {"request", "pollreq", "session"}
              => life > Margin
<1> DEFINE Sends(c) == /\ phase[c] \in {"start", "poll", "lock"}
                       /\ phase'[c] \in {"request", "pollreq", "session"}
<1>1. ASSUME NEW c \in Calls, NEW o \in Operations, Invoke(c, o)
      PROVE  CacheInv' /\ \A d \in Calls : ~Sends(d)
  <2>1. /\ phase' \in [Calls -> Phase] /\ phase'[c] \in {"blocked", "start"}
        /\ \A d \in Calls \ {c} : phase'[d] = phase[d]
    BY <1>1 DEF Invoke, CacheInv, Phase, Answer
  <2>2. phase[c] = "idle" /\ UNCHANGED <<timer, deadline, cache, life, asked, holder>>
    BY <1>1 DEF Invoke, tokenVars
  <2>3. AskedByHolder'
    BY <2>1, <2>2, StepAside
  <2> QED
    BY <2>1, <2>2, <2>3 DEF CacheInv
<1>2. ASSUME NEW c \in Calls, Succeed(c) \/ Fail(c) \/ RaiseToolError(c) \/ Cancel(c)
      PROVE  CacheInv' /\ \A d \in Calls : ~Sends(d)
  <2>1. PICK a \in Answer : phase' = [phase EXCEPT ![c] = a] /\ Leave(c)
    BY <1>2 DEF Succeed, Fail, RaiseToolError, Cancel, Answer
  <2>2. \A d \in Calls : phase'[d] \in {phase[d]} \cup Answer
    BY <2>1 DEF CacheInv
  <2> QED
    BY <2>1, <2>2, LeaveKeepsCache DEF Answer
<1>3. ASSUME NEW c \in Calls, phase[c] \in {"start", "poll", "lock"}, Authorize(c) \/ LockGranted(c)
      PROVE  CacheInv' /\ \A d \in Calls : Sends(d) => life > Margin
  BY <1>3, AuthorizeCache
<1>4. ASSUME NEW c \in Calls, NEW e \in Lifetimes, TokenGranted(c, e)
      PROVE  CacheInv' /\ \A d \in Calls : ~Sends(d)
  BY <1>4, GrantedCache DEF TokenGranted
<1>5. ASSUME NEW c \in Calls, NEW p \in {"poll", "sleep", "idle"}, NEW n \in Int,
             phase[c] \in {"request", "pollreq", "sleep"} \cup Answer,
             phase' = [phase EXCEPT ![c] = p], timer' = [timer EXCEPT ![c] = n],
             deadline' \in [Calls -> Int], UNCHANGED tokenVars
      PROVE  CacheInv' /\ \A d \in Calls : ~Sends(d)
  <2>1. /\ phase' \in [Calls -> Phase] /\ phase'[c] = p
        /\ \A d \in Calls \ {c} : phase'[d] = phase[d]
        /\ timer' \in [Calls -> Int]
        /\ UNCHANGED <<cache, life, asked, holder>>
    BY <1>5 DEF CacheInv, Phase, Awaiting, tokenVars
  <2>2. AskedByHolder'
    BY <1>5, <2>1, StepAside DEF Answer
  <2> QED
    BY <1>5, <2>1, <2>2 DEF CacheInv
<1>6. ASSUME NEW c \in Calls, Response(c) \/ PollResponse(c) \/ Wake(c) \/ Return(c)
      PROVE  CacheInv' /\ \A d \in Calls : ~Sends(d)
  <2>1. /\ Interval \in Int /\ JobTimeout \in Int /\ timer[c] \in Int
        /\ timer = [timer EXCEPT ![c] = timer[c]]
        /\ deadline \in [Calls -> Int]
        /\ [deadline EXCEPT ![c] = JobTimeout] \in [Calls -> Int]
    BY ToolCallAssumption DEF CacheInv
  <2>2. CASE Succeed(c) \/ Fail(c) \/ RaiseToolError(c)
    BY <1>2, <2>2
  <2>3. CASE /\ phase[c] = "request" /\ phase' = [phase EXCEPT ![c] = "poll"]
             /\ timer' = [timer EXCEPT ![c] = 0]
             /\ deadline' = [deadline EXCEPT ![c] = JobTimeout]
             /\ UNCHANGED tokenVars
    <3>1. deadline' \in [Calls -> Int] /\ 0 \in Int
      BY <2>1, <2>3
    <3> QED
      BY <1>5, <2>3, <3>1
  <2>4. CASE /\ phase[c] = "pollreq" /\ phase' = [phase EXCEPT ![c] = "sleep"]
             /\ timer' = [timer EXCEPT ![c] = Interval]
             /\ UNCHANGED <<deadline, tokenVars>>
    BY <1>5, <2>1, <2>4
  <2>5. CASE Wake(c)
    BY <1>5, <2>1, <2>5 DEF Wake
  <2>6. CASE Return(c)
    BY <1>5, <2>1, <2>6 DEF Return
  <2> QED
    BY <1>6, <2>2, <2>3, <2>4, <2>5, <2>6 DEF Response, PollResponse, Judge
<1>7. CASE Restart
  BY <1>7, ToolCallAssumption
     DEF Restart, CacheInv, AskedByHolder, Phase, NoToken, NoJob
<1>8. CASE Tick
  <2>1. phase' = phase
    BY <1>8 DEF Tick
  <2> QED
    BY <1>8, <2>1, TickCache
<1>9. CASE UNCHANGED vars
  BY <1>9 DEF vars, tokenVars, CacheInv, AskedByHolder, Usable
<1>10. ASSUME NEW c \in Calls, Dribble(c)
       PROVE  CacheInv' /\ \A d \in Calls : ~Sends(d)
  <2>1. /\ UNCHANGED <<phase, deadline, cache, life, asked, holder>>
        /\ timer' \in [Calls -> Int]
    BY <1>10, ToolCallAssumption DEF Dribble, tokenVars, CacheInv
  <2> QED
    BY <2>1 DEF CacheInv, AskedByHolder, Usable
<1>11. ASSUME NEW c \in Calls,
              \/ NativeEnds(c) \/ Cancel(c) \/ Prepare(c) \/ LockGranted(c) \/ Poll(c)
              \/ TokenFails(c) \/ SessionEnds(c) \/ RequestFails(c)
       PROVE  CacheInv' /\ \A d \in Calls : Sends(d) => life > Margin
  <2>1. \/ Succeed(c) \/ Fail(c) \/ RaiseToolError(c) \/ Cancel(c)
        \/ phase[c] \in {"start", "poll", "lock"} /\ (Authorize(c) \/ LockGranted(c))
    BY <1>11 DEF NativeEnds, Prepare, LockGranted, Poll, TokenFails, SessionEnds, RequestFails
  <2> QED
    BY <1>2, <1>3, <2>1
<1> QED
  BY <1>1, <1>4, <1>6, <1>7, <1>8, <1>9, <1>11, <1>10 DEF Next

(* The token cache is sound for any number of calls that race for the       *)
(* token, however long the endpoint takes and whatever lifetimes it grants: *)
(* one call asks at a time and only when it must, and no cached token goes  *)
(* out with less than the margin to live.                                   *)
THEOREM TokensAreSound == Spec => TokenCacheSound
<1>1. Init => CacheInv
  BY ToolCallAssumption DEF Init, CacheInv, AskedByHolder, Phase, NoToken, NoJob
<1>2. CacheInv /\ [Next]_vars => CacheInv'
  BY NextCache
<1>3. CacheInv /\ [Next]_vars =>
        [/\ AskedByHolder'
         /\ \A c \in Calls :
              /\ phase[c] \in {"start", "poll", "lock"}
              /\ phase'[c] \in {"request", "pollreq", "session"}
              => life > Margin]_vars
  BY NextCache DEF CacheInv
<1> QED
  BY <1>1, <1>2, <1>3, PTL DEF Spec, TokenCacheSound
=============================================================================
