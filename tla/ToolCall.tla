------------------------------ MODULE ToolCall ------------------------------
(***************************************************************************)
(* A tool call from invoke to its answer, await by await: the native paths *)
(* and the HTTP path of RuntimeProxy (apps/mcp_runtime/proxy.py), the      *)
(* OAuth2 token cache with its lock (proxy_utils.py), one request and the  *)
(* polling of an asynchronous job (proxy_http.py), and a streaming session *)
(* (proxy_streaming.py).  It implements RuntimeProxy.                      *)
(*                                                                         *)
(* Coroutines run without interruption between two awaits.  A coroutine    *)
(* that can run does so before time passes.  All durations count down, so  *)
(* that time has no bound.  A service has one auth configuration and so    *)
(* one cache key; other kinds of auth have no await and no state.          *)
(***************************************************************************)
EXTENDS Integers, Sequences, FiniteSets, FiniteSetsExt

CONSTANTS
  Operations,  \* ids of the operations of the loaded service
  Kind,        \* Kind[o]: "native", "stream", "http" or "job" (with async_job)
  Calls,       \* calls that may be in progress at the same time
  None,        \* no call
  Threshold,   \* failure_threshold of every breaker
  Timeout,     \* how long httpx waits for one read of an answer
  Margin,      \* a cached token must live longer than this (30 s)
  Lifetimes,   \* the expires_in of issued tokens; Forever: none given
  Forever,
  JobTimeout,  \* async_job.timeout_seconds
  Interval,    \* async_job.poll_interval_seconds
  SessionTime  \* the longest streaming session

ASSUME ToolCallAssumption ==
  /\ Kind \in [Operations -> {"native", "stream", "http", "job"}]
  /\ IsFiniteSet(Calls) /\ None \notin Calls
  /\ {Threshold, Timeout, JobTimeout, Interval, SessionTime} \subseteq Nat \ {0}
  /\ Margin \in Nat
  /\ Lifetimes \subseteq Nat /\ Forever \in Nat
  /\ \A e \in Lifetimes : e <= Forever
  /\ JobTimeout < Forever

VARIABLES
  phase,     \* phase[c]: where the coroutine of c is, or its answer
  operation, \* operation[c]: the operation c invokes
  failures, is_open, gauge, \* the breakers, as in RuntimeProxy
  timer,     \* timer[c]: what is left of the timeout or the sleep of c
  deadline,  \* deadline[c]: time until the deadline of c's job, or NoJob
  cache,     \* time until expires_at of the cached token, or NoToken
  life,      \* time until the cached token really expires
  asked,     \* time since the token endpoint was asked, up to Forever
  holder,    \* the call that has the lock of the token cache, or None
  waiters    \* the calls that wait for the lock, in order

breakerVars == <<failures, is_open, gauge>>
tokenVars == <<cache, life, asked, holder, waiters>>
vars == <<phase, operation, breakerVars, timer, deadline, tokenVars>>

NoToken == -1
NoJob == Forever

Native == {o \in Operations : Kind[o] \in {"native", "stream"}}
Answer == {"ok", "error", "blocked"}
Awaiting == {"token", "request", "pollreq", "sleep", "session"}

TypeOK ==
  /\ phase \in [Calls -> Answer \cup Awaiting \cup
                         {"idle", "start", "lock", "poll"}]
  /\ operation \in [Calls -> Operations]
  /\ failures \in [Operations -> Nat]
  /\ is_open \in [Operations -> BOOLEAN]
  /\ gauge \in [Operations -> BOOLEAN]
  /\ timer \in [Calls -> 0 .. Max({Timeout, Interval, SessionTime})]
  /\ deadline \in [Calls -> -1 .. JobTimeout \cup {NoJob}]
  /\ cache \in 0 .. Forever \cup {NoToken}
  /\ life \in 0 .. Forever
  /\ asked \in 0 .. Forever
  /\ holder \in Calls \cup {None}
  /\ waiters \in Seq(Calls)

Init ==
  /\ phase = [c \in Calls |-> "idle"]
  /\ operation \in {[c \in Calls |-> o] : o \in Operations}
  /\ failures = [o \in Operations |-> 0]
  /\ is_open = [o \in Operations |-> FALSE]
  /\ gauge = [o \in Operations |-> FALSE]
  /\ timer = [c \in Calls |-> 0]
  /\ deadline = [c \in Calls |-> NoJob]
  /\ cache = NoToken /\ life = 0 /\ asked = 0
  /\ holder = None /\ waiters = <<>>

(* What RuntimeProxy sees: every await is "upstream".                       *)
Proxy == INSTANCE RuntimeProxy WITH
  phase <- [c \in Calls |-> IF phase[c] \in Answer \cup {"idle"}
                            THEN phase[c] ELSE "upstream"]
-----------------------------------------------------------------------------
(* Mutant: the breaker guards the HTTP path only.                           *)
Invoke_NativeUnguarded(c, o) ==
  /\ phase[c] = "idle"
  /\ operation' = [operation EXCEPT ![c] = o]
  /\ phase' = [phase EXCEPT ![c] =
                 IF is_open[o] /\ o \notin Native THEN "blocked" ELSE "start"]
  /\ gauge' = [gauge EXCEPT ![o] = @ \/ is_open[o]]
  /\ UNCHANGED <<failures, is_open, timer, deadline, tokenVars>>

(* invoke, up to the breaker's verdict.                                     *)
Invoke(c, o) ==
  /\ phase[c] = "idle"
  /\ operation' = [operation EXCEPT ![c] = o]
  /\ phase' = [phase EXCEPT ![c] = IF is_open[o] THEN "blocked" ELSE "start"]
  /\ gauge' = [gauge EXCEPT ![o] = @ \/ is_open[o]]
  /\ UNCHANGED <<failures, is_open, timer, deadline, tokenVars>>

(* Mutant: a cancelled call keeps its place among the waiters.              *)
Leave_StaysQueued(c) ==
  /\ timer' = [timer EXCEPT ![c] = 0]
  /\ deadline' = [deadline EXCEPT ![c] = NoJob]
  /\ holder' = IF holder = c THEN None ELSE holder
  /\ asked' = IF holder = c THEN 0 ELSE asked
  /\ UNCHANGED <<operation, cache, life, waiters>>

(* However a call ends, its locals are gone and async with frees the lock.  *)
Leave(c) ==
  /\ timer' = [timer EXCEPT ![c] = 0]
  /\ deadline' = [deadline EXCEPT ![c] = NoJob]
  /\ holder' = IF holder = c THEN None ELSE holder
  /\ asked' = IF holder = c THEN 0 ELSE asked
  /\ waiters' = SelectSeq(waiters, LAMBDA w : w # c)
  /\ UNCHANGED <<operation, cache, life>>

Succeed(c) ==
  /\ phase' = [phase EXCEPT ![c] = "ok"]
  /\ Proxy!RecordSuccess(operation[c])
  /\ Leave(c)

(* A failure that a breaker counts: httpx errors and check_protocol_errors. *)
Fail(c) ==
  /\ phase' = [phase EXCEPT ![c] = "error"]
  /\ Proxy!RecordFailure(operation[c])
  /\ Leave(c)

(* ToolError: counted on the native paths only.                             *)
RaiseToolError(c) ==
  /\ phase' = [phase EXCEPT ![c] = "error"]
  /\ IF operation[c] \in Native
     THEN Proxy!RecordFailure(operation[c]) ELSE UNCHANGED breakerVars
  /\ Leave(c)

(* Any other exception, and the cancellation of the call at any await.      *)
Cancel(c) ==
  /\ phase[c] \in Awaiting \cup {"start", "lock"}
  /\ phase' = [phase EXCEPT ![c] = "error"]
  /\ UNCHANGED breakerVars
  /\ Leave(c)

(* The SQL, gRPC, CLI, broker or webhook executor of a native operation.    *)
(* Nothing bounds its time: the statements of the SQL executor and the      *)
(* reflection of the gRPC executors have no timeout.                        *)
NativeEnds(c) ==
  /\ phase[c] = "start" /\ Kind[operation[c]] = "native"
  /\ Succeed(c) \/ RaiseToolError(c)
-----------------------------------------------------------------------------
(* The token cache.                                                         *)
Usable == cache > Margin

(* The request of c goes out, with the token it has.                        *)
Send(c) ==
  LET polling == deadline[c] # NoJob
      session == ~polling /\ Kind[operation[c]] = "stream"
  IN
  /\ phase' = [phase EXCEPT ![c] = CASE polling -> "pollreq"
                                     [] session -> "session"
                                     [] OTHER -> "request"]
  /\ timer' = [timer EXCEPT ![c] =
                 CASE polling -> Min({Timeout, Max({deadline[c], 1})})
                   [] session -> SessionTime
                   [] OTHER -> Timeout]

AskForToken(c) ==
  /\ phase' = [phase EXCEPT ![c] = "token"]
  /\ timer' = [timer EXCEPT ![c] = Timeout]
  /\ holder' = c
  /\ asked' = 0

(* fetch_oauth2_access_token up to its first await.                         *)
Authorize(c) ==
  /\ UNCHANGED <<operation, breakerVars, deadline, cache, life>>
  /\ \/ Usable /\ Send(c) /\ UNCHANGED <<asked, holder, waiters>>
     \/ /\ ~Usable /\ holder = None /\ waiters = <<>>
        /\ AskForToken(c) /\ UNCHANGED waiters
     \/ /\ ~Usable /\ ~(holder = None /\ waiters = <<>>)
        /\ phase' = [phase EXCEPT ![c] = "lock"]
        /\ waiters' = Append(waiters, c)
        /\ UNCHANGED <<timer, asked, holder>>

(* The first waiter gets the lock and looks at the cache again.             *)
LockGranted(c) ==
  /\ phase[c] = "lock" /\ holder = None /\ Head(waiters) = c
  /\ waiters' = Tail(waiters)
  /\ IF Usable THEN Send(c) /\ UNCHANGED <<asked, holder>> ELSE AskForToken(c)
  /\ UNCHANGED <<operation, breakerVars, deadline, cache, life>>

Sub(a, b) == Max({a - b, 0})

(* Mutant: expires_at counts from the answer.                               *)
TokenGranted_ClockAfter(c, e) ==
  /\ phase[c] = "token"
  /\ cache' = e
  /\ life' \in IF e = Forever THEN {e} ELSE Sub(e, asked) .. e
  /\ holder' = None
  /\ Send(c)
  /\ asked' = 0
  /\ UNCHANGED <<operation, breakerVars, deadline, waiters>>

(* The token endpoint grants a token that lives for e from some moment      *)
(* between request and answer; expires_at counts from the request.          *)
TokenGranted(c, e) ==
  /\ phase[c] = "token"
  /\ cache' = IF e = Forever THEN e ELSE Sub(e, asked)
  /\ life' \in IF e = Forever THEN {e} ELSE Sub(e, asked) .. e
  /\ holder' = None
  /\ Send(c)
  /\ asked' = 0
  /\ UNCHANGED <<operation, breakerVars, deadline, waiters>>

(* The endpoint is unreachable, late, or answers with an error or without a *)
(* token: a ToolError.  Other transport errors stay httpx errors.           *)
TokenFails(c) ==
  /\ phase[c] = "token"
  /\ RaiseToolError(c) \/ Fail(c)
-----------------------------------------------------------------------------
(* perform_request, poll_async_job and perform_stream_session.              *)

(* The URL and the payload are built, then the request is authorized; what  *)
(* cannot be built is a ToolError.                                          *)
Prepare(c) ==
  /\ phase[c] = "start" /\ Kind[operation[c]] # "native"
  /\ Authorize(c) \/ RaiseToolError(c)

(* An answer that is final: check_protocol_errors has the last word.        *)
Judge(c) == Succeed(c) \/ Fail(c)

(* The answer to the first request.  A job whose answer has one of          *)
(* initial_status_codes and a status URL of the same origin is polled.      *)
Response(c) ==
  /\ phase[c] = "request"
  /\ \/ Judge(c)
     \/ /\ Kind[operation[c]] = "job"
        /\ \/ RaiseToolError(c)
           \/ /\ phase' = [phase EXCEPT ![c] = "poll"]
              /\ timer' = [timer EXCEPT ![c] = 0]
              /\ deadline' = [deadline EXCEPT ![c] = JobTimeout]
              /\ UNCHANGED <<operation, breakerVars, tokenVars>>

(* The head of the polling loop.                                            *)
Poll(c) ==
  /\ phase[c] = "poll"
  /\ IF deadline[c] < 0 THEN RaiseToolError(c) ELSE Authorize(c)

(* The job has ended well or with a state the configuration does not know,  *)
(* has failed or sent no JSON, or is pending.                               *)
PollResponse(c) ==
  /\ phase[c] = "pollreq"
  /\ \/ Judge(c)
     \/ RaiseToolError(c)
     \/ /\ phase' = [phase EXCEPT ![c] = "sleep"]
        /\ timer' = [timer EXCEPT ![c] = Interval]
        /\ UNCHANGED <<operation, breakerVars, deadline, tokenVars>>

Wake(c) ==
  /\ phase[c] = "sleep" /\ timer[c] = 0
  /\ phase' = [phase EXCEPT ![c] = "poll"]
  /\ UNCHANGED <<operation, breakerVars, timer, deadline, tokenVars>>

(* A session is refused (status, content type), or collects until it has    *)
(* enough, the stream ends or breaks, or one of its timeouts is over.       *)
SessionEnds(c) ==
  /\ phase[c] = "session"
  /\ Succeed(c) \/ RaiseToolError(c)

(* The connection breaks, or httpx gives the request up.                    *)
RequestFails(c) ==
  /\ phase[c] \in {"request", "pollreq", "session"}
  /\ Fail(c)

(* A part of the answer (of a session: of its headers) arrives.  The        *)
(* timeout of httpx is that of one read, so that it starts anew.            *)
Dribble(c) ==
  /\ phase[c] \in {"token", "request", "pollreq", "session"}
  /\ timer[c] > 0
  /\ \E n \in timer[c] + 1 .. IF phase[c] = "session" THEN SessionTime ELSE Timeout :
       timer' = [timer EXCEPT ![c] = n]
  /\ UNCHANGED <<phase, operation, breakerVars, deadline, tokenVars>>

(* A request that has been silent for its timeout is given up.              *)
GiveUp(c) ==
  /\ timer[c] = 0
  /\ TokenFails(c) \/ RequestFails(c) \/ SessionEnds(c)
-----------------------------------------------------------------------------
(* The caller has the answer; the slot is free.                             *)
Return(c) ==
  /\ phase[c] \in Answer
  /\ phase' = [phase EXCEPT ![c] = "idle"]
  /\ UNCHANGED <<operation, breakerVars, timer, deadline, tokenVars>>

Restart ==
  /\ phase' = [c \in Calls |-> "idle"]
  /\ failures' = [o \in Operations |-> 0]
  /\ is_open' = [o \in Operations |-> FALSE]
  /\ gauge' = [o \in Operations |-> FALSE]
  /\ timer' = [c \in Calls |-> 0]
  /\ deadline' = [c \in Calls |-> NoJob]
  /\ cache' = NoToken /\ life' = 0 /\ asked' = 0
  /\ holder' = None /\ waiters' = <<>>
  /\ UNCHANGED operation

Runnable(c) ==
  \/ phase[c] = "start" /\ Kind[operation[c]] # "native"
  \/ phase[c] = "poll"
  \/ phase[c] = "lock" /\ holder = None /\ Head(waiters) = c
  \/ phase[c] \in Awaiting /\ timer[c] = 0

(* Time passes while every coroutine waits and something depends on time.   *)
Tick ==
  /\ \A c \in Calls : ~Runnable(c)
  /\ \E c \in Calls : phase[c] \in Awaiting
     \/ cache \in 1 .. Forever - 1
  /\ timer' = [c \in Calls |-> Sub(timer[c], 1)]
  /\ deadline' = [c \in Calls |->
                    IF deadline[c] = NoJob THEN NoJob
                    ELSE Max({deadline[c] - 1, -1})]
  /\ cache' = IF cache \in {NoToken, Forever} THEN cache ELSE Sub(cache, 1)
  /\ life' = IF life = Forever THEN life ELSE Sub(life, 1)
  /\ asked' = IF holder = None \/ asked = Forever THEN asked ELSE asked + 1
  /\ UNCHANGED <<phase, operation, breakerVars, holder, waiters>>

Runs(c) == Prepare(c) \/ LockGranted(c) \/ Poll(c) \/ Wake(c) \/ GiveUp(c)

Next ==
  \/ \E c \in Calls :
       \/ \E o \in Operations : Invoke(c, o)
       \/ NativeEnds(c) \/ Cancel(c)
       \/ Prepare(c) \/ LockGranted(c) \/ Poll(c) \/ Wake(c)
       \/ \E e \in Lifetimes : TokenGranted(c, e)
       \/ TokenFails(c) \/ Response(c) \/ PollResponse(c)
       \/ SessionEnds(c) \/ RequestFails(c) \/ Dribble(c)
       \/ Return(c)
  \/ Tick
  \/ Restart

Spec == Init /\ [][Next]_vars

(* The event loop runs what can run, a silent request times out, and time   *)
(* passes: no run of calls fits into a moment for ever.  Nothing is assumed *)
(* of the executors of native operations, nor of what upstreams send.       *)
Fairness ==
  /\ SF_vars(Tick)
  /\ \A c \in Calls : WF_vars(Runs(c))

FairSpec == Spec /\ Fairness
-----------------------------------------------------------------------------
(* The detailed call implements the circuit breaker model: every way a call *)
(* ends on every path is counted as RuntimeProxy says.                      *)
ImplementsProxy == Proxy!Spec

AskedByHolder ==
  /\ \A c \in Calls : phase[c] = "token" => holder = c /\ ~Usable
  /\ holder # None => phase[holder] = "token"

(* The token cache.  The token endpoint is asked by one call at a time, and *)
(* only while no usable token is cached: the calls that waited share the    *)
(* answer.  And a request never goes out with a cached token that has less  *)
(* than the margin to live, although the endpoint took time to answer and   *)
(* the expiry was computed from a clock read before.  (A token that was     *)
(* just granted is used whatever its lifetime.)                             *)
TokenCacheSound ==
  [][/\ AskedByHolder'
     /\ \A c \in Calls :
          /\ phase[c] \in {"start", "poll", "lock"}
          /\ phase'[c] \in {"request", "pollreq", "session"}
          => life > Margin]_vars

(* From some time on no answer to c, and no answer of the token endpoint to *)
(* anyone, arrives bit by bit.                                              *)
NoEndlessAnswer(c) ==
  <>[][\A d \in Calls : Dribble(d) => d # c /\ phase[d] # "token"]_vars

(* Every call that is let through to an HTTP upstream is answered: no call  *)
(* is forgotten at the lock, no lock stays with a call that failed or was   *)
(* cancelled, no polling goes on for ever, and neither a native executor    *)
(* that never returns nor the endless answer to another call holds it up.   *)
(* Only its own answer, or one of the token endpoint (asked under the       *)
(* lock), keeps it waiting by arriving bit by bit for ever.                 *)
CallsEnd ==
  \A c \in Calls : NoEndlessAnswer(c) =>
    (phase[c] = "start" /\ Kind[operation[c]] # "native" ~> phase[c] \in Answer \cup {"idle"})
=============================================================================
