------------------------------ MODULE Sessions ------------------------------
(***************************************************************************)
(* One call of a tool that listens to its upstream for a while             *)
(* (apps/mcp_runtime/proxy_streaming.py, grpc_stream.py, grpc_unary.py,    *)
(* cli_executor.py, event_bridge.py): an SSE response, a WebSocket, a gRPC *)
(* call in a thread of its own or a process.  The upstream sends items     *)
(* when it likes, ends or breaks; the collector reads them one by one,     *)
(* under an idle timeout, an overall timeout or a deadline, and answers    *)
(* with the events it made of them and the reason why it stopped.          *)
(*                                                                         *)
(* An item of an SSE response is a line: data, id, comment or blank.  An   *)
(* event is the sequence of the items it was made of.  Time is counted in  *)
(* units in which all limits are whole numbers.                            *)
(***************************************************************************)
EXTENDS Naturals, Sequences, FiniteSets, SequencesExt, FiniteSetsExt

CONSTANTS
  Transports,      \* the transports looked at
  MaxMessages,     \* max_events, max_messages
  IdleTimeouts,    \* the values of idle_timeout_seconds looked at
  ReadTimeout,     \* the HTTP client's own limit for one read
  OverallTimeout,  \* _MAX_OVERALL_STREAM_TIMEOUT_SECONDS
  CallTimeout,     \* timeout_seconds of a command or a unary call
  MaxItems         \* bound: items that the upstream sends

ASSUME SessionsAssumption ==
  /\ Transports \subseteq {"sse", "websocket", "grpc_stream", "grpc_unary", "cli",
                           "broker", "stub"}
  /\ IdleTimeouts \subseteq Nat \ {0}
  /\ {MaxMessages, ReadTimeout, OverallTimeout, CallTimeout} \subseteq Nat \ {0}
  /\ MaxItems \in Nat

VARIABLES
  transport,  \* how the tool reaches its upstream
  idleTimeout, \* idle_timeout_seconds of its descriptor
  reflecting, \* is a gRPC session asking the reflection service for its method?
  pc,         \* open, collect, answered, or abandoned by a client that left
  sent,       \* items the upstream has sent
  end,        \* how the upstream ended: no, eof, error
  read,       \* number of items the collector has read
  block,      \* data_lines and event_id of the event that is being read
  events,     \* events collected
  idle,       \* time since the collector began to wait for an item
  total,      \* time since it began to collect
  open,       \* is the connection, thread or process still there?
  answer      \* the result: status, termination_reason, events

config == <<transport, idleTimeout, reflecting>>
sessionVars == <<config, pc, sent, end, read, block, events, idle, total, open, answer>>

NoAnswer == [status |-> "none", reason |-> "none", events |-> <<>>]

SessionTypeOK ==
  /\ transport \in Transports /\ idleTimeout \in IdleTimeouts
  /\ reflecting \in BOOLEAN
  /\ pc \in {"open", "collect", "answered", "abandoned"}
  /\ sent \in Seq({"data", "id", "comment", "blank", "message"})
  /\ end \in {"no", "eof", "error"}
  /\ read \in 0 .. Len(sent)
  /\ block \in Seq(1 .. MaxItems)
  /\ events \in Seq(Seq(1 .. MaxItems))
  /\ idle \in Nat /\ total \in Nat
  /\ open \in BOOLEAN
  /\ answer.status \in {"none", "ok", "error"}

SessionInit ==
  /\ transport \in Transports /\ idleTimeout \in IdleTimeouts
  /\ reflecting = FALSE
  /\ pc = "open" /\ sent = <<>> /\ end = "no"
  /\ read = 0 /\ block = <<>> /\ events = <<>>
  /\ idle = 0 /\ total = 0
  /\ open = FALSE /\ answer = NoAnswer
-----------------------------------------------------------------------------
(* The end of the collector: what was opened is closed (async with, finally *)
(* or kill), and a client that is still there gets the answer.              *)
Finish(status, reason, evs) ==
  /\ open' = FALSE
  /\ IF pc = "abandoned" THEN UNCHANGED <<pc, answer>>
     ELSE /\ pc' = "answered"
          /\ answer' = [status |-> status, reason |-> reason, events |-> evs]
  /\ UNCHANGED <<config, sent, end, read, block, events, idle, total>>

ToolError == Finish("error", "none", <<>>)

Grpc == transport \in {"grpc_stream", "grpc_unary"}

(* perform_stream_session up to the first read.  The request is sent or the *)
(* connection made, the process started; a gRPC session has its thread and  *)
(* its channel, and asks the reflection service for the method first.       *)
Open ==
  /\ pc = "open" /\ transport \notin {"broker", "stub"}
  /\ pc' = "collect" /\ open' = TRUE
  /\ reflecting' = Grpc
  /\ UNCHANGED <<transport, idleTimeout, sent, end, read, block, events, idle, total, answer>>

(* The reflection service answers when it likes: that call has no deadline. *)
(* Then the method is called, with its deadline.                            *)
Reflected ==
  /\ open /\ reflecting
  /\ reflecting' = FALSE
  /\ UNCHANGED <<transport, idleTimeout, pc, sent, end, read, block, events, idle, total, open,
                 answer>>

(* consume_sse_stream: bad arguments, a status of 400 or more, a content    *)
(* type that is no event stream.                                            *)
RequestRefused ==
  /\ pc = "open" /\ transport = "sse"
  /\ ToolError

(* consume_websocket_stream: no connection, or it breaks while sending.     *)
ConnectFails ==
  /\ pc = "open" /\ transport = "websocket"
  /\ ToolError

(* _invoke_sync: a mode other than server, a URL that is no gRPC target; a  *)
(* reflection service that is not there or fails, a method that it does not *)
(* find, arguments that do not fit it.                                      *)
ReflectionFails ==
  /\ \/ pc = "open" /\ Grpc
     \/ open /\ reflecting
  /\ ToolError

(* execute_cli_tool reports a command that cannot be started by its exit    *)
(* code, and _perform_cli raises.                                           *)
CommandNotStarted ==
  /\ pc = "open" /\ transport = "cli"
  /\ ToolError

(* _perform_event_bridge: the runtime builds the broker's client and never  *)
(* connects it, so that observe and publish raise.                          *)
BrokerNotConnected ==
  /\ pc = "open" /\ transport = "broker"
  /\ ToolError

(* StubEventBridgeClient, without the broker's library: a placeholder.      *)
StubAnswers ==
  /\ pc = "open" /\ transport = "stub"
  /\ Finish("ok", "stub", <<>>)
-----------------------------------------------------------------------------
(* The upstream.                                                            *)
Items == IF transport = "sse" THEN {"data", "id", "comment", "blank"} ELSE {"message"}

UpstreamSends(item) ==
  /\ open /\ ~reflecting /\ end = "no" /\ Len(sent) < MaxItems
  /\ item \in Items
  /\ sent' = Append(sent, item)
  /\ UNCHANGED <<config, pc, end, read, block, events, idle, total, open, answer>>

UpstreamEnds(how) ==
  /\ open /\ ~reflecting /\ end = "no"
  /\ end' = how
  /\ UNCHANGED <<config, pc, sent, read, block, events, idle, total, open, answer>>
-----------------------------------------------------------------------------
(* The collector.                                                           *)

(* The process of a command whose caller has left.                          *)
Orphan == pc = "abandoned" /\ transport = "cli"

Waiting == open /\ ~Orphan /\ ~reflecting /\ read = Len(sent)

Collect(evs, blk) ==
  /\ events' = evs /\ block' = blk
  /\ read' = read + 1 /\ idle' = 0
  /\ UNCHANGED <<config, pc, sent, end, total, open, answer>>

(* Mutant: the lines of an event are not forgotten when it is complete.     *)
SseLine_KeepsLines ==
  CASE sent[read + 1] = "blank" /\ block # <<>> -> Collect(Append(events, block), block)
    [] sent[read + 1] \in {"data", "id"} -> Collect(events, Append(block, read + 1))
    [] OTHER -> Collect(events, block)

(* _collect_sse_events: one line.  A blank line makes an event of the lines *)
(* before it, if there are any.                                             *)
SseLine ==
  CASE sent[read + 1] = "blank" /\ block # <<>> -> Collect(Append(events, block), <<>>)
    [] sent[read + 1] \in {"data", "id"} -> Collect(events, Append(block, read + 1))
    [] OTHER -> Collect(events, block)

(* _collect_websocket_messages, _invoke_sync, communicate: one message.     *)
Message == Collect(Append(events, <<read + 1>>), <<>>)

(* Reading stops once there are enough events.                              *)
Full ==
  \/ transport \in {"sse", "websocket", "grpc_stream"} /\ Len(events) >= MaxMessages
  \/ transport = "grpc_unary" /\ Len(events) >= 1

Read ==
  /\ open /\ ~Orphan /\ read < Len(sent) /\ ~Full
  /\ IF transport = "sse" THEN SseLine ELSE Message

Enough ==
  /\ open /\ Full
  /\ Finish("ok", IF transport = "grpc_unary" THEN "completed" ELSE "max_messages", events)

(* An event that the end of the response cut short is still an event.       *)
Trailing == IF block = <<>> THEN events ELSE Append(events, block)

(* The end of the upstream is seen when all it sent has been read.          *)
SeesEnd(ends) == Waiting /\ ~Full /\ end \in ends

(* StopAsyncIteration: eof, or max_events when the trailing event is the    *)
(* last that was wanted.                                                    *)
SseEnds ==
  /\ transport = "sse" /\ SeesEnd({"eof"})
  /\ Finish("ok", IF Len(Trailing) >= MaxMessages THEN "max_messages" ELSE "eof", Trailing)

(* httpx.ReadError: what is complete counts.                                *)
SseBreaks ==
  /\ transport = "sse" /\ SeesEnd({"error"})
  /\ Finish("ok", "connection_error", events)

(* ConnectionClosed, in whichever way.                                      *)
WebsocketCloses ==
  /\ transport = "websocket" /\ SeesEnd({"eof", "error"})
  /\ Finish("ok", "connection_closed", events)

(* The responses are over.                                                  *)
RpcCompletes ==
  /\ transport = "grpc_stream" /\ SeesEnd({"eof"})
  /\ Finish("ok", "completed", events)

(* grpc.RpcError: whatever was collected is lost.                           *)
RpcFails ==
  /\ \/ transport = "grpc_stream" /\ SeesEnd({"error"})
     \/ transport = "grpc_unary" /\ SeesEnd({"eof", "error"})
  /\ ToolError

(* _perform_cli: the output of a command that exits with 0.                 *)
CommandExits ==
  /\ transport = "cli" /\ SeesEnd({"eof", "error"})
  /\ IF end = "eof" THEN Finish("ok", "completed", events) ELSE ToolError

(* Nobody reads what an orphan writes, and nobody waits for it.             *)
OrphanExits ==
  /\ open /\ Orphan /\ end # "no"
  /\ Finish("ok", "none", <<>>)

(* asyncio.wait_for around one read.                                        *)
IdleExpires ==
  /\ Waiting /\ ~Full /\ transport \in {"sse", "websocket"} /\ idle >= idleTimeout
  /\ Finish("ok", "idle_timeout", events)

(* httpx.ReadTimeout, which the collector does not catch: invoke does.      *)
ReadExpires ==
  /\ Waiting /\ ~Full /\ transport = "sse" /\ idle >= ReadTimeout
  /\ ToolError

(* asyncio.wait_for around the collector: what it has collected is gone.    *)
OverallExpires ==
  /\ open /\ ~Full /\ transport \in {"sse", "websocket"} /\ total >= OverallTimeout
  /\ Finish("ok", "overall_timeout", <<>>)

(* The deadline of the RPC, min(idle * max_messages, overall), or of the    *)
(* unary call: the thread ends with an error, whether or not anyone waits.  *)
Deadline ==
  IF transport = "grpc_unary" THEN CallTimeout
  ELSE Min({idleTimeout * MaxMessages, OverallTimeout})

DeadlineExceeded ==
  /\ open /\ ~Full /\ Grpc /\ total >= Deadline
  /\ ToolError

(* Mutant: the command that takes too long is not killed.                   *)
CommandExpires_NoKill ==
  /\ open /\ transport = "cli" /\ pc = "collect" /\ total >= CallTimeout
  /\ pc' = "answered" /\ answer' = [NoAnswer EXCEPT !.status = "error"]
  /\ UNCHANGED <<config, sent, end, read, block, events, idle, total, open>>

(* The command takes too long: it is killed and waited for.                 *)
CommandExpires ==
  /\ open /\ transport = "cli" /\ pc = "collect" /\ total >= CallTimeout
  /\ ToolError

(* The client goes away: the coroutine is cancelled.  A connection is       *)
(* closed with it; a thread is not interrupted, and a process not killed.   *)
Abandon ==
  /\ pc \in {"open", "collect"}
  /\ pc' = "abandoned"
  /\ open' = (open /\ transport \in {"grpc_stream", "grpc_unary", "cli"})
  /\ UNCHANGED <<config, sent, end, read, block, events, idle, total, answer>>

Expires ==
  IdleExpires \/ ReadExpires \/ OverallExpires \/ DeadlineExceeded \/ CommandExpires

(* A timer that is due goes off before time goes on.                        *)
Due ==
  \/ transport \in {"sse", "websocket"} /\ total >= OverallTimeout
  \/ transport \in {"sse", "websocket"} /\ idle >= idleTimeout
  \/ transport = "sse" /\ idle >= ReadTimeout
  \/ Grpc /\ total >= Deadline
  \/ transport = "cli" /\ total >= CallTimeout

(* Time passes while the collector waits.                                   *)
Tick ==
  /\ Waiting /\ ~Full /\ end = "no" /\ ~Due
  /\ idle' = idle + 1 /\ total' = total + 1
  /\ UNCHANGED <<config, pc, sent, end, read, block, events, open, answer>>

Ends ==
  SseEnds \/ SseBreaks \/ WebsocketCloses \/ RpcCompletes \/ RpcFails \/ CommandExits

Collector == Read \/ Enough \/ Ends \/ Expires

SessionNext ==
  \/ Open \/ Reflected \/ StubAnswers
  \/ RequestRefused \/ ConnectFails \/ ReflectionFails \/ CommandNotStarted
  \/ BrokerNotConnected
  \/ \E item \in {"data", "id", "comment", "blank", "message"} : UpstreamSends(item)
  \/ \E how \in {"eof", "error"} : UpstreamEnds(how)
  \/ Read \/ Enough
  \/ SseEnds \/ SseBreaks \/ WebsocketCloses \/ RpcCompletes \/ RpcFails \/ CommandExits
  \/ IdleExpires \/ ReadExpires \/ OverallExpires \/ DeadlineExceeded \/ CommandExpires
  \/ Abandon \/ OrphanExits
  \/ Tick

SessionSpec == SessionInit /\ [][SessionNext]_sessionVars

(* The event loop and the threads run, and time passes; the upstream and    *)
(* the client may do nothing at all.                                        *)
SessionFairSpec == SessionSpec /\ WF_sessionVars(Collector) /\ WF_sessionVars(Tick)
-----------------------------------------------------------------------------
(* What the first n items amount to: the blocks between blank lines, and    *)
(* the last one if the response has ended.                                  *)
Content(n) == {i \in 1 .. n : sent[i] \in {"data", "id"}}
Blanks(n) == {i \in 1 .. n : sent[i] = "blank"}

Blocks(n, ended) ==
  LET upTo == Blanks(n) \cup (IF ended THEN {n + 1} ELSE {})
      BlockBefore(b) == {i \in Content(n) : i < b /\ \A a \in Blanks(n) : ~(i < a /\ a < b)}
  IN  {BlockBefore(b) : b \in upTo} \ {{}}

Expected(n, ended) ==
  IF transport = "sse" THEN Blocks(n, ended) ELSE {{i} : i \in 1 .. n}

(* evs are the given sets of items, in the order in which they were sent.   *)
InOrder(evs, sets) ==
  /\ Len(evs) = Cardinality(sets)
  /\ {ToSet(evs[i]) : i \in DOMAIN evs} = sets
  /\ \A i \in 1 .. Len(evs) - 1 : \A x \in ToSet(evs[i]), y \in ToSet(evs[i + 1]) : x < y

(* An answer that is not an error tells what the upstream sent, every event *)
(* once, whole and in order, and why it ends there: all of it when the      *)
(* upstream ended (a broken SSE response loses the event it broke off),     *)
(* never more than was asked for, and all that had come when the upstream   *)
(* fell silent.  Only after the overall timeout is the answer empty,        *)
(* whatever was collected.                                                  *)
SessionTruthful ==
  answer.status = "ok" /\ transport # "stub" =>
    CASE answer.reason \in {"eof", "connection_closed"} \/
         (answer.reason = "completed" /\ transport # "grpc_unary") ->
           /\ end # "no"
           /\ InOrder(answer.events, Expected(Len(sent), answer.reason = "eof"))
           /\ transport # "cli" => Len(answer.events) < MaxMessages
      [] answer.reason = "connection_error" ->
           end = "error" /\ InOrder(answer.events, Expected(Len(sent), FALSE))
      [] answer.reason = "idle_timeout" ->
           /\ idle >= idleTimeout
           /\ InOrder(answer.events, Expected(read, FALSE))
      [] answer.reason = "overall_timeout" ->
           total >= OverallTimeout /\ answer.events = <<>>
      [] OTHER ->
           /\ Len(answer.events) = IF transport = "grpc_unary" THEN 1 ELSE MaxMessages
           /\ InOrder(answer.events, Expected(read, end = "eof" /\ read = Len(sent)))

(* Every session ends, and leaves no connection, thread or process behind,  *)
(* whatever its upstream does, also when the client is gone.  Two           *)
(* exceptions: the process of a command whose caller left, which nobody     *)
(* kills, and the thread and channel of a gRPC session whose reflection     *)
(* call is never answered, which has no deadline.                           *)
SessionsEnd == open /\ ~reflecting ~> ~open \/ Orphan
=============================================================================
