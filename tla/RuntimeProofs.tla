---------------------------- MODULE RuntimeProofs ----------------------------
(* Proofs about two parts of the MCP runtime that know nothing of each      *)
(* other: the circuit breakers (RuntimeProxy), for any operations, any      *)
(* finite number of concurrent calls and any threshold, and the sessions    *)
(* (Sessions), for any limits and any number of items that an upstream      *)
(* sends.                                                                   *)
EXTENDS RuntimeProxy, Sessions, FiniteSetTheorems, SequenceTheorems, TLAPS
-----------------------------------------------------------------------------
(* The circuit breakers.                                                    *)

(* The gauge and the breaker agree, and the breaker is open exactly from    *)
(* the threshold on.                                                        *)
Consistent ==
  \A o \in Operations : /\ gauge[o] = is_open[o]
                        /\ is_open[o] <=> failures[o] >= Threshold

(* What OverloadBounded needs to be inductive: a call still upstream of an  *)
(* open breaker has its failure reserved, so none is left for a new one.    *)
Reserved ==
  \A o \in Operations :
    is_open[o] => failures[o] + Cardinality(InFlight(o))
                    < Threshold + Cardinality(Calls)

IInv == TypeOK /\ Consistent /\ Reserved

(* A call that ends leaves the calls in flight of its operation, and those  *)
(* of the other operations as they were.                                    *)
LEMMA EndLeaves ==
  ASSUME NEW c \in Calls, NEW a \in Answer, NEW o \in Operations,
         TypeOK, operation[c] = o, End(c, a)
  PROVE  /\ c \in InFlight(o)
         /\ InFlight(o)' = InFlight(o) \ {c}
         /\ \A p \in Operations \ {o} : InFlight(p)' = InFlight(p)
BY DEF End, InFlight, TypeOK, Answer

(* The number of calls in flight is a number, at most all of them, and less *)
(* than all when a call has just ended.                                     *)
LEMMA InFlightCount ==
  ASSUME NEW o \in Operations
  PROVE  /\ IsFiniteSet(InFlight(o))
         /\ Cardinality(InFlight(o)) \in Nat
         /\ Cardinality(Calls) \in Nat
         /\ Cardinality(InFlight(o)) <= Cardinality(Calls)
         /\ \A c \in InFlight(o) :
              Cardinality(InFlight(o) \ {c}) = Cardinality(InFlight(o)) - 1
<1>1. IsFiniteSet(Calls) /\ InFlight(o) \subseteq Calls
  BY ProxyAssumption DEF InFlight
<1>2. IsFiniteSet(InFlight(o)) /\ Cardinality(InFlight(o)) <= Cardinality(Calls)
  BY <1>1, FS_Subset
<1>3. Cardinality(InFlight(o)) \in Nat /\ Cardinality(Calls) \in Nat
  BY <1>1, <1>2, FS_CardinalityType
<1>4. ASSUME NEW c \in InFlight(o)
      PROVE  Cardinality(InFlight(o) \ {c}) = Cardinality(InFlight(o)) - 1
  BY <1>2, FS_RemoveElement
<1> QED BY <1>2, <1>3, <1>4

(* A recorded failure of a call that ends keeps the inductive invariant.    *)
LEMMA FailureKeeps ==
  ASSUME NEW c \in Calls, NEW o \in Operations,
         IInv, operation[c] = o, End(c, "error"), RecordFailure(o)
  PROVE  IInv'
<1> DEFINE opens == is_open[o] \/ failures[o] + 1 >= Threshold
           n == Cardinality(InFlight(o))
           k == Cardinality(Calls)
<1>1. TypeOK /\ failures[o] \in Nat /\ Threshold \in Nat \ {0}
  BY ProxyAssumption DEF IInv, TypeOK
<1>2. /\ failures' = [failures EXCEPT ![o] = failures[o] + 1]
      /\ is_open' = [is_open EXCEPT ![o] = opens]
      /\ gauge' = [gauge EXCEPT ![o] = opens]
  BY DEF RecordFailure, SetState
<1>3. opens \in BOOLEAN BY <1>1 DEF TypeOK
<1>4. TypeOK'
  <2> HIDE DEF opens
  <2> QED BY <1>1, <1>2, <1>3 DEF TypeOK, End, Answer
<1>5. /\ failures'[o] = failures[o] + 1
      /\ is_open'[o] = opens /\ gauge'[o] = opens
      /\ \A p \in Operations \ {o} : /\ failures'[p] = failures[p]
                                     /\ is_open'[p] = is_open[p]
                                     /\ gauge'[p] = gauge[p]
  <2> HIDE DEF opens
  <2> QED BY <1>1, <1>2 DEF TypeOK
<1>6. opens <=> failures[o] + 1 >= Threshold
  BY <1>1 DEF IInv, Consistent
<1>7. Consistent'
  <2> SUFFICES ASSUME NEW p \in Operations
               PROVE  /\ gauge'[p] = is_open'[p]
                      /\ is_open'[p] <=> failures'[p] >= Threshold
    BY DEF Consistent
  <2> HIDE DEF opens
  <2>1. CASE p = o BY <1>5, <1>6, <2>1
  <2>2. CASE p # o BY <1>5, <2>2 DEF IInv, Consistent
  <2> QED BY <2>1, <2>2
<1>8. /\ c \in InFlight(o)
      /\ InFlight(o)' = InFlight(o) \ {c}
      /\ \A p \in Operations \ {o} : InFlight(p)' = InFlight(p)
  BY <1>1, EndLeaves DEF Answer
<1>9. n \in Nat /\ k \in Nat /\ n <= k /\ Cardinality(InFlight(o)') = n - 1
  BY <1>8, InFlightCount
<1>10. failures[o] + n < Threshold + k
  <2>1. CASE is_open[o] BY <2>1 DEF IInv, Reserved
  <2>2. CASE ~is_open[o]
    <3>1. failures[o] < Threshold
      BY <1>1, <2>2 DEF IInv, Consistent
    <3> HIDE DEF n, k
    <3> QED BY <1>1, <1>9, <3>1
  <2> QED BY <2>1, <2>2
<1>11. Reserved'
  <2> SUFFICES ASSUME NEW p \in Operations, is_open'[p]
               PROVE  failures'[p] + Cardinality(InFlight(p)') < Threshold + k
    BY DEF Reserved
  <2>1. CASE p = o
    <3> HIDE DEF n, k, opens
    <3> QED BY <1>1, <1>5, <1>9, <1>10, <2>1
  <2>2. CASE p # o
    <3>1. is_open[p] /\ failures'[p] = failures[p] /\ InFlight(p)' = InFlight(p)
      BY <1>5, <1>8, <2>2
    <3> QED BY <3>1 DEF IInv, Reserved
  <2> QED BY <2>1, <2>2
<1> QED BY <1>4, <1>7, <1>11 DEF IInv

(* A call that ends without touching the breaker keeps the invariant.       *)
LEMMA UnrecordedKeeps ==
  ASSUME NEW c \in Calls, IInv, End(c, "error"), UNCHANGED breakerVars
  PROVE  IInv'
<1> DEFINE o == operation[c]
<1>1. TypeOK /\ TypeOK' /\ o \in Operations
  BY DEF IInv, TypeOK, End, breakerVars, Answer
<1>2. Consistent'
  BY DEF IInv, Consistent, breakerVars
<1>3. Reserved'
  <2> SUFFICES ASSUME NEW p \in Operations, is_open[p]
               PROVE  failures[p] + Cardinality(InFlight(p)')
                        < Threshold + Cardinality(Calls)
    BY DEF Reserved, breakerVars
  <2>1. failures[p] + Cardinality(InFlight(p)) < Threshold + Cardinality(Calls)
    BY DEF IInv, Reserved
  <2>2. CASE p # o
    <3>1. InFlight(p)' = InFlight(p) BY <1>1, <2>2, EndLeaves DEF Answer
    <3> QED BY <2>1, <3>1
  <2>3. CASE p = o
    <3>1. c \in InFlight(p) /\ InFlight(p)' = InFlight(p) \ {c}
      BY <1>1, <2>3, EndLeaves DEF Answer
    <3>2. Cardinality(InFlight(p)') = Cardinality(InFlight(p)) - 1
      BY <3>1, InFlightCount
    <3>3. /\ Cardinality(InFlight(p)) \in Nat /\ Cardinality(Calls) \in Nat
          /\ failures[p] \in Nat /\ Threshold \in Nat
      BY InFlightCount, ProxyAssumption, <1>1 DEF TypeOK
    <3> QED BY <2>1, <3>2, <3>3
  <2> QED BY <2>2, <2>3
<1> QED BY <1>1, <1>2, <1>3 DEF IInv

(* A success keeps the invariant: the breaker it leaves is closed.          *)
LEMMA SuccessKeeps ==
  ASSUME NEW c \in Calls, IInv, Succeed(c)
  PROVE  IInv'
<1> DEFINE o == operation[c]
<1>1. TypeOK /\ o \in Operations /\ End(c, "ok")
  BY DEF IInv, TypeOK, Succeed
<1>2. /\ failures' = [failures EXCEPT ![o] = 0]
      /\ is_open' = [is_open EXCEPT ![o] = FALSE]
      /\ gauge' = [gauge EXCEPT ![o] = FALSE]
  BY DEF Succeed, RecordSuccess, SetState
<1>3. TypeOK' BY <1>1, <1>2 DEF TypeOK, End, Answer
<1>4. Consistent'
  <2> SUFFICES ASSUME NEW p \in Operations
               PROVE  /\ gauge'[p] = is_open'[p]
                      /\ is_open'[p] <=> failures'[p] >= Threshold
    BY DEF Consistent
  <2>1. CASE p = o
    <3>1. gauge'[p] = FALSE /\ is_open'[p] = FALSE /\ failures'[p] = 0
      BY <1>1, <1>2, <2>1 DEF TypeOK
    <3>2. ~(failures'[p] >= Threshold) BY <3>1, ProxyAssumption
    <3> QED BY <3>1, <3>2
  <2>2. CASE p # o
    <3>1. /\ gauge'[p] = gauge[p] /\ is_open'[p] = is_open[p]
          /\ failures'[p] = failures[p]
      BY <1>1, <1>2, <2>2 DEF TypeOK
    <3> QED BY <3>1 DEF IInv, Consistent
  <2> QED BY <2>1, <2>2
<1>5. Reserved'
  <2> SUFFICES ASSUME NEW p \in Operations, is_open'[p]
               PROVE  failures'[p] + Cardinality(InFlight(p)')
                        < Threshold + Cardinality(Calls)
    BY DEF Reserved
  <2>1. p # o /\ is_open[p] /\ failures'[p] = failures[p]
    BY <1>1, <1>2 DEF TypeOK
  <2>2. InFlight(p)' = InFlight(p) BY <1>1, <2>1, EndLeaves DEF Answer
  <2> QED BY <2>1, <2>2 DEF IInv, Reserved
<1> QED BY <1>3, <1>4, <1>5 DEF IInv

(* An admitted call finds its breaker closed; a blocked one is not in       *)
(* flight.  Either way, open breakers have the calls in flight they had.    *)
LEMMA InvokeKeeps ==
  ASSUME NEW c \in Calls, NEW o \in Operations, IInv, Invoke(c, o)
  PROVE  IInv'
<1>1. TypeOK /\ TypeOK'
  BY DEF IInv, TypeOK, Invoke, SetState, Answer
<1>2. gauge' = gauge
  <2>1. CASE is_open[o]
    <3>1. gauge[o] = TRUE BY <2>1 DEF IInv, Consistent, TypeOK
    <3> QED BY <1>1, <3>1 DEF Invoke, SetState, TypeOK
  <2>2. CASE ~is_open[o] BY <2>2 DEF Invoke
  <2> QED BY <2>1, <2>2
<1>3. Consistent' BY <1>2 DEF IInv, Consistent, Invoke
<1>4. ASSUME NEW p \in Operations, is_open[p]
      PROVE  InFlight(p)' = InFlight(p)
  BY <1>1, <1>4 DEF Invoke, InFlight, TypeOK
<1>5. Reserved' BY <1>4 DEF IInv, Reserved, Invoke
<1> QED BY <1>1, <1>3, <1>5 DEF IInv

(* Every step of the proxy keeps the inductive invariant.                   *)
LEMMA StepKeeps ==
  ASSUME IInv, [Next]_vars
  PROVE  IInv'
<1>1. ASSUME NEW c \in Calls, NEW o \in Operations, Invoke(c, o)
      PROVE  IInv'
  BY <1>1, InvokeKeeps
<1>2. ASSUME NEW c \in Calls, Succeed(c) PROVE IInv'
  BY <1>2, SuccessKeeps
<1>3. ASSUME NEW c \in Calls PROVE operation[c] \in Operations
  BY DEF IInv, TypeOK
<1>4. ASSUME NEW c \in Calls, UpstreamFails(c) PROVE IInv'
  BY <1>3, <1>4, FailureKeeps DEF UpstreamFails
<1>5. ASSUME NEW c \in Calls, ProtocolError(c) PROVE IInv'
  BY <1>3, <1>5, FailureKeeps DEF ProtocolError
<1>6. ASSUME NEW c \in Calls, ToolErrorRaised(c) PROVE IInv'
  <2>1. CASE operation[c] \in Native
    BY <1>3, <1>6, <2>1, FailureKeeps DEF ToolErrorRaised
  <2>2. CASE operation[c] \notin Native
    BY <1>6, <2>2, UnrecordedKeeps DEF ToolErrorRaised
  <2> QED BY <2>1, <2>2
<1>7. ASSUME NEW c \in Calls, OtherException(c) PROVE IInv'
  BY <1>7, UnrecordedKeeps DEF OtherException
<1>8. ASSUME NEW c \in Calls, Return(c) PROVE IInv'
  <2>1. TypeOK' BY <1>8 DEF IInv, TypeOK, Return, breakerVars, Answer
  <2>2. Consistent' BY <1>8 DEF IInv, Consistent, Return, breakerVars
  <2>3. \A o \in Operations : InFlight(o)' = InFlight(o)
    BY <1>8 DEF IInv, TypeOK, Return, InFlight, Answer
  <2>4. Reserved' BY <1>8, <2>3 DEF IInv, Reserved, Return, breakerVars
  <2> QED BY <2>1, <2>2, <2>4 DEF IInv
<1>9. CASE Restart
  <2>1. TypeOK'
    BY <1>9 DEF IInv, TypeOK, Restart, Uncounted, AllClosed
  <2>2. Consistent' /\ Reserved'
    BY <1>9, ProxyAssumption
       DEF Consistent, Reserved, Restart, Uncounted, AllClosed
  <2> QED BY <2>1, <2>2 DEF IInv
<1>10. CASE UNCHANGED vars
  BY <1>10 DEF IInv, TypeOK, Consistent, Reserved, InFlight, vars
<1> QED BY <1>1, <1>2, <1>4, <1>5, <1>6, <1>7, <1>8, <1>9, <1>10 DEF Next

(* The inductive invariant holds throughout.                                *)
LEMMA Inductive == Spec => []IInv
<1>1. Init => IInv
  BY ProxyAssumption
     DEF Init, IInv, TypeOK, Consistent, Reserved, Uncounted, AllClosed
<1>2. IInv /\ [Next]_vars => IInv' BY StepKeeps
<1> QED BY <1>1, <1>2, PTL DEF Spec

(* The alert's gauge is 1 exactly while at least Threshold recorded calls   *)
(* in a row have failed, in every behaviour of RuntimeProxy.invoke.         *)
THEOREM AlertsAreTruthful == Spec => []AlertIsTruthful
<1>1. IInv => AlertIsTruthful
  BY DEF IInv, Consistent, AlertIsTruthful
<1> QED BY <1>1, Inductive, PTL

(* However calls overlap, fewer than Threshold plus the number of calls in  *)
(* progress fail in a row before the breaker keeps the upstream untouched.  *)
THEOREM FailuresAreBounded == Spec => []OverloadBounded
<1>1. IInv => OverloadBounded
  <2> SUFFICES ASSUME IInv, NEW o \in Operations
               PROVE  failures[o] < Threshold + Cardinality(Calls)
    BY DEF OverloadBounded
  <2> DEFINE n == Cardinality(InFlight(o))
             k == Cardinality(Calls)
  <2>1. n \in Nat /\ k \in Nat BY InFlightCount
  <2>2. failures[o] \in Nat /\ Threshold \in Nat
    BY ProxyAssumption DEF IInv, TypeOK
  <2>3. \/ failures[o] + n < Threshold + k
        \/ failures[o] < Threshold
    BY <2>2 DEF IInv, Consistent, Reserved
  <2> HIDE DEF n, k
  <2> QED BY <2>1, <2>2, <2>3 DEF k
<1> QED BY <1>1, Inductive, PTL

(* What the code does where docs/troubleshooting.md promises that a         *)
(* successful request resets the breaker: once it is open and the last call *)
(* admitted before has ended, no step but a restart closes it or lets a     *)
(* call through.                                                            *)
OpenIsFinal ==
  [][\A o \in Operations :
       is_open[o] /\ InFlight(o) = {} /\ ~Restart
         => is_open'[o] /\ InFlight(o)' = {}]_vars

(* Without a restart, an open breaker with no call left in flight stays     *)
(* open for good: before_request refuses the calls that could close it.     *)
THEOREM OpenBreakersStay == Spec => OpenIsFinal
<1> DEFINE Stays(o) == is_open[o] /\ InFlight(o) = {} /\ ~Restart
                         => is_open'[o] /\ InFlight(o)' = {}
<1>1. ASSUME IInv, [Next]_vars, NEW o \in Operations PROVE Stays(o)
  <2> SUFFICES ASSUME is_open[o], InFlight(o) = {}, ~Restart
               PROVE  is_open'[o] /\ InFlight(o)' = {}
    BY <1>1
  <2>0. TypeOK BY <1>1 DEF IInv
  <2>1. ASSUME NEW c \in Calls, NEW p \in Operations, Invoke(c, p)
        PROVE  is_open'[o] /\ InFlight(o)' = {}
    BY <2>0, <2>1 DEF Invoke, InFlight, TypeOK
  <2>2. ASSUME NEW c \in Calls, phase[c] = "upstream"
        PROVE  operation[c] # o /\ operation[c] \in Operations
    BY <2>0, <2>2 DEF InFlight, TypeOK
  <2>3. ASSUME NEW c \in Calls, NEW a \in Answer, End(c, a)
        PROVE  InFlight(o)' = {}
    BY <2>0, <2>3 DEF End, InFlight, TypeOK, Answer
  <2>4. ASSUME NEW c \in Calls, NEW a \in Answer, End(c, a),
               \/ RecordSuccess(operation[c])
               \/ RecordFailure(operation[c])
               \/ UNCHANGED breakerVars
        PROVE  is_open'[o] /\ InFlight(o)' = {}
    <3>1. phase[c] = "upstream" BY <2>4 DEF End
    <3>2. operation[c] # o /\ operation[c] \in Operations BY <2>2, <3>1
    <3>3. is_open'[o]
      BY <2>0, <2>4, <3>2 DEF RecordSuccess, RecordFailure, breakerVars, TypeOK
    <3> QED BY <2>3, <2>4, <3>3
  <2>5. ASSUME NEW c \in Calls, Return(c)
        PROVE  is_open'[o] /\ InFlight(o)' = {}
    BY <2>0, <2>5 DEF Return, InFlight, breakerVars, TypeOK, Answer
  <2>6. CASE UNCHANGED vars BY <2>6 DEF vars, InFlight
  <2>7. ASSUME NEW c \in Calls,
               \/ Succeed(c) \/ UpstreamFails(c) \/ ProtocolError(c)
               \/ ToolErrorRaised(c) \/ OtherException(c)
        PROVE  is_open'[o] /\ InFlight(o)' = {}
    BY <2>4, <2>7 DEF Answer, Succeed, UpstreamFails, ProtocolError, ToolErrorRaised,
                      OtherException
  <2> QED BY <1>1, <2>1, <2>5, <2>6, <2>7 DEF Next
<1>2. ASSUME IInv, [Next]_vars PROVE [\A o \in Operations : Stays(o)]_vars
  BY <1>1, <1>2
<1>3. IInv /\ [Next]_vars => [\A o \in Operations : Stays(o)]_vars BY <1>2
<1> QED BY <1>3, Inductive, PTL DEF Spec, OpenIsFinal
-----------------------------------------------------------------------------
(* The sessions.                                                            *)

Item == {"data", "id", "comment", "blank", "message"}

(* The content before the blank line b, and the content that no blank line  *)
(* has ended, among the first n lines.                                      *)
Before(n, b) == {i \in Content(n) : i < b /\ \A a \in Blanks(n) : ~(i < a /\ a < b)}
OpenBlock(n) == {i \in Content(n) : \A a \in Blanks(n) : a < i}

(* Events made of these sets of items, in order.                            *)
Tidy(evs, sets) == InOrder(evs, sets) /\ IsFiniteSet(sets)

(* What the collector has made of the items it has read.                    *)
SseCollected ==
  /\ Tidy(events, Blocks(read, FALSE))
  /\ ToSet(block) = OpenBlock(read)
  /\ Full => block = <<>>

MessagesCollected ==
  /\ block = <<>>
  /\ Len(events) = read
  /\ \A i \in 1 .. read : events[i] = <<i>>

Collected == IF transport = "sse" THEN SseCollected ELSE MessagesCollected

(* It never has more events than were asked for.                            *)
WithinLimit ==
  /\ transport \in {"sse", "websocket", "grpc_stream"} => Len(events) <= MaxMessages
  /\ transport = "grpc_unary" => Len(events) <= 1

(* A call is answered once, and by then its connection is closed.           *)
AnsweredOnce ==
  /\ answer.status # "none" => pc = "answered"
  /\ pc = "answered" => ~open

SessionInv ==
  /\ SessionTypeOK /\ Len(sent) <= MaxItems
  /\ Collected /\ WithinLimit /\ AnsweredOnce /\ SessionTruthful
-----------------------------------------------------------------------------
(* Where the line after the first n leads.                                  *)
LEMMA BlocksAre ==
  ASSUME NEW n \in Nat
  PROVE  /\ Blocks(n, FALSE) = {Before(n, b) : b \in Blanks(n)} \ {{}}
         /\ Blocks(n, TRUE) = Blocks(n, FALSE) \cup ({OpenBlock(n)} \ {{}})
<1>1. Before(n, n + 1) = OpenBlock(n)
  BY DEF Before, OpenBlock, Content, Blanks
<1>2. Blocks(n, FALSE) = {Before(n, b) : b \in Blanks(n)} \ {{}}
  BY DEF Blocks, Before
<1>3. Blocks(n, TRUE) = {Before(n, b) : b \in Blanks(n) \cup {n + 1}} \ {{}}
  BY DEF Blocks, Before
<1> QED
  BY <1>1, <1>2, <1>3

LEMMA BlankEnds ==
  ASSUME NEW n \in Nat, sent[n + 1] = "blank"
  PROVE  /\ Blocks(n + 1, FALSE) = Blocks(n, FALSE) \cup ({OpenBlock(n)} \ {{}})
         /\ OpenBlock(n + 1) = {}
<1>1. \A i : i \in 1 .. n + 1 <=> i \in 1 .. n \/ i = n + 1
  OBVIOUS
<1>2. Content(n + 1) = Content(n) /\ Blanks(n + 1) = Blanks(n) \cup {n + 1}
  BY <1>1 DEF Content, Blanks
<1>3. \A b \in Blanks(n) : Before(n + 1, b) = Before(n, b)
  BY <1>2 DEF Before, Blanks
<1>4. Before(n + 1, n + 1) = OpenBlock(n)
  BY <1>2 DEF Before, OpenBlock, Content, Blanks
<1>5. OpenBlock(n + 1) = {}
  BY <1>2 DEF OpenBlock, Content
<1>6. Blocks(n + 1, FALSE) = {Before(n + 1, b) : b \in Blanks(n) \cup {n + 1}} \ {{}}
  BY <1>2 DEF Blocks, Before
<1>7. @ = ({Before(n, b) : b \in Blanks(n)} \ {{}}) \cup ({OpenBlock(n)} \ {{}})
  BY <1>3, <1>4
<1> QED
  BY <1>5, <1>6, <1>7, BlocksAre

LEMMA ContentAdds ==
  ASSUME NEW n \in Nat, sent[n + 1] \in {"data", "id"}
  PROVE  /\ Blocks(n + 1, FALSE) = Blocks(n, FALSE)
         /\ OpenBlock(n + 1) = OpenBlock(n) \cup {n + 1}
<1>1. \A i : i \in 1 .. n + 1 <=> i \in 1 .. n \/ i = n + 1
  OBVIOUS
<1>2. Content(n + 1) = Content(n) \cup {n + 1} /\ Blanks(n + 1) = Blanks(n)
  BY <1>1 DEF Content, Blanks
<1>3. \A b \in Blanks(n) : Before(n + 1, b) = Before(n, b)
  BY <1>2 DEF Before, Blanks
<1>4. OpenBlock(n + 1) = OpenBlock(n) \cup {n + 1}
  BY <1>2 DEF OpenBlock, Content, Blanks
<1>5. Blocks(n + 1, FALSE) = {Before(n + 1, b) : b \in Blanks(n)} \ {{}}
  BY <1>2 DEF Blocks, Before
<1>6. @ = {Before(n, b) : b \in Blanks(n)} \ {{}}
  BY <1>3
<1> QED
  BY <1>4, <1>5, <1>6, BlocksAre

LEMMA OtherLine ==
  ASSUME NEW n \in Nat, sent[n + 1] \notin {"data", "id", "blank"}
  PROVE  Blocks(n + 1, FALSE) = Blocks(n, FALSE) /\ OpenBlock(n + 1) = OpenBlock(n)
<1>1. \A i : i \in 1 .. n + 1 <=> i \in 1 .. n \/ i = n + 1
  OBVIOUS
<1>2. Content(n + 1) = Content(n) /\ Blanks(n + 1) = Blanks(n)
  BY <1>1 DEF Content, Blanks
<1>3. \A b \in Blanks(n) : Before(n + 1, b) = Before(n, b)
  BY <1>2 DEF Before
<1>4. OpenBlock(n + 1) = OpenBlock(n)
  BY <1>2 DEF OpenBlock
<1>5. Blocks(n + 1, FALSE) = {Before(n + 1, b) : b \in Blanks(n)} \ {{}}
  BY <1>2 DEF Blocks, Before
<1>6. @ = {Before(n, b) : b \in Blanks(n)} \ {{}}
  BY <1>3
<1> QED
  BY <1>4, <1>5, <1>6, BlocksAre

(* The open block is none of the others and comes after them.               *)
LEMMA OpenBlockIsLast ==
  ASSUME NEW n \in Nat
  PROVE  \A s \in Blocks(n, FALSE) : \A x \in s, y \in OpenBlock(n) : x < y
<1> SUFFICES ASSUME NEW s \in Blocks(n, FALSE), NEW x \in s, NEW y \in OpenBlock(n)
             PROVE  x < y
  OBVIOUS
<1>1. PICK b \in Blanks(n) : s = Before(n, b)
  BY BlocksAre, ZenonT(40)
<1> QED
  BY <1>1 DEF Before, OpenBlock, Content, Blanks
-----------------------------------------------------------------------------
LEMMA SeqMonotone ==
  ASSUME NEW T, NEW U, T \subseteq U
  PROVE  Seq(T) \subseteq Seq(U)
<1> SUFFICES ASSUME NEW s \in Seq(T) PROVE s \in Seq(U)
  OBVIOUS
<1>1. PICK n \in Nat : s \in [1 .. n -> T]
  BY SeqDef
<1>2. s \in [1 .. n -> U]
  BY <1>1
<1> QED
  BY <1>2, SeqDef

LEMMA ToSetAppend ==
  ASSUME NEW S, NEW s \in Seq(S), NEW x \in S
  PROVE  /\ ToSet(Append(s, x)) = ToSet(s) \cup {x}
         /\ Append(s, x) \in Seq(S) /\ Append(s, x) # <<>>
         /\ Len(Append(s, x)) = Len(s) + 1
<1>1. /\ Append(s, x) \in Seq(S) /\ Append(s, x) # <<>>
      /\ Len(Append(s, x)) = Len(s) + 1 /\ Len(s) \in Nat
      /\ \A i \in 1 .. Len(s) : Append(s, x)[i] = s[i]
      /\ Append(s, x)[Len(s) + 1] = x
  BY AppendProperties
<1>2. DOMAIN s = 1 .. Len(s) /\ DOMAIN Append(s, x) = 1 .. Len(s) + 1
  BY <1>1, LenProperties
<1>3. \A i : i \in 1 .. Len(s) + 1 <=> i \in 1 .. Len(s) \/ i = Len(s) + 1
  BY <1>1
<1> QED
  BY <1>1, <1>2, <1>3 DEF ToSet

(* An event that is appended: its set is new and comes last.                *)
LEMMA AppendEvent ==
  ASSUME NEW evs \in Seq(Seq(Nat)), NEW b \in Seq(Nat), b # <<>>,
         NEW sets, Tidy(evs, sets),
         \A s \in sets : \A x \in s, y \in ToSet(b) : x < y
  PROVE  /\ Tidy(Append(evs, b), sets \cup {ToSet(b)})
         /\ Append(evs, b) \in Seq(Seq(Nat)) /\ Len(Append(evs, b)) = Len(evs) + 1
<1> DEFINE app == Append(evs, b)
<1>1. /\ app \in Seq(Seq(Nat)) /\ Len(app) = Len(evs) + 1 /\ Len(evs) \in Nat
      /\ \A i \in 1 .. Len(evs) : app[i] = evs[i]
      /\ app[Len(evs) + 1] = b
      /\ DOMAIN evs = 1 .. Len(evs) /\ DOMAIN app = 1 .. Len(evs) + 1
  BY AppendProperties, LenProperties
<1>2. Len(b) \in Nat /\ Len(b) # 0 /\ DOMAIN b = 1 .. Len(b) /\ b[1] \in Nat
  BY EmptySeq, LenProperties, ElementOfSeq
<1>3. PICK y \in ToSet(b) : y \in Nat
  <2>1. 1 \in DOMAIN b
    BY <1>2
  <2> QED
    BY <1>2, <2>1 DEF ToSet
<1>4. ToSet(b) \notin sets
  BY <1>3
<1>5. IsFiniteSet(sets \cup {ToSet(b)})
      /\ Cardinality(sets \cup {ToSet(b)}) = Cardinality(sets) + 1
  BY <1>4, FS_AddElement DEF Tidy
<1>6. Len(evs) = Cardinality(sets) /\ {ToSet(evs[i]) : i \in DOMAIN evs} = sets
  BY DEF Tidy, InOrder
<1>7. \A i : i \in 1 .. Len(evs) + 1 <=> i \in 1 .. Len(evs) \/ i = Len(evs) + 1
  BY <1>1
<1>8. {ToSet(app[i]) : i \in DOMAIN app} = sets \cup {ToSet(b)}
  <2> HIDE DEF app
  <2> QED
    BY <1>1, <1>6, <1>7
<1>9. ASSUME NEW i \in 1 .. Len(app) - 1, NEW x \in ToSet(app[i]), NEW z \in ToSet(app[i + 1])
      PROVE  x < z
  <2> HIDE DEF app
  <2>0. i \in 1 .. Len(evs)
    BY <1>1
  <2>1. app[i] = evs[i] /\ ToSet(evs[i]) \in sets
    BY <1>1, <1>6, <2>0
  <2>2. CASE i = Len(evs)
    BY <1>1, <2>0, <2>1, <2>2
  <2>3. CASE i # Len(evs)
    <3>1. i \in 1 .. Len(evs) - 1 /\ i + 1 \in 1 .. Len(evs)
      <4>1. Len(evs) \in Nat
        BY <1>1
      <4> QED
        BY <2>0, <2>3, <4>1
    <3>2. app[i + 1] = evs[i + 1]
      BY <1>1, <3>1
    <3> QED
      BY <2>1, <3>1, <3>2 DEF Tidy, InOrder
  <2> QED
    BY <2>2, <2>3
<1> QED
  BY <1>1, <1>5, <1>6, <1>8, <1>9 DEF Tidy, InOrder

(* Messages are events of one item each.                                    *)
LEMMA MessagesTidy ==
  ASSUME NEW n \in Nat, NEW evs \in Seq(Seq(Nat)), Len(evs) = n,
         \A i \in 1 .. n : evs[i] = <<i>>
  PROVE  InOrder(evs, {{i} : i \in 1 .. n})
<1> DEFINE sets == {{i} : i \in 1 .. n}
           f == [i \in 1 .. n |-> {i}]
<1>1. \A i \in 1 .. n : ToSet(evs[i]) = {i}
  BY DEF ToSet
<1>2. DOMAIN evs = 1 .. n
  BY LenProperties
<1>3. {ToSet(evs[i]) : i \in DOMAIN evs} = sets
  BY <1>1, <1>2
<1>4. f \in [1 .. n -> sets] /\ (\A i, j \in 1 .. n : f[i] = f[j] => i = j)
      /\ \A x \in sets : \E i \in 1 .. n : f[i] = x
  OBVIOUS
<1>5. ExistsBijection(1 .. n, sets)
  <2> HIDE DEF f, sets
  <2> QED
    BY <1>4 DEF ExistsBijection, Bijection, Injection, IsInjective, Surjection
<1>6. IsFiniteSet(1 .. n) /\ Cardinality(1 .. n) = n
  BY FS_Interval
<1>7. Cardinality(sets) = n
  BY <1>5, <1>6, FS_Bijection
<1> HIDE DEF sets
<1>8. ASSUME NEW i \in 1 .. Len(evs) - 1, NEW x \in ToSet(evs[i]), NEW y \in ToSet(evs[i + 1])
      PROVE  x < y
  <2>1. i \in 1 .. n /\ i + 1 \in 1 .. n
    OBVIOUS
  <2>2. x = i /\ y = i + 1
    BY <1>1, <2>1
  <2> QED
    BY <2>1, <2>2
<1> QED
  BY <1>3, <1>7, <1>8 DEF InOrder, sets
-----------------------------------------------------------------------------
(* What SessionTruthful says of an answer with this reason and these events. *)
Truth(reason, evs) ==
  CASE reason \in {"eof", "connection_closed"} \/
       (reason = "completed" /\ transport # "grpc_unary") ->
         /\ end # "no"
         /\ InOrder(evs, Expected(Len(sent), reason = "eof"))
         /\ transport # "cli" => Len(evs) < MaxMessages
    [] reason = "connection_error" ->
         end = "error" /\ InOrder(evs, Expected(Len(sent), FALSE))
    [] reason = "idle_timeout" -> idle >= idleTimeout /\ InOrder(evs, Expected(read, FALSE))
    [] reason = "overall_timeout" -> total >= OverallTimeout /\ evs = <<>>
    [] OTHER ->
         /\ Len(evs) = IF transport = "grpc_unary" THEN 1 ELSE MaxMessages
         /\ InOrder(evs, Expected(read, end = "eof" /\ read = Len(sent)))

(* A step that collects nothing, and does not touch what was read.          *)
LEMMA NothingRead ==
  ASSUME SessionInv, UNCHANGED <<transport, read, block, events>>,
         \A i \in 1 .. read : sent'[i] = sent[i]
  PROVE  Collected' /\ WithinLimit'
<1>1. Content(read)' = Content(read) /\ Blanks(read)' = Blanks(read)
  BY DEF Content, Blanks
<1>2. Blocks(read, FALSE)' = Blocks(read, FALSE) /\ OpenBlock(read)' = OpenBlock(read)
  BY <1>1 DEF Blocks, OpenBlock
<1>3. Full' = Full
  BY DEF Full
<1> QED
  BY <1>2, <1>3
     DEF SessionInv, Collected, SseCollected, MessagesCollected, WithinLimit, Tidy, InOrder

(* A step that answers nothing.                                             *)
LEMMA NothingAnswered ==
  ASSUME SessionInv, answer' = answer, pc # "answered", pc' # "answered"
  PROVE  AnsweredOnce' /\ SessionTruthful'
<1>1. answer.status = "none"
  BY DEF SessionInv, SessionTypeOK, AnsweredOnce
<1> QED
  BY <1>1 DEF AnsweredOnce, SessionTruthful

(* Whoever ends the collector with a true answer, or with an error.         *)
LEMMA FinishKeeps ==
  ASSUME SessionInv, NEW status \in {"ok", "error"}, NEW reason, NEW evs,
         Finish(status, reason, evs),
         pc # "abandoned" /\ status = "ok" /\ transport # "stub" => Truth(reason, evs)
  PROVE  SessionInv'
<1>1. /\ open' = FALSE
      /\ UNCHANGED <<transport, idleTimeout, reflecting, sent, end, read, block, events, idle, total>>
      /\ \/ pc = "abandoned" /\ pc' = pc /\ answer' = answer
         \/ /\ pc # "abandoned" /\ pc' = "answered"
            /\ answer' = [status |-> status, reason |-> reason, events |-> evs]
  BY DEF Finish, config
<1>2. answer'.status \in {"none", "ok", "error"} /\ pc' \in {"answered", "abandoned"}
  BY <1>1 DEF SessionInv, SessionTypeOK
<1>3. SessionTypeOK' /\ Len(sent') <= MaxItems
  BY <1>1, <1>2 DEF SessionInv, SessionTypeOK
<1>4. AnsweredOnce'
  BY <1>1 DEF SessionInv, AnsweredOnce
<1>5. Collected' /\ WithinLimit'
  BY <1>1, NothingRead
<1>6. SessionTruthful'
  <2>1. CASE pc = "abandoned"
    BY <1>1, <2>1 DEF SessionInv, AnsweredOnce, SessionTruthful
  <2>2. CASE pc # "abandoned" /\ status = "ok" /\ transport # "stub"
    <3>1. /\ Expected(Len(sent), reason = "eof")' = Expected(Len(sent), reason = "eof")
          /\ Expected(Len(sent), FALSE)' = Expected(Len(sent), FALSE)
          /\ Expected(read, FALSE)' = Expected(read, FALSE)
          /\ Expected(read, end = "eof" /\ read = Len(sent))'
               = Expected(read, end = "eof" /\ read = Len(sent))
      BY <1>1 DEF Expected, Blocks, Content, Blanks
    <3>2. answer'.reason = reason /\ answer'.events = evs
      BY <1>1, <2>2
    <3>3. Truth(answer.reason, answer.events)'
      BY <1>1, <2>2, <3>1, <3>2 DEF Truth
    <3> QED
      BY <3>3 DEF SessionTruthful, Truth
  <2>3. CASE pc # "abandoned" /\ (status # "ok" \/ transport = "stub")
    BY <1>1, <2>3 DEF SessionTruthful
  <2> QED
    BY <2>1, <2>2, <2>3
<1> QED
  BY <1>3, <1>4, <1>5, <1>6 DEF SessionInv

LEMMA ToolErrorKeeps == SessionInv /\ ToolError => SessionInv'
BY FinishKeeps DEF ToolError
-----------------------------------------------------------------------------
(* The steps that neither collect nor answer.                               *)
LEMMA OpenKeeps == SessionInv /\ Open => SessionInv'
<1> SUFFICES ASSUME SessionInv, Open PROVE SessionInv'
  OBVIOUS
<1>1. /\ pc = "open" /\ pc' = "collect" /\ open' = TRUE /\ reflecting' \in BOOLEAN
      /\ UNCHANGED <<transport, idleTimeout, sent, end, read, block, events, idle, total, answer>>
  BY DEF Open, Grpc
<1>2. SessionTypeOK' /\ Len(sent') <= MaxItems
  BY <1>1 DEF SessionInv, SessionTypeOK
<1> QED
  BY <1>1, <1>2, NothingRead, NothingAnswered DEF SessionInv

LEMMA ReflectedKeeps == SessionInv /\ Reflected => SessionInv'
<1> SUFFICES ASSUME SessionInv, Reflected PROVE SessionInv'
  OBVIOUS
<1>1. /\ open /\ reflecting' = FALSE
      /\ UNCHANGED <<transport, idleTimeout, pc, sent, end, read, block, events, idle, total, open,
                     answer>>
  BY DEF Reflected
<1>2. SessionTypeOK' /\ Len(sent') <= MaxItems /\ pc # "answered"
  BY <1>1 DEF SessionInv, SessionTypeOK, AnsweredOnce
<1> QED
  BY <1>1, <1>2, NothingRead, NothingAnswered DEF SessionInv

LEMMA UpstreamSendsKeeps ==
  ASSUME SessionInv, NEW item \in Item, UpstreamSends(item)
  PROVE  SessionInv'
<1>1. /\ open /\ Len(sent) < MaxItems /\ sent' = Append(sent, item)
      /\ UNCHANGED <<transport, idleTimeout, reflecting, pc, end, read, block, events, idle, total, open,
                     answer>>
  BY DEF UpstreamSends, config
<1>2. /\ sent' \in Seq(Item) /\ Len(sent') = Len(sent) + 1 /\ Len(sent) \in Nat
      /\ \A i \in 1 .. Len(sent) : sent'[i] = sent[i]
  BY <1>1, AppendProperties, LenProperties DEF SessionInv, SessionTypeOK, Item
<1>3. read \in 0 .. Len(sent) /\ MaxItems \in Nat
  BY SessionsAssumption DEF SessionInv, SessionTypeOK
<1>4. SessionTypeOK'
  BY <1>1, <1>2, <1>3 DEF SessionInv, SessionTypeOK, Item
<1>5. Len(sent') <= MaxItems
  BY <1>1, <1>2, <1>3
<1>6. pc # "answered"
  BY <1>1 DEF SessionInv, AnsweredOnce
<1>7. Collected' /\ WithinLimit'
  BY <1>1, <1>2, <1>3, NothingRead
<1> QED
  BY <1>1, <1>4, <1>5, <1>6, <1>7, NothingAnswered DEF SessionInv

LEMMA UpstreamEndsKeeps ==
  ASSUME SessionInv, NEW how \in {"eof", "error"}, UpstreamEnds(how)
  PROVE  SessionInv'
<1>1. /\ open /\ end' = how
      /\ UNCHANGED <<transport, idleTimeout, reflecting, pc, sent, read, block, events, idle, total, open,
                     answer>>
  BY DEF UpstreamEnds, config
<1>2. SessionTypeOK' /\ Len(sent') <= MaxItems /\ pc # "answered"
  BY <1>1 DEF SessionInv, SessionTypeOK, AnsweredOnce
<1> QED
  BY <1>1, <1>2, NothingRead, NothingAnswered DEF SessionInv

LEMMA AbandonKeeps == SessionInv /\ Abandon => SessionInv'
<1> SUFFICES ASSUME SessionInv, Abandon PROVE SessionInv'
  OBVIOUS
<1>1. /\ pc \in {"open", "collect"} /\ pc' = "abandoned" /\ open' \in BOOLEAN
      /\ UNCHANGED <<transport, idleTimeout, reflecting, sent, end, read, block, events, idle, total, answer>>
  BY DEF Abandon, config
<1>2. SessionTypeOK' /\ Len(sent') <= MaxItems
  BY <1>1 DEF SessionInv, SessionTypeOK
<1> QED
  BY <1>1, <1>2, NothingRead, NothingAnswered DEF SessionInv

LEMMA TickKeeps == SessionInv /\ Tick => SessionInv'
<1> SUFFICES ASSUME SessionInv, Tick PROVE SessionInv'
  OBVIOUS
<1>1. /\ open /\ idle' = idle + 1 /\ total' = total + 1
      /\ UNCHANGED <<transport, idleTimeout, reflecting, pc, sent, end, read, block, events, open, answer>>
  BY DEF Tick, Waiting, config
<1>2. SessionTypeOK' /\ Len(sent') <= MaxItems /\ pc # "answered"
  BY <1>1 DEF SessionInv, SessionTypeOK, AnsweredOnce
<1> QED
  BY <1>1, <1>2, NothingRead, NothingAnswered DEF SessionInv
-----------------------------------------------------------------------------
(* One item is read.                                                        *)
LEMMA NextBlocks ==
  ASSUME read' = read + 1, sent' = sent
  PROVE  /\ Blocks(read, FALSE)' = Blocks(read + 1, FALSE)
         /\ OpenBlock(read)' = OpenBlock(read + 1)
BY DEF Blocks, OpenBlock, Content, Blanks

LEMMA ReadKeeps == SessionInv /\ Read => SessionInv'
<1> SUFFICES ASSUME SessionInv, Read PROVE SessionInv'
  OBVIOUS
<1> DEFINE S == Seq(1 .. MaxItems)
<1>1. /\ open /\ pc # "answered" /\ ~Full
      /\ read \in Nat /\ read + 1 \in 1 .. MaxItems /\ read + 1 \in 1 .. Len(sent)
      /\ MaxMessages \in Nat /\ MaxItems \in Nat
  BY SessionsAssumption DEF SessionInv, SessionTypeOK, AnsweredOnce, Read
<1>2. /\ block \in S /\ events \in Seq(S) /\ Len(events) \in Nat
      /\ block \in Seq(Nat) /\ events \in Seq(Seq(Nat))
  <2>1. block \in S /\ events \in Seq(S)
    BY DEF SessionInv, SessionTypeOK
  <2>2. S \subseteq Seq(Nat)
    <3>1. 1 .. MaxItems \subseteq Nat
      BY <1>1
    <3> QED
      BY <3>1, SeqMonotone
  <2>3. Seq(S) \subseteq Seq(Seq(Nat))
    BY <2>2, SeqMonotone
  <2> QED
    BY <2>1, <2>2, <2>3, LenProperties
<1> HIDE DEF S
<1>3. ASSUME NEW evs \in Seq(S), NEW blk \in S, Collect(evs, blk)
      PROVE  /\ SessionTypeOK' /\ Len(sent') <= MaxItems /\ AnsweredOnce' /\ SessionTruthful'
             /\ events' = evs /\ block' = blk /\ read' = read + 1
             /\ UNCHANGED <<transport, sent>>
  <2>1. /\ events' = evs /\ block' = blk /\ read' = read + 1 /\ idle' = 0
        /\ UNCHANGED <<transport, idleTimeout, reflecting, pc, sent, end, total, open, answer>>
    BY <1>3 DEF Collect, config
  <2>2. SessionTypeOK' /\ Len(sent') <= MaxItems
    BY <1>1, <2>1 DEF SessionInv, SessionTypeOK, S
  <2> QED
    BY <1>1, <2>1, <2>2, NothingAnswered
<1>4. CASE transport = "sse"
  <2>1. SseLine /\ SseCollected /\ Len(events) < MaxMessages
    BY <1>1, <1>2, <1>4 DEF Read, SessionInv, Collected, Full
  <2>2. /\ Tidy(events, Blocks(read, FALSE)) /\ ToSet(block) = OpenBlock(read)
    BY <2>1 DEF SseCollected
  <2>3. CASE sent[read + 1] = "blank" /\ block # <<>>
    <3>1. Collect(Append(events, block), <<>>)
      BY <2>1, <2>3 DEF SseLine
    <3>2. Append(events, block) \in Seq(S) /\ <<>> \in S
      BY <1>2, AppendProperties DEF S
    <3>3. /\ SessionTypeOK' /\ Len(sent') <= MaxItems /\ AnsweredOnce' /\ SessionTruthful'
          /\ events' = Append(events, block) /\ block' = <<>> /\ read' = read + 1
          /\ UNCHANGED <<transport, sent>>
      BY <1>3, <3>1, <3>2
    <3>4. /\ Tidy(Append(events, block), Blocks(read, FALSE) \cup {OpenBlock(read)})
          /\ Len(Append(events, block)) = Len(events) + 1
      <4>1. \A s \in Blocks(read, FALSE) : \A x \in s, y \in ToSet(block) : x < y
        BY <1>1, <2>2, OpenBlockIsLast
      <4> HIDE DEF S
      <4> QED
        BY <1>2, <2>2, <2>3, <4>1, AppendEvent
    <3>5. OpenBlock(read) # {}
      <4>1. Len(block) # 0 /\ DOMAIN block = 1 .. Len(block) /\ Len(block) \in Nat
        BY <1>2, <2>3, EmptySeq, LenProperties
      <4>2. 1 \in DOMAIN block
        BY <4>1
      <4> QED
        BY <2>2, <4>2 DEF ToSet
    <3>6. /\ Blocks(read + 1, FALSE) = Blocks(read, FALSE) \cup {OpenBlock(read)}
          /\ OpenBlock(read + 1) = {}
      BY <1>1, <2>3, <3>5, BlankEnds
    <3>7. Tidy(events, Blocks(read, FALSE))' /\ OpenBlock(read)' = {}
      BY <3>3, <3>4, <3>6, NextBlocks DEF Tidy, InOrder
    <3>8. ToSet(<<>>) = {}
      BY DEF ToSet
    <3>9. WithinLimit'
      BY <1>1, <1>2, <1>4, <2>1, <3>3, <3>4 DEF WithinLimit
    <3>10. Collected'
      BY <1>4, <3>3, <3>7, <3>8 DEF Collected, SseCollected
    <3> QED
      BY <3>3, <3>9, <3>10 DEF SessionInv
  <2>4. CASE sent[read + 1] \in {"data", "id"}
    <3>1. Collect(events, Append(block, read + 1))
      BY <2>1, <2>4 DEF SseLine
    <3>2. /\ Append(block, read + 1) \in S
          /\ ToSet(Append(block, read + 1)) = ToSet(block) \cup {read + 1}
      BY <1>1, <1>2, ToSetAppend DEF S
    <3>3. /\ SessionTypeOK' /\ Len(sent') <= MaxItems /\ AnsweredOnce' /\ SessionTruthful'
          /\ events' = events /\ block' = Append(block, read + 1) /\ read' = read + 1
          /\ UNCHANGED <<transport, sent>>
      BY <1>2, <1>3, <3>1, <3>2
    <3>4. /\ Blocks(read + 1, FALSE) = Blocks(read, FALSE)
          /\ OpenBlock(read + 1) = OpenBlock(read) \cup {read + 1}
      BY <1>1, <2>4, ContentAdds
    <3>5. Tidy(events, Blocks(read, FALSE))' /\ OpenBlock(read)' = ToSet(block')
      BY <2>2, <3>2, <3>3, <3>4, NextBlocks DEF Tidy, InOrder
    <3>6. ~Full' /\ WithinLimit'
      BY <1>1, <1>4, <3>3 DEF Full, WithinLimit, SessionInv
    <3> QED
      BY <1>4, <3>3, <3>5, <3>6 DEF SessionInv, Collected, SseCollected
  <2>5. CASE /\ ~(sent[read + 1] = "blank" /\ block # <<>>)
             /\ sent[read + 1] \notin {"data", "id"}
    <3>1. Collect(events, block)
      BY <2>1, <2>5 DEF SseLine
    <3>3. /\ SessionTypeOK' /\ Len(sent') <= MaxItems /\ AnsweredOnce' /\ SessionTruthful'
          /\ events' = events /\ block' = block /\ read' = read + 1
          /\ UNCHANGED <<transport, sent>>
      BY <1>2, <1>3, <3>1
    <3>4. Blocks(read + 1, FALSE) = Blocks(read, FALSE) /\ OpenBlock(read + 1) = OpenBlock(read)
      <4>1. CASE sent[read + 1] = "blank"
        <5>1. OpenBlock(read) = {}
          BY <2>2, <2>5, <4>1 DEF ToSet
        <5> QED
          BY <1>1, <4>1, <5>1, BlankEnds
      <4>2. CASE sent[read + 1] # "blank"
        BY <1>1, <2>5, <4>2, OtherLine
      <4> QED
        BY <4>1, <4>2
    <3>5. Tidy(events, Blocks(read, FALSE))' /\ OpenBlock(read)' = ToSet(block')
      BY <2>2, <3>3, <3>4, NextBlocks DEF Tidy, InOrder
    <3>6. ~Full' /\ WithinLimit'
      BY <1>1, <1>4, <3>3 DEF Full, WithinLimit, SessionInv
    <3> QED
      BY <1>4, <3>3, <3>5, <3>6 DEF SessionInv, Collected, SseCollected
  <2> QED
    BY <2>3, <2>4, <2>5
<1>5. CASE transport # "sse"
  <2>1. Message /\ MessagesCollected
    BY <1>5 DEF Read, SessionInv, Collected
  <2>2. <<read + 1>> \in S /\ <<>> \in S
    BY <1>1 DEF S
  <2>3. /\ Append(events, <<read + 1>>) \in Seq(S)
        /\ Len(Append(events, <<read + 1>>)) = Len(events) + 1
        /\ \A i \in 1 .. Len(events) : Append(events, <<read + 1>>)[i] = events[i]
        /\ Append(events, <<read + 1>>)[Len(events) + 1] = <<read + 1>>
    BY <1>2, <2>2, AppendProperties
  <2>4. /\ SessionTypeOK' /\ Len(sent') <= MaxItems /\ AnsweredOnce' /\ SessionTruthful'
        /\ events' = Append(events, <<read + 1>>) /\ block' = <<>> /\ read' = read + 1
        /\ UNCHANGED <<transport, sent>>
    BY <1>3, <2>1, <2>2, <2>3 DEF Message
  <2>5. \A i : i \in 1 .. read + 1 <=> i \in 1 .. read \/ i = read + 1
    BY <1>1
  <2>6. MessagesCollected'
    BY <2>1, <2>3, <2>4, <2>5 DEF MessagesCollected
  <2>7. WithinLimit'
    BY <1>1, <1>2, <1>5, <2>3, <2>4 DEF Full, WithinLimit
  <2> QED
    BY <1>5, <2>4, <2>6, <2>7 DEF SessionInv, Collected
<1> QED
  BY <1>4, <1>5
-----------------------------------------------------------------------------
(* What has been collected is what was sent, as far as it was read.         *)
LEMMA CollectedTold ==
  ASSUME SessionInv, NEW ended \in BOOLEAN,
         transport = "sse" /\ ended => block = <<>>
  PROVE  InOrder(events, Expected(read, ended))
<1>1. read \in Nat /\ events \in Seq(Seq(Nat))
  <2>1. MaxItems \in Nat /\ events \in Seq(Seq(1 .. MaxItems)) /\ read \in Nat
    BY SessionsAssumption, LenProperties DEF SessionInv, SessionTypeOK
  <2>2. 1 .. MaxItems \subseteq Nat
    BY <2>1
  <2> QED
    BY <2>1, <2>2, SeqMonotone
<1>2. CASE transport = "sse"
  <2>1. InOrder(events, Blocks(read, FALSE)) /\ ToSet(block) = OpenBlock(read)
    BY <1>2 DEF SessionInv, Collected, SseCollected, Tidy
  <2>2. CASE ended = TRUE
    <3>1. OpenBlock(read) = {}
      BY <1>2, <2>1, <2>2 DEF ToSet
    <3>2. Blocks(read, TRUE) = Blocks(read, FALSE)
      BY <1>1, <3>1, BlocksAre
    <3> QED
      BY <1>2, <2>1, <2>2, <3>2 DEF Expected
  <2>3. CASE ended = FALSE
    BY <1>2, <2>1, <2>3 DEF Expected
  <2> QED
    BY <2>2, <2>3
<1>3. CASE transport # "sse"
  <2>1. Len(events) = read /\ \A i \in 1 .. read : events[i] = <<i>>
    BY <1>3 DEF SessionInv, Collected, MessagesCollected
  <2> QED
    BY <1>1, <1>3, <2>1, MessagesTidy DEF Expected
<1> QED
  BY <1>2, <1>3

(* The event that the end of the response cuts short is told as well.       *)
LEMMA TrailingTold ==
  ASSUME SessionInv, transport = "sse"
  PROVE  /\ InOrder(Trailing, Expected(read, TRUE))
         /\ Len(Trailing) \in Nat /\ Len(Trailing) <= Len(events) + 1
<1>1. read \in Nat /\ events \in Seq(Seq(Nat)) /\ block \in Seq(Nat) /\ Len(events) \in Nat
  <2>1. /\ MaxItems \in Nat /\ events \in Seq(Seq(1 .. MaxItems)) /\ read \in Nat
        /\ block \in Seq(1 .. MaxItems)
    BY SessionsAssumption, LenProperties DEF SessionInv, SessionTypeOK
  <2>2. 1 .. MaxItems \subseteq Nat
    BY <2>1
  <2> QED
    BY <2>1, <2>2, SeqMonotone, LenProperties
<1>2. CASE block = <<>>
  <2>1. InOrder(events, Expected(read, TRUE))
    BY <1>2, CollectedTold
  <2>2. Trailing = events
    BY <1>2 DEF Trailing
  <2>3. Len(Trailing) \in Nat /\ Len(Trailing) <= Len(events) + 1
    BY <1>1, <2>2
  <2>4. InOrder(Trailing, Expected(read, TRUE))
    BY <2>1, <2>2, Zenon
  <2> QED
    BY <2>3, <2>4
<1>3. CASE block # <<>>
  <2>1. Tidy(events, Blocks(read, FALSE)) /\ ToSet(block) = OpenBlock(read)
    BY DEF SessionInv, Collected, SseCollected
  <2>2. \A s \in Blocks(read, FALSE) : \A x \in s, y \in ToSet(block) : x < y
    BY <1>1, <2>1, OpenBlockIsLast
  <2>3. /\ Tidy(Append(events, block), Blocks(read, FALSE) \cup {ToSet(block)})
        /\ Len(Append(events, block)) = Len(events) + 1
    BY <1>1, <1>3, <2>1, <2>2, AppendEvent
  <2>4. ToSet(block) # {}
    <3>1. Len(block) # 0 /\ DOMAIN block = 1 .. Len(block) /\ Len(block) \in Nat
      BY <1>1, <1>3, EmptySeq, LenProperties
    <3>2. 1 \in DOMAIN block
      BY <3>1
    <3> QED
      BY <3>2 DEF ToSet
  <2>5. Blocks(read, TRUE) = Blocks(read, FALSE) \cup {ToSet(block)}
    BY <1>1, <2>1, <2>4, BlocksAre
  <2> QED
    <3>1. Trailing = Append(events, block) /\ Expected(read, TRUE) = Blocks(read, TRUE)
      BY <1>3 DEF Trailing, Expected
    <3>2. InOrder(Append(events, block), Blocks(read, TRUE))
      BY <2>3, <2>5 DEF Tidy
    <3>3. Len(Trailing) \in Nat /\ Len(Trailing) <= Len(events) + 1
      BY <1>1, <2>3, <3>1
    <3>4. InOrder(Trailing, Expected(read, TRUE))
      BY <3>1, <3>2, Zenon
    <3> QED
      BY <3>3, <3>4
<1> QED
  BY <1>2, <1>3

(* An answer at the end of the upstream, of all that it sent.               *)
LEMMA EndTold ==
  ASSUME SessionInv, NEW ends, SeesEnd(ends)
  PROVE  /\ InOrder(events, Expected(Len(sent), FALSE)) /\ end \in ends
         /\ transport \in {"sse", "websocket", "grpc_stream"} => Len(events) < MaxMessages
<1>1. read = Len(sent) /\ ~Full /\ end \in ends
  BY DEF SeesEnd, Waiting
<1>2. InOrder(events, Expected(read, FALSE))
  BY CollectedTold
<1>3. Len(events) \in Nat /\ MaxMessages \in Nat
  BY SessionsAssumption, LenProperties DEF SessionInv, SessionTypeOK
<1>4. transport \in {"sse", "websocket", "grpc_stream"} => Len(events) < MaxMessages
  BY <1>1, <1>3 DEF Full
<1> QED
  BY <1>1, <1>2, <1>4
-----------------------------------------------------------------------------
(* The steps that answer.                                                   *)
LEMMA EnoughKeeps == SessionInv /\ Enough => SessionInv'
<1> SUFFICES ASSUME SessionInv, Enough PROVE SessionInv'
  OBVIOUS
<1> DEFINE reason == IF transport = "grpc_unary" THEN "completed" ELSE "max_messages"
           ended == end = "eof" /\ read = Len(sent)
<1>1. Full /\ Finish("ok", reason, events)
  BY DEF Enough
<1>2. Len(events) \in Nat /\ MaxMessages \in Nat
  BY SessionsAssumption, LenProperties DEF SessionInv, SessionTypeOK
<1>3. Len(events) = IF transport = "grpc_unary" THEN 1 ELSE MaxMessages
  <2>1. WithinLimit
    BY DEF SessionInv
  <2>2. CASE transport = "grpc_unary"
    BY <1>1, <1>2, <2>1, <2>2 DEF Full, WithinLimit
  <2>3. CASE transport # "grpc_unary"
    BY <1>1, <1>2, <2>1, <2>3 DEF Full, WithinLimit
  <2> QED
    BY <2>2, <2>3
<1>4. InOrder(events, Expected(read, ended))
  <2>1. transport = "sse" => block = <<>>
    BY <1>1 DEF SessionInv, Collected, SseCollected
  <2>2. ended \in BOOLEAN
    OBVIOUS
  <2> HIDE DEF ended
  <2> QED
    BY <2>1, <2>2, CollectedTold
<1>5. Truth(reason, events)
  BY <1>3, <1>4 DEF Truth
<1> QED
  BY <1>1, <1>5, FinishKeeps

LEMMA SseEndsKeeps == SessionInv /\ SseEnds => SessionInv'
<1> SUFFICES ASSUME SessionInv, SseEnds PROVE SessionInv'
  OBVIOUS
<1> DEFINE reason == IF Len(Trailing) >= MaxMessages THEN "max_messages" ELSE "eof"
<1>1. /\ transport = "sse" /\ SeesEnd({"eof"}) /\ Finish("ok", reason, Trailing)
      /\ read = Len(sent) /\ end = "eof"
  BY DEF SseEnds, SeesEnd, Waiting
<1>2. /\ InOrder(Trailing, Expected(read, TRUE))
      /\ Len(Trailing) \in Nat /\ Len(Trailing) <= Len(events) + 1
  BY <1>1, TrailingTold
<1>3. Len(events) \in Nat /\ MaxMessages \in Nat /\ Len(events) < MaxMessages
  BY <1>1, EndTold, SessionsAssumption, LenProperties DEF SessionInv, SessionTypeOK
<1>4. CASE Len(Trailing) >= MaxMessages
  <2>1. reason = "max_messages" /\ Len(Trailing) = MaxMessages
    BY <1>2, <1>3, <1>4
  <2>2. (end = "eof" /\ read = Len(sent)) = TRUE
    BY <1>1
  <2>3. Truth("max_messages", Trailing)
    BY <1>1, <1>2, <2>1, <2>2 DEF Truth
  <2> QED
    BY <1>1, <2>1, <2>3, FinishKeeps
<1>5. CASE ~(Len(Trailing) >= MaxMessages)
  <2>1. reason = "eof" /\ Len(Trailing) < MaxMessages
    BY <1>2, <1>3, <1>5
  <2>2. Truth("eof", Trailing)
    BY <1>1, <1>2, <2>1 DEF Truth
  <2> QED
    BY <1>1, <2>1, <2>2, FinishKeeps
<1> QED
  BY <1>4, <1>5

LEMMA EndsKeep ==
  SessionInv /\ (SseBreaks \/ WebsocketCloses \/ RpcCompletes \/ RpcFails \/ CommandExits)
    => SessionInv'
<1> SUFFICES ASSUME SessionInv,
                    SseBreaks \/ WebsocketCloses \/ RpcCompletes \/ RpcFails \/ CommandExits
             PROVE  SessionInv'
  OBVIOUS
<1>1. CASE SseBreaks
  <2>1. Finish("ok", "connection_error", events) /\ SeesEnd({"error"})
    BY <1>1 DEF SseBreaks
  <2>2. Truth("connection_error", events)
    <3>1. InOrder(events, Expected(Len(sent), FALSE)) /\ end \in {"error"}
      BY <2>1, EndTold, Zenon
    <3> QED
      BY <2>1, <3>1 DEF Truth
  <2> QED
    BY <2>1, <2>2, FinishKeeps
<1>2. CASE WebsocketCloses
  <2>1. /\ Finish("ok", "connection_closed", events) /\ SeesEnd({"eof", "error"})
        /\ transport = "websocket"
    BY <1>2 DEF WebsocketCloses
  <2>2. Truth("connection_closed", events)
    <3>1. /\ InOrder(events, Expected(Len(sent), FALSE)) /\ end \in {"eof", "error"}
          /\ transport \in {"sse", "websocket", "grpc_stream"} => Len(events) < MaxMessages
      BY <2>1, EndTold, Zenon
    <3> QED
      BY <2>1, <3>1 DEF Truth
  <2> QED
    BY <2>1, <2>2, FinishKeeps
<1>3. CASE RpcCompletes
  <2>1. Finish("ok", "completed", events) /\ SeesEnd({"eof"}) /\ transport = "grpc_stream"
    BY <1>3 DEF RpcCompletes
  <2>2. Truth("completed", events)
    <3>1. /\ InOrder(events, Expected(Len(sent), FALSE)) /\ end \in {"eof"}
          /\ transport \in {"sse", "websocket", "grpc_stream"} => Len(events) < MaxMessages
      BY <2>1, EndTold, Zenon
    <3> QED
      BY <2>1, <3>1 DEF Truth
  <2> QED
    BY <2>1, <2>2, FinishKeeps
<1>4. CASE RpcFails
  BY <1>4, ToolErrorKeeps DEF RpcFails
<1>5. CASE CommandExits
  <2>1. CASE end = "eof"
    <3>1. Finish("ok", "completed", events) /\ SeesEnd({"eof", "error"}) /\ transport = "cli"
      BY <1>5, <2>1 DEF CommandExits
    <3>2. Truth("completed", events)
      <4>1. InOrder(events, Expected(Len(sent), FALSE))
        BY <3>1, EndTold
      <4> QED
        BY <2>1, <3>1, <4>1 DEF Truth
    <3> QED
      BY <3>1, <3>2, FinishKeeps
  <2>2. CASE end # "eof"
    BY <1>5, <2>2, ToolErrorKeeps DEF CommandExits
  <2> QED
    BY <2>1, <2>2
<1> QED
  BY <1>1, <1>2, <1>3, <1>4, <1>5

LEMMA ExpiresKeep == SessionInv /\ Expires => SessionInv'
<1> SUFFICES ASSUME SessionInv, Expires PROVE SessionInv'
  OBVIOUS
<1>1. CASE IdleExpires
  <2>1. Finish("ok", "idle_timeout", events) /\ idle >= idleTimeout
    BY <1>1 DEF IdleExpires
  <2>2. Truth("idle_timeout", events)
    BY <2>1, CollectedTold DEF Truth
  <2> QED
    BY <2>1, <2>2, FinishKeeps
<1>2. CASE OverallExpires
  <2>1. Finish("ok", "overall_timeout", <<>>) /\ total >= OverallTimeout
    BY <1>2 DEF OverallExpires
  <2>2. Truth("overall_timeout", <<>>)
    BY <2>1 DEF Truth
  <2> QED
    BY <2>1, <2>2, FinishKeeps
<1>3. CASE ReadExpires \/ DeadlineExceeded \/ CommandExpires
  BY <1>3, ToolErrorKeeps DEF ReadExpires, DeadlineExceeded, CommandExpires
<1> QED
  BY <1>1, <1>2, <1>3 DEF Expires

LEMMA OrphanExitsKeeps == SessionInv /\ OrphanExits => SessionInv'
<1> SUFFICES ASSUME SessionInv, OrphanExits PROVE SessionInv'
  OBVIOUS
<1>1. Finish("ok", "none", <<>>) /\ pc = "abandoned"
  BY DEF OrphanExits, Orphan
<1> QED
  BY <1>1, FinishKeeps

LEMMA StubAnswersKeeps == SessionInv /\ StubAnswers => SessionInv'
<1> SUFFICES ASSUME SessionInv, StubAnswers PROVE SessionInv'
  OBVIOUS
<1>1. Finish("ok", "stub", <<>>) /\ transport = "stub"
  BY DEF StubAnswers
<1> QED
  BY <1>1, FinishKeeps
-----------------------------------------------------------------------------
LEMMA InitHolds == SessionInit => SessionInv
<1> SUFFICES ASSUME SessionInit PROVE SessionInv
  OBVIOUS
<1>1. MaxItems \in Nat /\ MaxMessages \in Nat \ {0}
  BY SessionsAssumption
<1>2. /\ read = 0 /\ events = <<>> /\ block = <<>> /\ sent = <<>> /\ answer.status = "none"
      /\ pc = "open" /\ open = FALSE
  BY DEF SessionInit, NoAnswer
<1>3. SessionTypeOK
  <2>1. /\ sent \in Seq(Item) /\ block \in Seq(1 .. MaxItems)
        /\ events \in Seq(Seq(1 .. MaxItems)) /\ Len(sent) = 0
    BY <1>2
  <2>2. /\ transport \in Transports /\ idleTimeout \in IdleTimeouts /\ reflecting = FALSE
        /\ end = "no" /\ idle = 0 /\ total = 0
    BY DEF SessionInit
  <2>3. read \in 0 .. Len(sent)
    BY <1>2, <2>1
  <2> QED
    BY <1>2, <2>1, <2>2, <2>3 DEF SessionTypeOK, Item
<1>4. Len(sent) <= MaxItems /\ WithinLimit /\ AnsweredOnce /\ SessionTruthful
  BY <1>1, <1>2 DEF WithinLimit, AnsweredOnce, SessionTruthful
<1>5. Content(0) = {} /\ Blanks(0) = {} /\ ToSet(<<>>) = {}
  BY DEF Content, Blanks, ToSet
<1>6. Blocks(0, FALSE) = {} /\ OpenBlock(0) = {}
  <2>1. {Before(0, b) : b \in Blanks(0)} = {}
    BY <1>5
  <2> QED
    BY <1>5, <2>1, BlocksAre DEF OpenBlock
<1>7. Tidy(<<>>, {})
  <2>1. Cardinality({}) = 0 /\ IsFiniteSet({})
    BY FS_EmptySet
  <2>2. {ToSet(events[i]) : i \in DOMAIN events} = {}
    BY <1>2
  <2> QED
    BY <1>2, <2>1, <2>2 DEF Tidy, InOrder
<1>8. Collected
  <2>1. SseCollected
    BY <1>2, <1>5, <1>6, <1>7 DEF SseCollected
  <2>2. MessagesCollected
    BY <1>2 DEF MessagesCollected
  <2> QED
    BY <2>1, <2>2 DEF Collected
<1> QED
  BY <1>3, <1>4, <1>8 DEF SessionInv

LEMMA StutterKeeps == SessionInv /\ UNCHANGED sessionVars => SessionInv'
<1> SUFFICES ASSUME SessionInv, UNCHANGED sessionVars PROVE SessionInv'
  OBVIOUS
<1>1. UNCHANGED <<transport, idleTimeout, reflecting, pc, sent, end, read, block, events, idle, total, open,
                  answer>>
  BY DEF sessionVars, config
<1>2. SessionTypeOK' /\ Len(sent') <= MaxItems /\ AnsweredOnce'
  BY <1>1 DEF SessionInv, SessionTypeOK, AnsweredOnce
<1>3. Collected' /\ WithinLimit'
  BY <1>1, NothingRead
<1>4. SessionTruthful'
  <2>1. /\ Expected(Len(sent), answer.reason = "eof")' = Expected(Len(sent), answer.reason = "eof")
        /\ Expected(Len(sent), FALSE)' = Expected(Len(sent), FALSE)
        /\ Expected(read, FALSE)' = Expected(read, FALSE)
        /\ Expected(read, end = "eof" /\ read = Len(sent))'
             = Expected(read, end = "eof" /\ read = Len(sent))
    BY <1>1 DEF Expected, Blocks, Content, Blanks
  <2> QED
    BY <1>1, <2>1 DEF SessionInv, SessionTruthful
<1> QED
  BY <1>2, <1>3, <1>4 DEF SessionInv

LEMMA NextKeeps == SessionInv /\ [SessionNext]_sessionVars => SessionInv'
<1> SUFFICES ASSUME SessionInv, [SessionNext]_sessionVars PROVE SessionInv'
  OBVIOUS
<1>1. CASE \E item \in Item : UpstreamSends(item)
  BY <1>1, UpstreamSendsKeeps
<1>2. CASE \E how \in {"eof", "error"} : UpstreamEnds(how)
  BY <1>2, UpstreamEndsKeeps
<1>3. CASE \/ RequestRefused \/ ConnectFails \/ ReflectionFails \/ CommandNotStarted
           \/ BrokerNotConnected
  BY <1>3, ToolErrorKeeps
     DEF RequestRefused, ConnectFails, ReflectionFails, CommandNotStarted, BrokerNotConnected
<1> QED
  BY <1>1, <1>2, <1>3, OpenKeeps, ReflectedKeeps, StubAnswersKeeps, ReadKeeps, EnoughKeeps, SseEndsKeeps,
     EndsKeep, ExpiresKeep, OrphanExitsKeeps, AbandonKeeps, TickKeeps, StutterKeeps
     DEF SessionNext, Expires, Item

(* A session's state keeps its shape.                                       *)
THEOREM SessionTypes == SessionSpec => []SessionTypeOK
BY InitHolds, NextKeeps, PTL DEF SessionSpec, SessionInv

(* An answer that is not an error tells what the upstream sent, every event *)
(* once, whole and in order, and why it ends there (proxy_streaming.py,     *)
(* grpc_stream.py, cli_executor.py), for any limits and any upstream.       *)
THEOREM AnswersTellTheTruth == SessionSpec => []SessionTruthful
BY InitHolds, NextKeeps, PTL DEF SessionSpec, SessionInv
==============================================================================
