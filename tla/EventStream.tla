------------------------------ MODULE EventStream ------------------------------
(***************************************************************************)
(* The event table of one job and a client's Server-Sent-Events stream     *)
(* over it.  Writers (executions of the job) allocate sequence numbers     *)
(* with max + 1 under a unique constraint and retry on conflict            *)
(* (append_event, apps/compiler_worker/repository.py); the stream polls    *)
(* the rows past its cursor, then the job's status                         *)
(* (event_stream, apps/compiler_api/routes/compilations.py).  The database *)
(* runs at READ COMMITTED, so a statement sees what is committed when it   *)
(* starts, and an insert waits for another transaction's pending insert of *)
(* the same key.                                                           *)
(***************************************************************************)
EXTENDS Integers, FiniteSets

CONSTANTS
  Writers,       \* executions of the job that append events
  MaxRetries,    \* max_retries of append_event
  MaxEvents      \* bound: events an execution appends, the last one terminal

ASSUME StreamAssumption ==
  /\ MaxRetries \in Nat \ {0}
  /\ MaxEvents \in Nat \ {0}

VARIABLES
  rows,          \* committed compilation_events rows
  terminal,      \* is the committed job status terminal?
  wpc,           \* wpc[w]: next step of writer w
  left,          \* left[w]: events writer w has still to append
  sequence_number, \* sequence_number[w]: number allocated to the pending row
  attempt_num,   \* attempt_num[w]: conflicts of the current append_event call
  spc,           \* next step of the stream
  last_sequence, \* the stream's cursor
  batch,         \* rows the stream fetched in this poll
  delivered,     \* rows the stream has yielded
  closedBy       \* why the stream ended

writerVars == <<rows, terminal, wpc, left, sequence_number, attempt_num>>
streamVars == <<spc, last_sequence, batch, delivered, closedBy>>
logVars == <<writerVars, streamVars>>

Row == [seq : Nat, by : Writers, last : BOOLEAN]

StreamTypeOK ==
  /\ rows \subseteq Row
  /\ terminal \in BOOLEAN
  /\ wpc \in [Writers -> {"next", "read", "flush", "commit", "returned", "raised"}]
  /\ left \in [Writers -> 0 .. MaxEvents]
  /\ sequence_number \in [Writers -> Nat]
  /\ attempt_num \in [Writers -> 0 .. MaxRetries]
  /\ spc \in {"list_events", "get_job", "closed"}
  /\ last_sequence \in Nat
  /\ batch \subseteq Row
  /\ delivered \subseteq Row
  /\ closedBy \in {"none", "terminal", "disconnect", "error"}

StreamInit ==
  /\ rows = {}
  /\ terminal = FALSE
  /\ wpc = [w \in Writers |-> "next"]
  /\ left = [w \in Writers |-> MaxEvents]
  /\ sequence_number = [w \in Writers |-> 0]
  /\ attempt_num = [w \in Writers |-> 0]
  /\ spc = "list_events"
  /\ last_sequence = 0
  /\ batch = {}
  /\ delivered = {}
  /\ closedBy = "none"
-----------------------------------------------------------------------------
(* Writers.                                                                 *)

GotoW(w, from, to) ==
  /\ wpc[w] = from
  /\ wpc' = [wpc EXCEPT ![w] = to]

(* The execution calls append_event.  Before the last call it has committed *)
(* the terminal status (mark_job_succeeded, mark_job_failed); before some   *)
(* of the others mark_job_running, which asks for no status and so reopens  *)
(* a job that a duplicate execution has finished.                           *)
BeginAppend(w) ==
  /\ left[w] > 0
  /\ GotoW(w, "next", "read")
  /\ terminal' \in (IF left[w] = 1 THEN {TRUE} ELSE {terminal, FALSE})
  /\ attempt_num' = [attempt_num EXCEPT ![w] = 0]
  /\ UNCHANGED <<rows, left, sequence_number, streamVars>>

(* _next_sequence_number: one more than the largest committed number.       *)
IsNextSequence(n) ==
  /\ \A r \in rows : r.seq < n
  /\ n = 1 \/ \E r \in rows : r.seq = n - 1

ReadMax(w) ==
  /\ GotoW(w, "read", "flush")
  /\ \E n \in {1} \cup {r.seq + 1 : r \in rows} :
       /\ IsNextSequence(n)
       /\ sequence_number' = [sequence_number EXCEPT ![w] = n]
  /\ UNCHANGED <<rows, terminal, left, attempt_num, streamVars>>

(* Another transaction holds a pending row with the same number.            *)
Blocked(w) ==
  \E v \in Writers \ {w} : wpc[v] = "commit" /\ sequence_number[v] = sequence_number[w]

(* Mutant: the table has no unique constraint on the number.                *)
Flush_NoConstraint(w) ==
  /\ GotoW(w, "flush", "commit")
  /\ UNCHANGED <<rows, terminal, left, sequence_number, attempt_num, streamVars>>

Flush(w) ==
  /\ ~Blocked(w)
  /\ \A r \in rows : r.seq # sequence_number[w]
  /\ GotoW(w, "flush", "commit")
  /\ UNCHANGED <<rows, terminal, left, sequence_number, attempt_num, streamVars>>

(* IntegrityError: roll back and try again, or give up after max_retries.   *)
FlushConflict(w) ==
  /\ \E r \in rows : r.seq = sequence_number[w]
  /\ attempt_num' = [attempt_num EXCEPT ![w] = @ + 1]
  /\ \/ attempt_num[w] + 1 < MaxRetries /\ GotoW(w, "flush", "read")
     \/ attempt_num[w] + 1 = MaxRetries /\ GotoW(w, "flush", "raised")
  /\ UNCHANGED <<rows, terminal, left, sequence_number, streamVars>>

Commit(w) ==
  /\ GotoW(w, "commit", IF left[w] = 1 THEN "returned" ELSE "next")
  /\ rows' = rows \cup {[seq |-> sequence_number[w], by |-> w, last |-> left[w] = 1]}
  /\ left' = [left EXCEPT ![w] = @ - 1]
  /\ UNCHANGED <<terminal, sequence_number, attempt_num, streamVars>>

(* The commit fails or the worker dies, in an append or between two: a      *)
(* pending row is rolled back, the status stays what it is.                 *)
AppendLost(w) ==
  /\ wpc[w] \in {"next", "read", "flush", "commit"}
  /\ GotoW(w, wpc[w], "raised")
  /\ UNCHANGED <<rows, terminal, left, sequence_number, attempt_num, streamVars>>
-----------------------------------------------------------------------------
(* The stream.                                                              *)

(* Mutant: the cursor is exclusive by one row too many.                     *)
ListEvents_OffByOne ==
  /\ spc = "list_events"
  /\ spc' = "get_job"
  /\ batch' = {r \in rows : r.seq > last_sequence + 1}
  /\ UNCHANGED <<writerVars, last_sequence, delivered, closedBy>>

ListEvents ==
  /\ spc = "list_events"
  /\ spc' = "get_job"
  /\ batch' = {r \in rows : r.seq > last_sequence}
  /\ UNCHANGED <<writerVars, last_sequence, delivered, closedBy>>

(* The rows of the batch are yielded in order, the cursor follows, and the  *)
(* status read after them decides whether the stream goes on.               *)
Yielded(upto) == {r \in batch : r.seq <= upto}

NextCursor(n) ==
  IF batch = {} THEN n = last_sequence
                ELSE n \in {r.seq : r \in batch} /\ batch = Yielded(n)

(* Mutant: the stream only ends when the client goes away.                  *)
GetJob_NoStatus ==
  /\ spc = "get_job"
  /\ delivered' = delivered \cup batch
  /\ \E n \in {last_sequence} \cup {r.seq : r \in batch} :
       NextCursor(n) /\ last_sequence' = n
  /\ batch' = {}
  /\ \/ spc' = "closed" /\ closedBy' = "disconnect"
     \/ spc' = "list_events" /\ UNCHANGED closedBy
  /\ UNCHANGED writerVars

GetJob ==
  /\ spc = "get_job"
  /\ delivered' = delivered \cup batch
  /\ \E n \in {last_sequence} \cup {r.seq : r \in batch} :
       NextCursor(n) /\ last_sequence' = n
  /\ batch' = {}
  /\ \/ terminal /\ spc' = "closed" /\ closedBy' = "terminal"
     \/ ~terminal /\ spc' = "closed" /\ closedBy' = "disconnect"
     \/ ~terminal /\ spc' = "list_events" /\ UNCHANGED closedBy
  /\ UNCHANGED writerVars

(* A row that cannot be serialised: the cursor is past it, the stream ends. *)
SerializationError ==
  /\ spc = "get_job"
  /\ \E r \in batch :
       /\ delivered' = delivered \cup Yielded(r.seq - 1)
       /\ last_sequence' = r.seq
  /\ batch' = {}
  /\ spc' = "closed"
  /\ closedBy' = "error"
  /\ UNCHANGED writerVars

WriterStep(w) == BeginAppend(w) \/ ReadMax(w) \/ Flush(w) \/ FlushConflict(w) \/ Commit(w)

StreamNext ==
  \/ \E w \in Writers : WriterStep(w) \/ AppendLost(w)
  \/ ListEvents \/ GetJob \/ SerializationError

StreamSpec == StreamInit /\ [][StreamNext]_logVars

(* Executions that run and a client that stays are served again and again.  *)
StreamFairness ==
  /\ \A w \in Writers : WF_logVars(WriterStep(w))
  /\ WF_logVars(ListEvents) /\ WF_logVars(GetJob)

StreamFairSpec == StreamSpec /\ StreamFairness
-----------------------------------------------------------------------------
(* Correctness.                                                             *)

(* The committed rows of the job are numbered 1, 2, ... without a gap and   *)
(* without a repetition, however many executions append at once: the        *)
(* unique constraint and the retry make max + 1 an allocator.               *)
SequenceGapless ==
  /\ \A q, r \in rows : q.seq = r.seq => q = r
  /\ \A r \in rows : r.seq >= 1 /\ \A k \in 1 .. r.seq : \E q \in rows : q.seq = k

(* The cursor never loses a row: everything committed up to last_sequence   *)
(* was yielded and nothing else was, so a row cannot become visible behind  *)
(* the cursor of a stream that is still open.                               *)
NothingBehindCursor ==
  closedBy # "error" => delivered = {r \in rows : r.seq <= last_sequence}

(* A stream ends when the executions of its job have all returned (whoever  *)
(* reopens the status with mark_job_running closes it again), and when they *)
(* have ended in any way and left a terminal status.  An execution that     *)
(* reopens the status and dies, or runs out of retries of an append, leaves *)
(* the stream polling.                                                      *)
StreamCloses ==
  \/ \A w \in Writers : wpc[w] = "returned"
  \/ terminal /\ \A w \in Writers : wpc[w] \in {"returned", "raised"}
  ~> spc = "closed"
================================================================================
