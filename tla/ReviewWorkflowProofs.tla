------------------------ MODULE ReviewWorkflowProofs ------------------------
(***************************************************************************)
(* Theorems about ReviewWorkflow for any number of concurrent requests,    *)
(* any roles and any length of history: however requests that read, check  *)
(* and write without a lock overwrite each other, a row's state and its    *)
(* history agree, and no gate is passed without its role.                  *)
(***************************************************************************)
EXTENDS ReviewWorkflow, SequenceTheorems, TLAPS

Record == [state : States, history : Seq(Entry), notes : BOOLEAN]

(* An entry is a legal transition, and of a gate with the role for it.      *)
Legal(e) == Allowed(e.from, e.to, e.by)

(* A history is a chain of legal transitions from draft to the state.       *)
Chain(s, h) ==
  /\ s = IF h = <<>> THEN "draft" ELSE h[1].to
  /\ h # <<>> => h[Len(h)].from = "draft"
  /\ \A j \in 1 .. Len(h) - 1 : h[j].from = h[j + 1].to
  /\ \A j \in 1 .. Len(h) : Legal(h[j])

Typed ==
  /\ rows \in Seq(Record)
  /\ record \in [Clients -> Record]
  /\ index \in [Clients -> Nat]
  /\ \A c \in Clients : index[c] <= Len(rows)
  /\ dirty \in [Clients -> {{}, {"notes"}, {"state", "history"}}]

RowsChained == \A i \in 1 .. Len(rows) : Chain(rows[i].state, rows[i].history)
PendingChained == \A c \in Clients : Chain(record[c].state, record[c].history)
NotesPending == \A c \in Clients : "notes" \in dirty[c] => record[c].notes

ReviewInv == Typed /\ RowsChained /\ PendingChained /\ NotesPending
-----------------------------------------------------------------------------
LEMMA NewRecordSound == NewRecord \in Record /\ Chain(NewRecord.state, NewRecord.history)
<1>1. <<>> \in Seq(Entry) /\ Len(<<>>) = 0
  BY EmptySeq
<1> QED
  BY <1>1 DEF NewRecord, Record, Chain, States

LEMMA InitReviewInv == Init => ReviewInv
<1> SUFFICES ASSUME Init PROVE ReviewInv
  OBVIOUS
<1>1. rows \in Seq(Record) /\ Len(rows) = 0
  BY EmptySeq DEF Init
<1>2. Typed
  BY <1>1, NewRecordSound DEF Init, Typed
<1>3. RowsChained
  BY <1>1 DEF RowsChained
<1>4. PendingChained /\ NotesPending
  BY NewRecordSound DEF Init, PendingChained, NotesPending
<1> QED
  BY <1>2, <1>3, <1>4 DEF ReviewInv

(* What a handler reads is a sound row, or a new one.                       *)
LEMMA ReadSound ==
  ASSUME ReviewInv, NEW i \in Candidates
  PROVE  /\ i \in Nat /\ i <= Len(rows)
         /\ RecordAt(i) \in Record
         /\ Chain(RecordAt(i).state, RecordAt(i).history)
<1>1. CASE i = 0
  <2>1. Len(rows) \in Nat
    BY DEF ReviewInv, Typed
  <2> QED
    BY <1>1, <2>1, NewRecordSound DEF RecordAt
<1>2. CASE i # 0
  <2>1. i \in 1 .. Len(rows) /\ Len(rows) \in Nat
    BY <1>2 DEF Candidates, ReviewInv, Typed
  <2>2. rows[i] \in Record
    BY <2>1, ElementOfSeq DEF ReviewInv, Typed
  <2> QED
    BY <1>2, <2>1, <2>2 DEF RecordAt, ReviewInv, RowsChained
<1> QED
  BY <1>1, <1>2

(* The handlers up to the commit keep the invariant when the record that    *)
(* they are about to write is sound.                                        *)
LEMMA LoadKeeps ==
  ASSUME ReviewInv, NEW c \in Clients, NEW i \in Candidates, NEW r \in Record,
         NEW columns \in {{}, {"notes"}, {"state", "history"}},
         Load(c, i, r, columns), Chain(r.state, r.history),
         "notes" \in columns => r.notes
  PROVE  ReviewInv'
<1>1. i \in Nat /\ i <= Len(rows)
  BY ReadSound
<1>2. rows' = rows /\ rows \in Seq(Record)
  BY DEF Load, ReviewInv, Typed
<1>3. record' \in [Clients -> Record] /\ index' \in [Clients -> Nat]
  BY <1>1 DEF Load, ReviewInv, Typed
<1>4. \A d \in Clients : index'[d] <= Len(rows)
  BY <1>1 DEF Load, ReviewInv, Typed
<1>5. dirty' \in [Clients -> {{}, {"notes"}, {"state", "history"}}]
  BY DEF Load, ReviewInv, Typed
<1>6. RowsChained'
  BY <1>2 DEF ReviewInv, RowsChained
<1>7. PendingChained'
  <2> SUFFICES ASSUME NEW d \in Clients
               PROVE  Chain(record'[d].state, record'[d].history)
    BY DEF PendingChained
  <2>1. record'[d] = IF d = c THEN r ELSE record[d]
    BY DEF Load, ReviewInv, Typed
  <2> QED
    BY <2>1 DEF ReviewInv, PendingChained
<1>8. NotesPending'
  <2> SUFFICES ASSUME NEW d \in Clients, "notes" \in dirty'[d]
               PROVE  record'[d].notes
    BY DEF NotesPending
  <2>1. /\ record'[d] = IF d = c THEN r ELSE record[d]
        /\ dirty'[d] = IF d = c THEN columns ELSE dirty[d]
    BY DEF Load, ReviewInv, Typed
  <2> QED
    BY <2>1 DEF ReviewInv, NotesPending
<1> QED
  BY <1>2, <1>3, <1>4, <1>5, <1>6, <1>7, <1>8 DEF ReviewInv, Typed
-----------------------------------------------------------------------------
(* Reading may make a row, and so may saving notes.                         *)
LEMMA GetWorkflowKeeps ==
  ASSUME ReviewInv, NEW c \in Clients, GetWorkflow(c)
  PROVE  ReviewInv'
<1>1. PICK i \in Candidates : Load(c, i, RecordAt(i), {})
  BY DEF GetWorkflow
<1> QED
  BY <1>1, ReadSound, LoadKeeps

LEMMA SaveReviewNotesKeeps ==
  ASSUME ReviewInv, NEW c \in Clients, SaveReviewNotes(c)
  PROVE  ReviewInv'
<1>1. PICK i \in Candidates : Load(c, i, [RecordAt(i) EXCEPT !.notes = TRUE], {"notes"})
  BY DEF SaveReviewNotes
<1> DEFINE r == [RecordAt(i) EXCEPT !.notes = TRUE]
<1>2. RecordAt(i) \in Record /\ Chain(RecordAt(i).state, RecordAt(i).history)
  BY ReadSound
<1>3. /\ r \in Record /\ r.notes
      /\ r.state = RecordAt(i).state /\ r.history = RecordAt(i).history
  BY <1>2 DEF Record
<1> QED
  BY <1>1, <1>2, <1>3, LoadKeeps

(* A legal transition out of the state extends the chain.                   *)
LEMMA ChainGrows ==
  ASSUME NEW s \in States, NEW h \in Seq(Entry), Chain(s, h),
         NEW e \in Entry, e.from = s, Legal(e)
  PROVE  /\ <<e>> \o h \in Seq(Entry)
         /\ Chain(e.to, <<e>> \o h)
<1> DEFINE g == <<e>> \o h
<1>1. <<e>> \in Seq(Entry) /\ Len(<<e>>) = 1 /\ <<e>>[1] = e
  OBVIOUS
<1>2. /\ g \in Seq(Entry) /\ Len(g) = 1 + Len(h) /\ Len(h) \in Nat
      /\ \A i \in 1 .. 1 + Len(h) : g[i] = IF i <= 1 THEN e ELSE h[i - 1]
  BY <1>1, ConcatProperties, LenProperties
<1> HIDE DEF g
<1>3. g # <<>> /\ g[1] = e
  BY <1>2, EmptySeq
<1>4. g[Len(g)].from = "draft"
  <2>1. CASE h = <<>>
    BY <1>2, <1>3, <2>1, EmptySeq DEF Chain
  <2>2. CASE h # <<>>
    <3>1. Len(h) >= 1
      BY <1>2, <2>2, EmptySeq
    <3>2. g[Len(g)] = h[Len(h)]
      BY <1>2, <3>1
    <3> QED
      BY <2>2, <3>2 DEF Chain
  <2> QED
    BY <2>1, <2>2
<1>5. ASSUME NEW j \in 1 .. Len(g) - 1
      PROVE  g[j].from = g[j + 1].to
  <2>1. g[j + 1] = h[j] /\ j \in 1 .. Len(h)
    BY <1>2
  <2>2. h # <<>>
    BY <2>1, EmptySeq
  <2>3. CASE j = 1
    <3>1. s = h[1].to
      BY <2>2 DEF Chain
    <3> QED
      BY <1>3, <2>1, <2>3, <3>1
  <2>4. CASE j # 1
    <3>1. g[j] = h[j - 1] /\ j - 1 \in 1 .. Len(h) - 1
      BY <1>2, <2>1, <2>4
    <3>2. h[j - 1].from = h[(j - 1) + 1].to
      BY <3>1 DEF Chain
    <3> QED
      BY <2>1, <3>1, <3>2, <1>2
  <2> QED
    BY <2>3, <2>4
<1>6. ASSUME NEW j \in 1 .. Len(g)
      PROVE  Legal(g[j])
  <2>1. CASE j = 1
    BY <1>3, <2>1
  <2>2. CASE j # 1
    <3>1. g[j] = h[j - 1] /\ j - 1 \in 1 .. Len(h)
      BY <1>2, <2>2
    <3> QED
      BY <3>1 DEF Chain
  <2> QED
    BY <2>1, <2>2
<1>7. Chain(e.to, g)
  BY <1>3, <1>4, <1>5, <1>6 DEF Chain
<1> QED
  BY <1>2, <1>7 DEF g

LEMMA TransitionKeeps ==
  ASSUME ReviewInv, NEW c \in Clients, NEW to \in States, NEW role \in Roles,
         Transition(c, to, role)
  PROVE  ReviewInv'
<1> DEFINE E(i) == [from |-> RecordAt(i).state, to |-> to,
                    by |-> IF <<RecordAt(i).state, to>> \in Gates THEN role ELSE "none"]
           R(i) == [RecordAt(i) EXCEPT !.state = to,
                                       !.history = <<E(i)>> \o RecordAt(i).history]
<1>1. PICK i \in Candidates :
        /\ Allowed(RecordAt(i).state, to, role)
        /\ Load(c, i, R(i), {"state", "history"})
  BY DEF Transition
<1> DEFINE q == RecordAt(i)
<1>2. q \in Record /\ Chain(q.state, q.history)
  BY ReadSound
<1>3. q.state \in States /\ q.history \in Seq(Entry)
  BY <1>2 DEF Record
<1>4. E(i) \in Entry /\ E(i).from = q.state /\ E(i).to = to
  BY <1>3, ReviewAssumption DEF Entry
<1>5. Legal(E(i))
  <2>1. E(i).by = IF <<q.state, to>> \in Gates THEN role ELSE "none"
    OBVIOUS
  <2> HIDE DEF E
  <2> QED
    BY <1>1, <1>4, <2>1 DEF Legal, Allowed
<1>6. /\ <<E(i)>> \o q.history \in Seq(Entry)
      /\ Chain(to, <<E(i)>> \o q.history)
  <2> HIDE DEF E, q
  <2> QED
    BY <1>2, <1>3, <1>4, <1>5, ChainGrows
<1>7. /\ R(i) \in Record
      /\ R(i).state = to /\ R(i).history = <<E(i)>> \o q.history
  <2> HIDE DEF E
  <2> QED
    BY <1>2, <1>6 DEF Record
<1> HIDE DEF R, E, q
<1>8. Chain(R(i).state, R(i).history)
  BY <1>6, <1>7
<1> QED
  BY <1>1, <1>7, <1>8, LoadKeeps
-----------------------------------------------------------------------------
(* What a commit writes is sound: state and history come from one record,   *)
(* since a handler assigns both of them or neither.                         *)
LEMMA MergedSound ==
  ASSUME ReviewInv, NEW c \in Clients
  PROVE  /\ Merged(c) \in Record
         /\ Chain(Merged(c).state, Merged(c).history)
<1>1. record[c] \in Record /\ Chain(record[c].state, record[c].history)
  BY DEF ReviewInv, Typed, PendingChained
<1>2. CASE index[c] = 0
  BY <1>1, <1>2 DEF Merged
<1>3. CASE index[c] # 0
  <2> DEFINE old == rows[index[c]]
             new == record[c]
             m == [col \in {"state", "history", "notes"} |->
                     IF col \in dirty[c] THEN new[col] ELSE old[col]]
  <2>1. index[c] \in 1 .. Len(rows)
    BY <1>3 DEF ReviewInv, Typed
  <2>2. old \in Record /\ Chain(old.state, old.history)
    BY <2>1, ElementOfSeq DEF ReviewInv, Typed, RowsChained
  <2>3. Merged(c) = m
    BY <1>3 DEF Merged, NewRecord
  <2> HIDE DEF old, new
  <2>4. /\ m.state = IF "state" \in dirty[c] THEN new.state ELSE old.state
        /\ m.history = IF "history" \in dirty[c] THEN new.history ELSE old.history
        /\ m.notes = IF "notes" \in dirty[c] THEN new.notes ELSE old.notes
    OBVIOUS
  <2>5. new \in Record /\ Chain(new.state, new.history)
    BY <1>1 DEF new
  <2>6. m = [state |-> m.state, history |-> m.history, notes |-> m.notes]
    OBVIOUS
  <2>7. dirty[c] \in {{}, {"notes"}, {"state", "history"}}
    BY DEF ReviewInv, Typed
  <2> HIDE DEF m
  <2>8. m \in Record
    <3>1. /\ m.state \in States /\ m.history \in Seq(Entry) /\ m.notes \in BOOLEAN
      BY <2>2, <2>4, <2>5 DEF Record
    <3> QED
      BY <2>6, <3>1 DEF Record
  <2>9. Chain(m.state, m.history)
    <3>1. \/ m.state = new.state /\ m.history = new.history
          \/ m.state = old.state /\ m.history = old.history
      BY <2>4, <2>7
    <3> QED
      BY <2>2, <2>5, <3>1
  <2> QED
    BY <2>3, <2>8, <2>9
<1> QED
  BY <1>2, <1>3

(* The rows after a commit.                                                 *)
LEMMA RowsAfterCommit ==
  ASSUME ReviewInv, NEW c \in Clients, Commit(c)
  PROVE  /\ rows' \in Seq(Record) /\ Len(rows') \in Nat /\ Len(rows) \in Nat
         /\ Len(rows) <= Len(rows')
         /\ \A i \in 1 .. Len(rows') :
              \/ rows'[i] = Merged(c) /\ (i \in 1 .. Len(rows) => i = index[c])
              \/ i \in 1 .. Len(rows) /\ rows'[i] = rows[i]
<1> DEFINE m == Merged(c)
<1>1. m \in Record
  BY MergedSound
<1>2. rows \in Seq(Record) /\ Len(rows) \in Nat /\ index[c] \in Nat /\ index[c] <= Len(rows)
  BY LenProperties DEF ReviewInv, Typed
<1>3. rows' = CASE index[c] # 0 -> [rows EXCEPT ![index[c]] = m]
                [] index[c] = 0 /\ scoped /\ rows # <<>> -> rows
                [] OTHER -> Append(rows, m)
  BY DEF Commit, Store
<1> HIDE DEF m
<1>4. CASE index[c] # 0
  <2>1. rows' = [rows EXCEPT ![index[c]] = m]
    BY <1>3, <1>4
  <2>2. index[c] \in 1 .. Len(rows)
    BY <1>2, <1>4
  <2>3. /\ rows' \in Seq(Record) /\ Len(rows') = Len(rows)
        /\ \A i \in 1 .. Len(rows) : rows'[i] = IF i = index[c] THEN m ELSE rows[i]
    BY <1>1, <1>2, <2>1, <2>2, ExceptSeq
  <2> QED
    BY <1>2, <2>3 DEF m
<1>5. CASE rows' = rows
  BY <1>2, <1>5
<1>6. CASE rows' = Append(rows, m)
  <2>1. /\ rows' \in Seq(Record) /\ Len(rows') = Len(rows) + 1
        /\ \A i \in 1 .. Len(rows) : rows'[i] = rows[i]
        /\ rows'[Len(rows) + 1] = m
    BY <1>1, <1>2, <1>6, AppendProperties
  <2> QED
    BY <1>2, <2>1 DEF m
<1> QED
  BY <1>3, <1>4, <1>5, <1>6

LEMMA CommitKeeps ==
  ASSUME ReviewInv, NEW c \in Clients, Commit(c)
  PROVE  ReviewInv'
<1>1. /\ rows' \in Seq(Record) /\ Len(rows') \in Nat /\ Len(rows) \in Nat
      /\ Len(rows) <= Len(rows')
      /\ \A i \in 1 .. Len(rows') :
           \/ rows'[i] = Merged(c)
           \/ i \in 1 .. Len(rows) /\ rows'[i] = rows[i]
  BY RowsAfterCommit
<1>2. /\ index' = [index EXCEPT ![c] = 0]
      /\ record' = [record EXCEPT ![c] = NewRecord]
      /\ dirty' = [dirty EXCEPT ![c] = {}]
  BY DEF Commit, Store, Answer
<1>3. Typed'
  <2>1. record' \in [Clients -> Record]
    BY <1>2, NewRecordSound DEF ReviewInv, Typed
  <2>2. index' \in [Clients -> Nat]
    BY <1>2 DEF ReviewInv, Typed
  <2>3. \A d \in Clients : index'[d] <= Len(rows')
    BY <1>1, <1>2 DEF ReviewInv, Typed
  <2>4. dirty' \in [Clients -> {{}, {"notes"}, {"state", "history"}}]
    BY <1>2 DEF ReviewInv, Typed
  <2> QED
    BY <1>1, <2>1, <2>2, <2>3, <2>4 DEF Typed
<1>4. RowsChained'
  BY <1>1, MergedSound DEF ReviewInv, RowsChained
<1>5. PendingChained' /\ NotesPending'
  <2> SUFFICES ASSUME NEW d \in Clients
               PROVE  /\ Chain(record'[d].state, record'[d].history)
                      /\ "notes" \in dirty'[d] => record'[d].notes
    BY DEF PendingChained, NotesPending
  <2>1. /\ record'[d] = IF d = c THEN NewRecord ELSE record[d]
        /\ dirty'[d] = IF d = c THEN {} ELSE dirty[d]
    BY <1>2 DEF ReviewInv, Typed
  <2> QED
    BY <2>1, NewRecordSound DEF ReviewInv, PendingChained, NotesPending
<1> QED
  BY <1>3, <1>4, <1>5 DEF ReviewInv

LEMMA AbortKeeps ==
  ASSUME ReviewInv, NEW c \in Clients, Abort(c)
  PROVE  ReviewInv'
<1>1. /\ rows' = rows
      /\ index' = [index EXCEPT ![c] = 0]
      /\ record' = [record EXCEPT ![c] = NewRecord]
      /\ dirty' = [dirty EXCEPT ![c] = {}]
  BY DEF Abort, Answer
<1>2. Typed'
  <2>1. record' \in [Clients -> Record]
    BY <1>1, NewRecordSound DEF ReviewInv, Typed
  <2>2. Len(rows) \in Nat
    BY LenProperties DEF ReviewInv, Typed
  <2> QED
    BY <1>1, <2>1, <2>2 DEF ReviewInv, Typed
<1>3. RowsChained'
  BY <1>1 DEF ReviewInv, RowsChained
<1>4. PendingChained' /\ NotesPending'
  <2> SUFFICES ASSUME NEW d \in Clients
               PROVE  /\ Chain(record'[d].state, record'[d].history)
                      /\ "notes" \in dirty'[d] => record'[d].notes
    BY DEF PendingChained, NotesPending
  <2>1. /\ record'[d] = IF d = c THEN NewRecord ELSE record[d]
        /\ dirty'[d] = IF d = c THEN {} ELSE dirty[d]
    BY <1>1 DEF ReviewInv, Typed
  <2> QED
    BY <2>1, NewRecordSound DEF ReviewInv, PendingChained, NotesPending
<1> QED
  BY <1>2, <1>3, <1>4 DEF ReviewInv

LEMMA NextReviewInv == ReviewInv /\ [Next]_vars => ReviewInv'
<1> SUFFICES ASSUME ReviewInv, [Next]_vars PROVE ReviewInv'
  OBVIOUS
<1>1. CASE UNCHANGED vars
  BY <1>1 DEF vars, ReviewInv, Typed, RowsChained, PendingChained, NotesPending
<1>2. ASSUME NEW c \in Clients, GetWorkflow(c) PROVE ReviewInv'
  BY <1>2, GetWorkflowKeeps
<1>3. ASSUME NEW c \in Clients, SaveReviewNotes(c) PROVE ReviewInv'
  BY <1>3, SaveReviewNotesKeeps
<1>4. ASSUME NEW c \in Clients, NEW to \in States, NEW role \in Roles,
             Transition(c, to, role)
      PROVE  ReviewInv'
  BY <1>4, TransitionKeeps
<1>5. ASSUME NEW c \in Clients, Commit(c) PROVE ReviewInv'
  BY <1>5, CommitKeeps
<1>6. ASSUME NEW c \in Clients, Abort(c) PROVE ReviewInv'
  BY <1>6, AbortKeeps
<1> QED
  BY <1>1, <1>2, <1>3, <1>4, <1>5, <1>6 DEF Next
-----------------------------------------------------------------------------
LEMMA InvChains == ReviewInv => HistoryIsAChain
<1> SUFFICES ASSUME ReviewInv, NEW i \in 1 .. Len(rows)
             PROVE  LET h == rows[i].history IN
                    /\ rows[i].state = IF h = <<>> THEN "draft" ELSE Head(h).to
                    /\ h # <<>> => h[Len(h)].from = "draft"
                    /\ \A j \in 1 .. Len(h) - 1 : h[j].from = h[j + 1].to
  BY DEF HistoryIsAChain
<1> DEFINE h == rows[i].history
<1>1. Chain(rows[i].state, h)
  BY DEF ReviewInv, RowsChained
<1>2. rows[i] \in Record
  BY ElementOfSeq DEF ReviewInv, Typed
<1>3. h \in Seq(Entry)
  BY <1>2 DEF Record
<1>4. h # <<>> => Head(h) = h[1]
  BY <1>3, HeadTailProperties
<1> QED
  BY <1>1, <1>4 DEF Chain

(* The gates that lie before a state, read off its chain from the newest    *)
(* entry back.                                                              *)
LEMMA ChainPassesGates ==
  ASSUME NEW s, NEW h \in Seq(Entry), Chain(s, h)
  PROVE  LET Passed(t) == \E j \in 1 .. Len(h) :
                            <<h[j].from, h[j].to>> = t /\ h[j].by \in Required(t)
         IN
         /\ s \in {"approved", "published", "deployed"} =>
              Passed(<<"in_review", "approved">>)
         /\ s \in {"published", "deployed"} => Passed(<<"approved", "published">>)
         /\ s = "deployed" => Passed(<<"published", "deployed">>)
<1> DEFINE Passed(t) == \E j \in 1 .. Len(h) :
                          <<h[j].from, h[j].to>> = t /\ h[j].by \in Required(t)
           At(j, to) == j \in 1 .. Len(h) /\ h[j].to = to
<1>1. Len(h) \in Nat /\ (h # <<>> => Len(h) >= 1)
  BY LenProperties, EmptySeq
<1>2. ASSUME NEW j, At(j, "approved")
      PROVE  Passed(<<"in_review", "approved">>)
  <2>1. Legal(h[j])
    BY <1>2 DEF Chain
  <2>2. h[j].from = "in_review" /\ <<"in_review", "approved">> \in Gates
    BY <1>2, <2>1 DEF Legal, Allowed, VALID_TRANSITIONS, Gates
  <2>3. h[j].by \in Required(<<"in_review", "approved">>)
    BY <1>2, <2>1, <2>2 DEF Legal, Allowed
  <2> QED
    BY <1>2, <2>2, <2>3
<1>3. ASSUME NEW j, At(j, "published")
      PROVE  /\ Passed(<<"approved", "published">>)
             /\ At(j + 1, "approved")
  <2>1. Legal(h[j])
    BY <1>3 DEF Chain
  <2>2. h[j].from = "approved" /\ <<"approved", "published">> \in Gates
    BY <1>3, <2>1 DEF Legal, Allowed, VALID_TRANSITIONS, Gates
  <2>3. h[j].by \in Required(<<"approved", "published">>)
    BY <1>3, <2>1, <2>2 DEF Legal, Allowed
  <2>4. h # <<>> /\ j # Len(h)
    BY <1>3, <2>2, EmptySeq DEF Chain
  <2>5. j \in 1 .. Len(h) - 1 /\ j + 1 \in 1 .. Len(h)
    BY <1>1, <1>3, <2>4
  <2>6. h[j + 1].to = "approved"
    BY <2>2, <2>5 DEF Chain
  <2> QED
    BY <1>3, <2>2, <2>3, <2>5, <2>6
<1>4. ASSUME NEW j, At(j, "deployed")
      PROVE  /\ Passed(<<"published", "deployed">>)
             /\ At(j + 1, "published")
  <2>1. Legal(h[j])
    BY <1>4 DEF Chain
  <2>2. h[j].from = "published" /\ <<"published", "deployed">> \in Gates
    BY <1>4, <2>1 DEF Legal, Allowed, VALID_TRANSITIONS, Gates
  <2>3. h[j].by \in Required(<<"published", "deployed">>)
    BY <1>4, <2>1, <2>2 DEF Legal, Allowed
  <2>4. h # <<>> /\ j # Len(h)
    BY <1>4, <2>2, EmptySeq DEF Chain
  <2>5. j \in 1 .. Len(h) - 1 /\ j + 1 \in 1 .. Len(h)
    BY <1>1, <1>4, <2>4
  <2>6. h[j + 1].to = "published"
    BY <2>2, <2>5 DEF Chain
  <2> QED
    BY <1>4, <2>2, <2>3, <2>5, <2>6
<1>5. s # "draft" => At(1, s)
  BY <1>1 DEF Chain
<1> HIDE DEF Passed, At
<1>6. s = "approved" => Passed(<<"in_review", "approved">>)
  BY <1>2, <1>5
<1>7. s = "published" => Passed(<<"in_review", "approved">>) /\ Passed(<<"approved", "published">>)
  BY <1>2, <1>3, <1>5
<1>8. s = "deployed" => /\ Passed(<<"in_review", "approved">>)
                        /\ Passed(<<"approved", "published">>)
                        /\ Passed(<<"published", "deployed">>)
  BY <1>2, <1>3, <1>4, <1>5
<1> QED
  BY <1>6, <1>7, <1>8 DEF Passed

LEMMA InvGates == ReviewInv => GatesPassed
<1> SUFFICES ASSUME ReviewInv, NEW i \in 1 .. Len(rows)
             PROVE  /\ rows[i].history \in Seq(Entry)
                    /\ Chain(rows[i].state, rows[i].history)
  BY ChainPassesGates DEF GatesPassed
<1>1. rows[i] \in Record
  BY ElementOfSeq DEF ReviewInv, Typed
<1> QED
  BY <1>1 DEF Record, ReviewInv, RowsChained
-----------------------------------------------------------------------------
(* Lost updates of transition_workflow lose whole steps: in every row the   *)
(* state is where a gapless history from draft leads, for any number of     *)
(* requests at the same time.                                               *)
THEOREM HistoriesAgree == Spec => []HistoryIsAChain
BY InitReviewInv, NextReviewInv, InvChains, PTL DEF Spec

(* No row is approved, published or deployed unless callers with the roles  *)
(* of _TRANSITION_REQUIRED_ROLES passed every gate on the way.              *)
THEOREM GatesHold == Spec => []GatesPassed
BY InitReviewInv, NextReviewInv, InvGates, PTL DEF Spec

(* Notes that save_review_notes has committed are taken back by no commit:  *)
(* each writes only the columns that it assigned.                           *)
THEOREM NotesStay == Spec => NotesKept
<1>1. ASSUME ReviewInv, [Next]_vars
      PROVE  [\A i \in 1 .. Len(rows) : rows[i].notes => rows'[i].notes]_vars
  <2> SUFFICES ASSUME Next, NEW i \in 1 .. Len(rows), rows[i].notes
               PROVE  rows'[i].notes
    BY <1>1
  <2>1. ASSUME NEW c \in Clients, Commit(c) PROVE rows'[i].notes
    <3>1. /\ Len(rows) \in Nat /\ Len(rows') \in Nat /\ Len(rows) <= Len(rows')
          /\ \/ rows'[i] = Merged(c) /\ i = index[c]
             \/ rows'[i] = rows[i]
      BY <1>1, <2>1, RowsAfterCommit
    <3>2. CASE rows'[i] = Merged(c) /\ i = index[c]
      <4>1. index[c] # 0
        BY <3>2
      <4>2. Merged(c).notes = IF "notes" \in dirty[c] THEN record[c].notes
                              ELSE rows[i].notes
        BY <3>2, <4>1 DEF Merged, NewRecord
      <4> QED
        BY <1>1, <3>2, <4>2 DEF ReviewInv, NotesPending
    <3> QED
      BY <3>1, <3>2
  <2>2. CASE UNCHANGED rows
    BY <2>2
  <2> QED
    BY <2>1, <2>2 DEF Next, GetWorkflow, SaveReviewNotes, Transition, Load, Abort
<1> QED
  BY <1>1, InitReviewInv, NextReviewInv, PTL DEF Spec, NotesKept
=============================================================================
