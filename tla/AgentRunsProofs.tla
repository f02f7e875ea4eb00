---------------------------- MODULE AgentRunsProofs ----------------------------
(***************************************************************************)
(* Proofs about agent runs (AgentRuns), for any agents and callers, and    *)
(* any number of runs and requests: the hub implements AnswerOnce, and the *)
(* status of a run agrees with its requests.  Then about what webhooks and *)
(* bridges are told of a run (Integrations), for any choice of events, any *)
(* number of connections, changes and faults.                              *)
(***************************************************************************)
EXTENDS AgentRuns, Integrations, SequenceTheorems, FiniteSetTheorems, TLAPS

RunRow == [status : Status, agent : Agents, finished : BOOLEAN, turn_ended : BOOLEAN]
ReqRow == [run : Nat, kind : Kind, open : BOOLEAN, sent : BOOLEAN]
Db == [runs : Seq(RunRow), reqs : Seq(ReqRow)]

(* The rows of one terminal that belong together: a request is one of a    *)
(* run, a run has at most one open request, and has it while it waits.     *)
Rows(s) ==
    /\ \A q \in DOMAIN s.reqs : s.reqs[q].run \in DOMAIN s.runs
    /\ \A p, q \in DOMAIN s.reqs :
          s.reqs[p].open /\ s.reqs[q].open /\ s.reqs[p].run = s.reqs[q].run => p = q
    /\ \A i \in DOMAIN s.runs :
          s.runs[i].status = "waiting" =>
              \E q \in DOMAIN s.reqs : s.reqs[q].open /\ s.reqs[q].run = i
    /\ \A q \in DOMAIN s.reqs :
          s.reqs[q].open => s.runs[s.reqs[q].run].status = "waiting"

(* An answer under way is one to a request there is; if the request is     *)
(* still open, its caller may give it.                                     *)
AnswersAreScoped ==
    \A c \in Caller : ans[c].step # "idle" =>
        /\ ans[c].q \in DOMAIN db.reqs
        /\ db.reqs[ans[c].q].open /\ db.reqs[ans[c].q].kind = "approval" => c \in Approver

GrantsAreScoped ==
    \A g \in grants :
        /\ g[1] \in DOMAIN db.reqs
        /\ db.reqs[g[1]].kind = "approval" => g[2] \in Approver

OnItsWay == {keys[k] : k \in DOMAIN keys}
Typed == {typed[k] : k \in DOMAIN typed}
Marked(c) == ans[c].step = "marked"

(* A request whose answer is claimed is in one place only: with the caller *)
(* who claimed it, on its way to the node, or typed.                       *)
OnePlace ==
    /\ OnItsWay \cup Typed \subseteq SentNow
    /\ \A j, k \in DOMAIN keys : keys[j] = keys[k] => j = k
    /\ OnItsWay \cap Typed = {}
    /\ \A c \in Caller : Marked(c) => ans[c].q \in SentNow \ (OnItsWay \cup Typed)
    /\ \A c, d \in Caller : Marked(c) /\ Marked(d) /\ ans[c].q = ans[d].q => c = d

IInv ==
    /\ TypeOK /\ db \in Db /\ Rows(db)
    /\ Len(db.reqs) <= MaxRows /\ started <= Len(db.runs)
    /\ AnswersAreScoped /\ GrantsAreScoped /\ OnePlace

-----------------------------------------------------------------------------
(* Sequences. *)

LEMMA SeqDomain == ASSUME NEW S, NEW q \in Seq(S)
                   PROVE  /\ Len(q) \in Nat /\ DOMAIN q = 1..Len(q)
                          /\ \A i \in DOMAIN q : q[i] \in S
BY LenProperties, ElementOfSeq

(* A sequence is a function on an initial segment. *)
LEMMA FunSeq == ASSUME NEW S, NEW n \in Nat, NEW f \in [1..n -> S]
                PROVE  f \in Seq(S) /\ Len(f) = n /\ DOMAIN f = 1..n
OBVIOUS

LEMMA AppendSeq ==
    ASSUME NEW S, NEW q \in Seq(S), NEW e \in S
    PROVE  /\ Append(q, e) \in Seq(S) /\ Len(Append(q, e)) = Len(q) + 1
           /\ DOMAIN Append(q, e) = DOMAIN q \cup {Len(q) + 1}
           /\ \A i \in DOMAIN q : Append(q, e)[i] = q[i]
           /\ Append(q, e)[Len(q) + 1] = e /\ Len(q) + 1 \notin DOMAIN q
BY SeqDomain, AppendProperties

LEMMA RemoveAtSeq ==
    ASSUME NEW S, NEW q \in Seq(S), NEW k \in DOMAIN q
    PROVE  /\ RemoveAt(q, k) \in Seq(S) /\ Len(RemoveAt(q, k)) = Len(q) - 1
           /\ \A i \in DOMAIN RemoveAt(q, k) :
                 RemoveAt(q, k)[i] = IF i < k THEN q[i] ELSE q[i + 1]
<1> DEFINE a == SubSeq(q, 1, k - 1)
           b == SubSeq(q, k + 1, Len(q))
<1>1. Len(q) \in Nat /\ k \in 1..Len(q) /\ \A i \in 1..Len(q) : q[i] \in S
  BY SeqDomain
<1>2. /\ a \in Seq(S) /\ Len(a) = k - 1
      /\ \A i \in 1..(k - 1) : a[i] = q[i]
  <2>1. \A i \in 1..(k - 1) : q[i] \in S
    BY <1>1
  <2> QED BY <1>1, <2>1, SubSeqProperties, Z3
<1>3. /\ b \in Seq(S) /\ Len(b) = Len(q) - k
      /\ \A i \in 1..(Len(q) - k) : b[i] = q[k + i]
  <2>1. \A i \in (k + 1)..Len(q) : q[i] \in S
    BY <1>1
  <2> QED BY <1>1, <2>1, SubSeqProperties, Z3
<1> HIDE DEF a, b
<1>4. /\ a \o b \in Seq(S) /\ Len(a \o b) = Len(q) - 1
      /\ \A i \in 1..(Len(q) - 1) : (a \o b)[i] = IF i <= k - 1 THEN a[i] ELSE b[i - (k - 1)]
  <2>1. Len(a) + Len(b) = Len(q) - 1
    BY <1>1, <1>2, <1>3
  <2>2. /\ a \o b \in Seq(S) /\ Len(a \o b) = Len(a) + Len(b)
        /\ \A i \in 1..(Len(a) + Len(b)) :
              (a \o b)[i] = IF i <= Len(a) THEN a[i] ELSE b[i - Len(a)]
    BY <1>2, <1>3, ConcatProperties
  <2> QED BY <1>2, <2>1, <2>2
<1>5. DOMAIN (a \o b) = 1..(Len(q) - 1)
  BY <1>4, SeqDomain
<1>6. \A i \in 1..(Len(q) - 1) : (a \o b)[i] = IF i < k THEN q[i] ELSE q[i + 1]
  <2> TAKE i \in 1..(Len(q) - 1)
  <2>1. CASE i < k
    <3>1. i \in 1..(k - 1) /\ i <= k - 1
      BY <1>1, <2>1
    <3>2. (a \o b)[i] = a[i]
      BY <1>4, <3>1
    <3>3. a[i] = q[i]
      BY <1>2, <3>1
    <3> QED BY <2>1, <3>2, <3>3
  <2>2. CASE i >= k
    <3>1. PICK j \in 1..(Len(q) - k) : j = i - (k - 1) /\ k + j = i + 1
      BY <1>1, <2>2
    <3>2. (a \o b)[i] = b[j]
      <4>1. ~(i <= k - 1)
        BY <1>1, <2>2
      <4>2. (a \o b)[i] = b[i - (k - 1)]
        BY <1>4, <4>1
      <4> QED BY <3>1, <4>2
    <3>5. b[j] = q[k + j]
      BY <1>3, <3>1
    <3>3. q[k + j] = q[i + 1]
      BY <3>1
    <3>4. ~(i < k)
      BY <1>1, <2>2
    <3> QED BY <3>2, <3>3, <3>4, <3>5
  <2>3. i < k \/ i >= k
    BY <1>1
  <2> QED BY <2>1, <2>2, <2>3
<1> QED BY <1>4, <1>5, <1>6 DEF RemoveAt, a, b

-----------------------------------------------------------------------------
(* What the statements of db/agent_runs.rs do to the rows. *)

LEMMA DbRows ==
    ASSUME NEW s \in Db
    PROVE  /\ s.runs \in Seq(RunRow) /\ s.reqs \in Seq(ReqRow)
           /\ Len(s.runs) \in Nat /\ Len(s.reqs) \in Nat
           /\ DOMAIN s.runs = 1..Len(s.runs) /\ DOMAIN s.reqs = 1..Len(s.reqs)
           /\ \A i \in DOMAIN s.runs : s.runs[i] \in RunRow
           /\ \A q \in DOMAIN s.reqs : s.reqs[q] \in ReqRow
BY SeqDomain DEF Db

(* Requests of t are those of s, some of them over. *)
Narrows(s, t) ==
    /\ Len(t.reqs) = Len(s.reqs) /\ Len(s.runs) <= Len(t.runs)
    /\ \A q \in DOMAIN s.reqs :
          /\ t.reqs[q].run = s.reqs[q].run /\ t.reqs[q].kind = s.reqs[q].kind
          /\ t.reqs[q].sent = s.reqs[q].sent
          /\ t.reqs[q].open => s.reqs[q].open

LEMMA ResolveRows ==
    ASSUME NEW s \in Db, NEW i
    PROVE  LET t == resolve_open_request(s, i) IN
           /\ t \in Db /\ t.runs = s.runs /\ Narrows(s, t)
           /\ \A q \in DOMAIN s.reqs :
                 t.reqs[q].open <=> s.reqs[q].open /\ s.reqs[q].run # i
<1> DEFINE f == [q \in DOMAIN s.reqs |->
                   IF s.reqs[q].run = i THEN [s.reqs[q] EXCEPT !.open = FALSE] ELSE s.reqs[q]]
           t == resolve_open_request(s, i)
<1>1. t = [s EXCEPT !.reqs = f]
  BY DEF resolve_open_request
<1>2. \A q \in DOMAIN s.reqs : s.reqs[q] \in ReqRow
  BY DbRows
<1>3. \A q \in DOMAIN s.reqs :
        /\ f[q] \in ReqRow /\ f[q].run = s.reqs[q].run /\ f[q].kind = s.reqs[q].kind
        /\ f[q].sent = s.reqs[q].sent /\ (f[q].open <=> s.reqs[q].open /\ s.reqs[q].run # i)
  BY <1>2 DEF ReqRow
<1>4. f \in [1..Len(s.reqs) -> ReqRow] /\ Len(s.reqs) \in Nat
  BY <1>3, DbRows
<1>5. f \in Seq(ReqRow) /\ Len(f) = Len(s.reqs)
  <2> DEFINE n == Len(s.reqs)
  <2>1. n \in Nat /\ f \in [1..n -> ReqRow]
    BY <1>4
  <2> HIDE DEF f, n
  <2>2. f \in Seq(ReqRow) /\ Len(f) = n
    BY ONLY <2>1, FunSeq
  <2> QED BY <2>2 DEF n
<1>6. t \in Db /\ t.runs = s.runs /\ t.reqs = f
  BY <1>1, <1>5 DEF Db
<1> HIDE DEF f
<1>7. Len(t.reqs) = Len(s.reqs) /\ Len(s.runs) \in Nat
  BY <1>5, <1>6, DbRows
<1> HIDE DEF t
<1>8. Narrows(s, t)
  BY <1>3, <1>6, <1>7 DEF Narrows
<1>9. \A q \in DOMAIN s.reqs : t.reqs[q].open <=> s.reqs[q].open /\ s.reqs[q].run # i
  BY <1>3, <1>6
<1> QED BY <1>6, <1>8, <1>9 DEF t

LEMMA StatusRows ==
    ASSUME NEW s \in Db, NEW i \in DOMAIN s.runs, NEW status \in Status
    PROVE  LET t == set_status(s, i, status) IN
           /\ t \in Db /\ DOMAIN t.runs = DOMAIN s.runs /\ Len(t.runs) = Len(s.runs)
           /\ Narrows(s, t)
           /\ t.runs[i].status = status
           /\ \A j \in DOMAIN s.runs : j # i => t.runs[j] = s.runs[j]
           /\ \A q \in DOMAIN s.reqs :
                 t.reqs[q].open <=> s.reqs[q].open /\ ~(ends_run(status) /\ s.reqs[q].run = i)
<1> DEFINE row == [s.runs[i] EXCEPT !.status = status]
           u == [s EXCEPT !.runs[i].status = status]
           t == set_status(s, i, status)
<1>1. row \in RunRow /\ row.status = status
  BY DbRows DEF RunRow
<1>2. u = [s EXCEPT !.runs = [s.runs EXCEPT ![i] = row]]
  BY DEF Db
<1>3. /\ [s.runs EXCEPT ![i] = row] \in Seq(RunRow)
      /\ Len([s.runs EXCEPT ![i] = row]) = Len(s.runs)
      /\ \A j \in DOMAIN s.runs : [s.runs EXCEPT ![i] = row][j] = IF j = i THEN row ELSE s.runs[j]
  <2> HIDE DEF row
  <2>1. i \in 1..Len(s.runs) /\ s.runs \in Seq(RunRow) /\ DOMAIN s.runs = 1..Len(s.runs)
    BY DbRows
  <2> QED BY <1>1, <2>1, ExceptSeq
<1>4. u \in Db /\ u.reqs = s.reqs /\ u.runs = [s.runs EXCEPT ![i] = row]
  BY <1>2, <1>3 DEF Db
<1>5. DOMAIN u.runs = DOMAIN s.runs
  BY <1>3, <1>4, DbRows
<1> HIDE DEF u, row
<1>6. CASE ends_run(status)
  <2>1. t = resolve_open_request(u, i)
    BY <1>6 DEF set_status, u
  <2>2. /\ t \in Db /\ t.runs = u.runs /\ Narrows(u, t)
        /\ \A q \in DOMAIN u.reqs : t.reqs[q].open <=> u.reqs[q].open /\ u.reqs[q].run # i
    BY <1>4, <2>1, ResolveRows
  <2> QED BY <1>1, <1>3, <1>4, <1>5, <1>6, <2>2 DEF Narrows
<1>7. CASE ~ends_run(status)
  <2>1. t = u
    BY <1>7 DEF set_status, u
  <2> QED BY <1>1, <1>3, <1>4, <1>5, <1>7, <2>1 DEF Narrows
<1> QED BY <1>6, <1>7

LEMMA InsertRows ==
    ASSUME NEW s \in Db, NEW agent \in Agents, NEW status \in Status
    PROVE  LET t == insert(s, agent, status)
               i == Len(s.runs) + 1
           IN  /\ t \in Db /\ t.reqs = s.reqs /\ Len(t.runs) = i
               /\ DOMAIN t.runs = DOMAIN s.runs \cup {i} /\ i \notin DOMAIN s.runs
               /\ t.runs[i].status = status
               /\ \A j \in DOMAIN s.runs : t.runs[j] = s.runs[j]
<1> DEFINE row == [status |-> status, agent |-> agent, finished |-> FALSE, turn_ended |-> FALSE]
           t == insert(s, agent, status)
<1>1. row \in RunRow /\ row.status = status
  BY DEF RunRow
<1>2. t = [s EXCEPT !.runs = Append(s.runs, row)]
  BY DEF insert
<1> HIDE DEF row
<1>3. /\ Append(s.runs, row) \in Seq(RunRow) /\ Len(Append(s.runs, row)) = Len(s.runs) + 1
      /\ DOMAIN Append(s.runs, row) = DOMAIN s.runs \cup {Len(s.runs) + 1}
      /\ \A i \in DOMAIN s.runs : Append(s.runs, row)[i] = s.runs[i]
      /\ Append(s.runs, row)[Len(s.runs) + 1] = row /\ Len(s.runs) + 1 \notin DOMAIN s.runs
  BY <1>1, DbRows, AppendSeq
<1>4. t \in Db /\ t.reqs = s.reqs /\ t.runs = Append(s.runs, row)
  BY <1>2, <1>3 DEF Db
<1> QED BY <1>1, <1>3, <1>4

LEMMA RequestRows ==
    ASSUME NEW s \in Db, NEW i \in DOMAIN s.runs, NEW kind \in Kind
    PROVE  LET t == insert_request(s, i, kind)
               n == Len(s.reqs) + 1
           IN  /\ t \in Db /\ t.runs = s.runs /\ Len(t.reqs) = n
               /\ DOMAIN t.reqs = DOMAIN s.reqs \cup {n} /\ n \notin DOMAIN s.reqs
               /\ t.reqs[n] = [run |-> i, kind |-> kind, open |-> TRUE, sent |-> FALSE]
               /\ \A q \in DOMAIN s.reqs :
                     /\ t.reqs[q].run = s.reqs[q].run /\ t.reqs[q].kind = s.reqs[q].kind
                     /\ t.reqs[q].sent = s.reqs[q].sent
                     /\ t.reqs[q].open <=> s.reqs[q].open /\ s.reqs[q].run # i
<1> DEFINE row == [run |-> i, kind |-> kind, open |-> TRUE, sent |-> FALSE]
           u == resolve_open_request(s, i)
           t == insert_request(s, i, kind)
<1>1. row \in ReqRow
  BY DbRows DEF ReqRow
<1>2. t = [u EXCEPT !.reqs = Append(u.reqs, row)]
  BY DEF insert_request
<1>3. /\ u \in Db /\ u.runs = s.runs /\ Narrows(s, u)
      /\ \A q \in DOMAIN s.reqs : u.reqs[q].open <=> s.reqs[q].open /\ s.reqs[q].run # i
  BY ResolveRows
<1> HIDE DEF row, u
<1>4. /\ Append(u.reqs, row) \in Seq(ReqRow) /\ Len(Append(u.reqs, row)) = Len(u.reqs) + 1
      /\ DOMAIN Append(u.reqs, row) = DOMAIN u.reqs \cup {Len(u.reqs) + 1}
      /\ \A q \in DOMAIN u.reqs : Append(u.reqs, row)[q] = u.reqs[q]
      /\ Append(u.reqs, row)[Len(u.reqs) + 1] = row /\ Len(u.reqs) + 1 \notin DOMAIN u.reqs
  BY <1>1, <1>3, DbRows, AppendSeq
<1>5. t \in Db /\ t.runs = u.runs /\ t.reqs = Append(u.reqs, row)
  BY <1>2, <1>3, <1>4 DEF Db
<1>6. Len(u.reqs) = Len(s.reqs) /\ DOMAIN u.reqs = DOMAIN s.reqs
  BY <1>3, DbRows DEF Narrows
<1>7. \A q \in DOMAIN s.reqs : t.reqs[q] = u.reqs[q]
  BY <1>4, <1>5, <1>6
<1>8. \A q \in DOMAIN s.reqs :
        /\ t.reqs[q].run = s.reqs[q].run /\ t.reqs[q].kind = s.reqs[q].kind
        /\ t.reqs[q].sent = s.reqs[q].sent
        /\ t.reqs[q].open <=> s.reqs[q].open /\ s.reqs[q].run # i
  BY <1>3, <1>7 DEF Narrows
<1>9. t.reqs[Len(s.reqs) + 1] = [run |-> i, kind |-> kind, open |-> TRUE, sent |-> FALSE]
  BY <1>4, <1>5, <1>6 DEF row
<1>10. /\ t \in Db /\ t.runs = s.runs /\ Len(t.reqs) = Len(s.reqs) + 1
       /\ DOMAIN t.reqs = DOMAIN s.reqs \cup {Len(s.reqs) + 1}
       /\ Len(s.reqs) + 1 \notin DOMAIN s.reqs
  BY <1>3, <1>4, <1>5, <1>6
<1> HIDE DEF t
<1> QED BY <1>8, <1>9, <1>10 DEF t

(* set_report and the end of a handed-over turn: no status changes. *)
LEMMA ReportRows ==
    ASSUME NEW s \in Db, NEW i \in DOMAIN s.runs, NEW b \in BOOLEAN, NEW t,
           \/ t = set_report(s, i, b)
           \/ t = [s EXCEPT !.runs[i].turn_ended = b]
    PROVE  /\ t \in Db /\ t.reqs = s.reqs /\ DOMAIN t.runs = DOMAIN s.runs
           /\ Len(t.runs) = Len(s.runs)
           /\ \A j \in DOMAIN s.runs : t.runs[j].status = s.runs[j].status
<1>1. PICK row \in RunRow : /\ row.status = s.runs[i].status
                            /\ t = [s EXCEPT !.runs = [s.runs EXCEPT ![i] = row]]
  <2>1. s.runs[i] \in RunRow
    BY DbRows
  <2>2. CASE t = set_report(s, i, b)
    <3>1. [s.runs[i] EXCEPT !.finished = b] \in RunRow
      BY <2>1 DEF RunRow
    <3> QED BY <2>1, <2>2, <3>1 DEF set_report, Db, RunRow
  <2>3. CASE t = [s EXCEPT !.runs[i].turn_ended = b]
    <3>1. [s.runs[i] EXCEPT !.turn_ended = b] \in RunRow
      BY <2>1 DEF RunRow
    <3> QED BY <2>1, <2>3, <3>1 DEF Db, RunRow
  <2> QED BY <2>2, <2>3
<1>2. /\ [s.runs EXCEPT ![i] = row] \in Seq(RunRow)
      /\ Len([s.runs EXCEPT ![i] = row]) = Len(s.runs)
      /\ \A j \in DOMAIN s.runs : [s.runs EXCEPT ![i] = row][j] = IF j = i THEN row ELSE s.runs[j]
  BY <1>1, DbRows, ExceptSeq
<1>3. t \in Db /\ t.reqs = s.reqs /\ t.runs = [s.runs EXCEPT ![i] = row]
  BY <1>1, <1>2 DEF Db
<1> QED BY <1>1, <1>2, <1>3, DbRows

-----------------------------------------------------------------------------
(* Every statement, or pair of statements, that a handler runs keeps the   *)
(* rows in agreement. *)

Good(s) == s \in Db /\ Rows(s)

(* Requests of t are those of s, some over, and at most one new that is    *)
(* open and not answered.                                                  *)
Evolves(s, t) ==
    /\ Len(t.reqs) = Len(s.reqs) \/ Len(t.reqs) = Len(s.reqs) + 1
    /\ Len(s.runs) <= Len(t.runs)
    /\ \A q \in DOMAIN s.reqs :
          /\ t.reqs[q].kind = s.reqs[q].kind /\ t.reqs[q].sent = s.reqs[q].sent
          /\ t.reqs[q].open => s.reqs[q].open
    /\ \A q \in DOMAIN t.reqs \ DOMAIN s.reqs : t.reqs[q].open /\ ~t.reqs[q].sent

LEMMA NarrowsEvolves ==
    ASSUME NEW s \in Db, NEW t \in Db, Narrows(s, t)
    PROVE  Evolves(s, t)
BY DbRows DEF Narrows, Evolves

LEMMA NarrowsThenEvolves ==
    ASSUME NEW s \in Db, NEW t \in Db, NEW u \in Db, Narrows(s, t), Evolves(t, u)
    PROVE  Evolves(s, u)
BY DbRows DEF Narrows, Evolves

LEMMA SameEvolves ==
    ASSUME NEW s \in Db, NEW t \in Db, t.reqs = s.reqs, Len(s.runs) <= Len(t.runs)
    PROVE  Narrows(s, t) /\ Evolves(s, t)
BY DbRows DEF Narrows, Evolves

(* A run that does not wait goes on. *)
LEMMA EnterGood ==
    ASSUME NEW s, Good(s), NEW i \in DOMAIN s.runs, NEW status \in Status,
           status # "waiting", s.runs[i].status # "waiting"
    PROVE  Good(set_status(s, i, status)) /\ Narrows(s, set_status(s, i, status))
<1> DEFINE t == set_status(s, i, status)
<1>1. /\ t \in Db /\ DOMAIN t.runs = DOMAIN s.runs /\ Narrows(s, t)
      /\ t.runs[i].status = status
      /\ \A j \in DOMAIN s.runs : j # i => t.runs[j] = s.runs[j]
      /\ \A q \in DOMAIN s.reqs :
            t.reqs[q].open <=> s.reqs[q].open /\ ~(ends_run(status) /\ s.reqs[q].run = i)
  BY StatusRows DEF Good
<1>2. DOMAIN t.reqs = DOMAIN s.reqs
  BY <1>1, DbRows DEF Narrows, Good
<1> HIDE DEF t
<1>3. \A q \in DOMAIN s.reqs : s.reqs[q].run = i => ~s.reqs[q].open /\ ~t.reqs[q].open
  BY <1>1 DEF Good, Rows
<1>5. \A q \in DOMAIN s.reqs : t.reqs[q].run = s.reqs[q].run
  BY <1>1 DEF Narrows
<1>4. Rows(t)
  BY <1>1, <1>2, <1>3, <1>5 DEF Good, Rows
<1> QED BY <1>1, <1>4 DEF Good, t

(* A run ends, and its request with it. *)
LEMMA EndGood ==
    ASSUME NEW s, Good(s), NEW i \in DOMAIN s.runs, NEW status \in Status, ends_run(status)
    PROVE  Good(set_status(s, i, status)) /\ Narrows(s, set_status(s, i, status))
<1> DEFINE t == set_status(s, i, status)
<1>1. /\ t \in Db /\ DOMAIN t.runs = DOMAIN s.runs /\ Narrows(s, t)
      /\ t.runs[i].status = status
      /\ \A j \in DOMAIN s.runs : j # i => t.runs[j] = s.runs[j]
      /\ \A q \in DOMAIN s.reqs : t.reqs[q].open <=> s.reqs[q].open /\ s.reqs[q].run # i
  BY StatusRows DEF Good
<1>2. DOMAIN t.reqs = DOMAIN s.reqs /\ status # "waiting"
  BY <1>1, DbRows DEF Narrows, Good, ends_run
<1> HIDE DEF t
<1>4. \A q \in DOMAIN s.reqs : t.reqs[q].run = s.reqs[q].run
  BY <1>1 DEF Narrows
<1>3. Rows(t)
  BY <1>1, <1>2, <1>4 DEF Good, Rows
<1> QED BY <1>1, <1>3 DEF Good, t

(* A run whose request is answered by going on. *)
LEMMA LeaveGood ==
    ASSUME NEW s, Good(s), NEW i \in DOMAIN s.runs, NEW status \in Status, status # "waiting"
    PROVE  LET t == set_status(resolve_open_request(s, i), i, status)
           IN  Good(t) /\ Narrows(s, t)
<1> DEFINE u == resolve_open_request(s, i)
           t == set_status(u, i, status)
<1>1. /\ u \in Db /\ u.runs = s.runs /\ Narrows(s, u)
      /\ \A q \in DOMAIN s.reqs : u.reqs[q].open <=> s.reqs[q].open /\ s.reqs[q].run # i
  BY ResolveRows DEF Good
<1> HIDE DEF u
<1>2. /\ t \in Db /\ DOMAIN t.runs = DOMAIN u.runs /\ Narrows(u, t)
      /\ t.runs[i].status = status
      /\ \A j \in DOMAIN u.runs : j # i => t.runs[j] = u.runs[j]
      /\ \A q \in DOMAIN u.reqs :
            t.reqs[q].open <=> u.reqs[q].open /\ ~(ends_run(status) /\ u.reqs[q].run = i)
  BY <1>1, StatusRows
<1>3. DOMAIN t.reqs = DOMAIN s.reqs /\ DOMAIN u.reqs = DOMAIN s.reqs
  BY <1>1, <1>2, DbRows DEF Narrows, Good
<1> HIDE DEF t
<1>4. Narrows(s, t)
  BY <1>1, <1>2, <1>3 DEF Narrows
<1>5. \A q \in DOMAIN s.reqs : t.reqs[q].open <=> s.reqs[q].open /\ s.reqs[q].run # i
  BY <1>1, <1>2, <1>3 DEF Narrows
<1>7. \A q \in DOMAIN s.reqs : t.reqs[q].run = s.reqs[q].run
  BY <1>4 DEF Narrows
<1>6. Rows(t)
  BY <1>1, <1>2, <1>3, <1>5, <1>7 DEF Good, Rows
<1> QED BY <1>2, <1>4, <1>6 DEF Good, t, u

(* A run asks, in place of what it asked before. *)
LEMMA AskGood ==
    ASSUME NEW s, Good(s), NEW i \in DOMAIN s.runs, NEW kind \in Kind
    PROVE  LET t == set_status(insert_request(s, i, kind), i, "waiting")
           IN  Good(t) /\ Evolves(s, t)
<1> DEFINE u == insert_request(s, i, kind)
           t == set_status(u, i, "waiting")
           n == Len(s.reqs) + 1
<1>1. /\ u \in Db /\ u.runs = s.runs /\ Len(u.reqs) = n
      /\ DOMAIN u.reqs = DOMAIN s.reqs \cup {n} /\ n \notin DOMAIN s.reqs
      /\ u.reqs[n] = [run |-> i, kind |-> kind, open |-> TRUE, sent |-> FALSE]
      /\ \A q \in DOMAIN s.reqs :
            /\ u.reqs[q].run = s.reqs[q].run /\ u.reqs[q].kind = s.reqs[q].kind
            /\ u.reqs[q].sent = s.reqs[q].sent
            /\ u.reqs[q].open <=> s.reqs[q].open /\ s.reqs[q].run # i
  BY RequestRows DEF Good
<1> HIDE DEF u
<1>2. /\ t \in Db /\ DOMAIN t.runs = DOMAIN u.runs /\ Narrows(u, t)
      /\ t.runs[i].status = "waiting"
      /\ \A j \in DOMAIN u.runs : j # i => t.runs[j] = u.runs[j]
      /\ \A q \in DOMAIN u.reqs : t.reqs[q].open <=> u.reqs[q].open
  BY <1>1, StatusRows DEF ends_run, Status
<1>3. DOMAIN t.reqs = DOMAIN u.reqs /\ Len(t.reqs) = n
  BY <1>1, <1>2, DbRows DEF Narrows
<1> HIDE DEF t, n
<1>4. /\ t.reqs[n].run = i /\ t.reqs[n].open /\ ~t.reqs[n].sent
  BY <1>1, <1>2, <1>3 DEF Narrows
<1>5. \A q \in DOMAIN s.reqs :
        /\ t.reqs[q].run = s.reqs[q].run /\ t.reqs[q].kind = s.reqs[q].kind
        /\ t.reqs[q].sent = s.reqs[q].sent
        /\ t.reqs[q].open <=> s.reqs[q].open /\ s.reqs[q].run # i
  BY <1>1, <1>2 DEF Narrows
<1>8. Len(s.runs) <= Len(t.runs)
  BY <1>1, <1>2 DEF Narrows
<1>6. Evolves(s, t)
  BY <1>1, <1>3, <1>4, <1>5, <1>8 DEF Evolves, n
<1>7. Rows(t)
  <2>1. \A q \in DOMAIN t.reqs : t.reqs[q].run \in DOMAIN t.runs
    BY <1>1, <1>2, <1>3, <1>4, <1>5 DEF Good, Rows
  <2>2. \A p, q \in DOMAIN t.reqs :
          t.reqs[p].open /\ t.reqs[q].open /\ t.reqs[p].run = t.reqs[q].run => p = q
    BY <1>1, <1>3, <1>4, <1>5 DEF Good, Rows
  <2>3. \A j \in DOMAIN t.runs :
          t.runs[j].status = "waiting" => \E q \in DOMAIN t.reqs : t.reqs[q].open /\ t.reqs[q].run = j
    <3> SUFFICES ASSUME NEW j \in DOMAIN t.runs, t.runs[j].status = "waiting"
                 PROVE  \E q \in DOMAIN t.reqs : t.reqs[q].open /\ t.reqs[q].run = j
      OBVIOUS
    <3>1. CASE j = i
      BY <1>1, <1>3, <1>4, <3>1
    <3>2. CASE j # i
      <4>1. PICK q \in DOMAIN s.reqs : s.reqs[q].open /\ s.reqs[q].run = j
        BY <1>1, <1>2, <3>2 DEF Good, Rows
      <4> QED BY <1>1, <1>3, <1>5, <3>2, <4>1
    <3> QED BY <3>1, <3>2
  <2>4. \A q \in DOMAIN t.reqs : t.reqs[q].open => t.runs[t.reqs[q].run].status = "waiting"
    BY <1>1, <1>2, <1>3, <1>4, <1>5 DEF Good, Rows
  <2> QED BY <2>1, <2>2, <2>3, <2>4 DEF Rows
<1> QED BY <1>2, <1>6, <1>7 DEF Good, t, u

(* A new run has no request yet. *)
LEMMA InsertGood ==
    ASSUME NEW s, Good(s), NEW agent \in Agents, NEW status \in Status, status # "waiting"
    PROVE  LET t == insert(s, agent, status) IN
           /\ Good(t) /\ Narrows(s, t) /\ Len(t.runs) = Len(s.runs) + 1
           /\ Len(s.runs) + 1 \in DOMAIN t.runs
           /\ t.runs[Len(s.runs) + 1].status = status
<1> DEFINE t == insert(s, agent, status)
           i == Len(s.runs) + 1
<1>1. /\ t \in Db /\ t.reqs = s.reqs /\ Len(t.runs) = i
      /\ DOMAIN t.runs = DOMAIN s.runs \cup {i} /\ i \notin DOMAIN s.runs
      /\ t.runs[i].status = status
      /\ \A j \in DOMAIN s.runs : t.runs[j] = s.runs[j]
  BY InsertRows DEF Good
<1>2. Narrows(s, t)
  BY <1>1, SameEvolves DEF Good
<1> HIDE DEF t, i
<1>3. Rows(t)
  BY <1>1 DEF Good, Rows
<1> QED BY <1>1, <1>2, <1>3 DEF Good, t, i

(* What is written besides the status does not matter to requests. *)
LEMMA ReportGood ==
    ASSUME NEW s, Good(s), NEW i \in DOMAIN s.runs, NEW b \in BOOLEAN, NEW t,
           \/ t = set_report(s, i, b)
           \/ t = [s EXCEPT !.runs[i].turn_ended = b]
    PROVE  Good(t) /\ Narrows(s, t) /\ DOMAIN t.runs = DOMAIN s.runs
<1>1. /\ t \in Db /\ t.reqs = s.reqs /\ DOMAIN t.runs = DOMAIN s.runs
      /\ \A j \in DOMAIN s.runs : t.runs[j].status = s.runs[j].status
  BY ReportRows DEF Good
<1>2. Narrows(s, t)
  BY <1>1, SameEvolves DEF Good
<1>3. Rows(t)
  BY <1>1 DEF Good, Rows
<1> QED BY <1>1, <1>2, <1>3 DEF Good

(* The machine leaves: no run is open, so none asks. *)
LEMMA EndMachineGood ==
    ASSUME NEW s, Good(s)
    PROVE  Good(end_open_for_machine(s)) /\ Narrows(s, end_open_for_machine(s))
<1> DEFINE f == [i \in DOMAIN s.runs |->
                   IF Open(s, i) THEN [s.runs[i] EXCEPT !.status = "gone"] ELSE s.runs[i]]
           g == [q \in DOMAIN s.reqs |->
                   IF Open(s, s.reqs[q].run) THEN [s.reqs[q] EXCEPT !.open = FALSE] ELSE s.reqs[q]]
           t == end_open_for_machine(s)
<1>1. /\ Len(s.runs) \in Nat /\ DOMAIN s.runs = 1..Len(s.runs)
      /\ Len(s.reqs) \in Nat /\ DOMAIN s.reqs = 1..Len(s.reqs)
      /\ \A i \in DOMAIN s.runs : s.runs[i] \in RunRow
      /\ \A q \in DOMAIN s.reqs : s.reqs[q] \in ReqRow
  BY DbRows DEF Good
<1>2. \A i \in DOMAIN s.runs : f[i] \in RunRow /\ f[i].status # "waiting"
  BY <1>1 DEF RunRow, Status, Open, ends_run
<1>3. \A q \in DOMAIN s.reqs :
        /\ g[q] \in ReqRow /\ g[q].run = s.reqs[q].run /\ g[q].kind = s.reqs[q].kind
        /\ g[q].sent = s.reqs[q].sent /\ ~g[q].open
  <2> TAKE q \in DOMAIN s.reqs
  <2>1. s.reqs[q].open => Open(s, s.reqs[q].run)
    BY <1>1 DEF Good, Rows, Open, ends_run
  <2> QED BY <1>1, <2>1 DEF ReqRow
<1>4. f \in [1..Len(s.runs) -> RunRow] /\ g \in [1..Len(s.reqs) -> ReqRow]
  BY <1>1, <1>2, <1>3
<1>5. t = [runs |-> f, reqs |-> g]
  BY DEF end_open_for_machine
<1> HIDE DEF f, g, t
<1>6. /\ f \in Seq(RunRow) /\ DOMAIN f = DOMAIN s.runs
      /\ g \in Seq(ReqRow) /\ Len(g) = Len(s.reqs) /\ DOMAIN g = DOMAIN s.reqs
  BY <1>1, <1>4, FunSeq
<1>7. t \in Db /\ t.runs = f /\ t.reqs = g
  BY <1>5, <1>6 DEF Db
<1>8. Rows(t)
  BY <1>2, <1>3, <1>6, <1>7 DEF Good, Rows
<1> QED BY <1>3, <1>6, <1>7, <1>8 DEF Good, Narrows, t

LEMMA BeginGood ==
    ASSUME NEW s, Good(s), NEW i \in DOMAIN s.runs, s.runs[i].status # "waiting",
           NEW asks \in BOOLEAN
    PROVE  Good(begin(s, i, asks)) /\ Evolves(s, begin(s, i, asks))
<1>1. CASE asks
  BY <1>1, AskGood DEF begin, Kind
<1>2. CASE ~asks
  <2>1. Good(set_status(s, i, "working")) /\ Narrows(s, set_status(s, i, "working"))
    BY EnterGood DEF Status
  <2> QED BY <1>2, <2>1, NarrowsEvolves DEF begin, Good
<1> QED BY <1>1, <1>2

LEMMA SignalledGood ==
    ASSUME NEW s, Good(s), NEW i \in DOMAIN s.runs, NEW signal \in Signal
    PROVE  Good(Signalled(s, i, signal)) /\ Evolves(s, Signalled(s, i, signal))
<1>1. CASE signal \in {"working", "idle"}
  <2> DEFINE t == set_status(resolve_open_request(s, i), i, signal)
  <2>1. Good(t) /\ Narrows(s, t)
    BY <1>1, LeaveGood DEF Status
  <2>2. Signalled(s, i, signal) = t
    <3>1. CASE signal = "working"
      BY <3>1 DEF Signalled, Kind
    <3>2. CASE signal = "idle"
      BY <3>2 DEF Signalled, Kind
    <3> QED BY <1>1, <3>1, <3>2
  <2> HIDE DEF t
  <2> QED BY <2>1, <2>2, NarrowsEvolves DEF Good
<1>2. CASE signal \in Kind
  BY <1>2, AskGood DEF Signalled, Kind
<1>3. CASE signal = "blocked"
  <2> DEFINE u == set_report(s, i, FALSE)
             t == set_status(resolve_open_request(u, i), i, "idle")
  <2>1. Good(u) /\ Narrows(s, u) /\ DOMAIN u.runs = DOMAIN s.runs
    BY ReportGood
  <2> HIDE DEF u
  <2>2. Good(t) /\ Narrows(u, t)
    BY <2>1, LeaveGood DEF Status
  <2>3. Signalled(s, i, signal) = t
    BY <1>3 DEF Signalled, Kind, u
  <2> QED BY <2>1, <2>2, <2>3, NarrowsEvolves, NarrowsThenEvolves DEF Good
<1>4. CASE signal = "finished"
  <2> DEFINE u == set_report(s, i, TRUE)
             t == set_status(u, i, "done")
  <2>1. Good(u) /\ Narrows(s, u) /\ DOMAIN u.runs = DOMAIN s.runs
    BY ReportGood
  <2> HIDE DEF u
  <2>2. Good(t) /\ Narrows(u, t)
    BY <2>1, EndGood DEF Status, ends_run
  <2>3. Signalled(s, i, signal) = t
    BY <1>4 DEF Signalled, Kind, u
  <2> QED BY <2>1, <2>2, <2>3, NarrowsEvolves, NarrowsThenEvolves DEF Good
<1>5. CASE signal = "reported"
  <2>1. Good(set_report(s, i, FALSE)) /\ Narrows(s, set_report(s, i, FALSE))
    BY ReportGood
  <2> QED BY <1>5, <2>1, NarrowsEvolves DEF Signalled, Kind, Good
<1>6. CASE signal \in {"progress", "other"}
  <2>1. Signalled(s, i, signal) = s
    BY <1>6 DEF Signalled, Kind
  <2>2. Narrows(s, s) /\ Evolves(s, s)
    BY SameEvolves, DbRows DEF Good
  <2> QED BY <2>1, <2>2
<1> QED BY <1>1, <1>2, <1>3, <1>4, <1>5, <1>6 DEF Signal, Kind

(* A new run that begins at once. *)
LEMMA FreshGood ==
    ASSUME NEW s, Good(s), NEW agent \in Agents, NEW asks \in BOOLEAN
    PROVE  LET t == begin(insert(s, agent, "working"), Len(s.runs) + 1, asks)
           IN  Good(t) /\ Evolves(s, t)
<1> DEFINE u == insert(s, agent, "working")
           i == Len(s.runs) + 1
<1>1. Good(u) /\ Narrows(s, u) /\ i \in DOMAIN u.runs /\ u.runs[i].status = "working"
  BY InsertGood DEF Status
<1> HIDE DEF u, i
<1>2. Good(begin(u, i, asks)) /\ Evolves(u, begin(u, i, asks))
  BY <1>1, BeginGood
<1> QED BY <1>1, <1>2, NarrowsThenEvolves DEF Good, u, i

LEMMA AgentInFrontGood ==
    ASSUME NEW s, Good(s), NEW agent \in Agents \cup {NoAgent}, NEW asks \in BOOLEAN
    PROVE  Good(AgentInFront(s, agent, asks)) /\ Evolves(s, AgentInFront(s, agent, asks))
<1> DEFINE t == AgentInFront(s, agent, asks)
           i == latest(s)
           ended == IF Open(s, i) THEN set_status(s, i, "done") ELSE s
<1>1. /\ Len(s.runs) \in Nat /\ DOMAIN s.runs = 1..Len(s.runs) /\ i = Len(s.runs)
      /\ i > 0 => i \in DOMAIN s.runs /\ s.runs[i] \in RunRow
  BY DbRows DEF Good, latest
<1>2. Good(ended) /\ Narrows(s, ended) /\ Len(ended.runs) = i
  <2>1. CASE Open(s, i)
    <3>1. i \in DOMAIN s.runs
      BY <1>1, <2>1 DEF Open
    <3>2. Good(set_status(s, i, "done")) /\ Narrows(s, set_status(s, i, "done"))
      BY <3>1, EndGood DEF Status, ends_run
    <3>3. Len(set_status(s, i, "done").runs) = Len(s.runs)
      BY <3>1, StatusRows DEF Status, Good
    <3> QED BY <1>1, <2>1, <3>2, <3>3
  <2>2. CASE ~Open(s, i)
    BY <1>1, <2>2, SameEvolves DEF Good
  <2> QED BY <2>1, <2>2
<1>3. CASE i > 0 /\ s.runs[i].agent = agent /\ s.runs[i].status \in {"starting", "gone"}
           /\ t = begin(s, i, asks)
  BY <1>1, <1>3, BeginGood
<1>4. CASE t = s
  BY <1>4, SameEvolves DEF Good
<1>5. CASE Open(s, i) /\ t = set_status(s, i, "done")
  BY <1>2, <1>5, NarrowsEvolves DEF Good
<1>6. CASE agent # NoAgent /\ t = begin(insert(ended, agent, "working"), i + 1, asks)
  <2> HIDE DEF ended, t
  <2>1. Good(t) /\ Evolves(ended, t)
    BY <1>2, <1>6, FreshGood
  <2> QED BY <1>2, <2>1, NarrowsThenEvolves DEF Good, t
<1>7. agent = NoAgent /\ i > 0 => s.runs[i].agent # agent
  BY <1>1, CallersAssumption DEF RunRow
<1>8. \/ i > 0 /\ s.runs[i].agent = agent /\ s.runs[i].status \in {"starting", "gone"}
         /\ t = begin(s, i, asks)
      \/ t = s
      \/ Open(s, i) /\ t = set_status(s, i, "done")
      \/ t = begin(insert(ended, agent, "working"), i + 1, asks)
  BY DEF AgentInFront
<1>9. agent = NoAgent => \/ t = s
                         \/ Open(s, i) /\ t = set_status(s, i, "done")
  <2>1. CASE agent = NoAgent /\ Open(s, i)
    BY <1>7, <2>1 DEF AgentInFront, Open
  <2>2. CASE agent = NoAgent /\ ~Open(s, i)
    BY <1>7, <2>2 DEF AgentInFront
  <2> QED BY <2>1, <2>2
<1> HIDE DEF ended, t
<1> QED BY <1>3, <1>4, <1>5, <1>6, <1>8, <1>9 DEF t

-----------------------------------------------------------------------------
(* The handlers.  What each does to the rows: *)
HandlerRows == Good(db') /\ Evolves(db, db') /\ Len(db'.reqs) <= MaxRows

LEMMA BoundedRequests ==
    ASSUME NEW s \in Db, Bounded(s)
    PROVE  Len(s.reqs) <= MaxRows /\ Len(s.runs) <= MaxRows
<1>1. Len(s.reqs) \in Nat /\ Len(s.runs) \in Nat
  BY DbRows
<1>2. \A a, b, m \in Nat : a + b <= m => a <= m /\ b <= m
  OBVIOUS
<1>3. Len(s.runs) + Len(s.reqs) <= MaxRows
  BY DEF Bounded
<1> QED BY <1>1, <1>2, <1>3, BoundAssumption

LEMMA NarrowHandler ==
    ASSUME IInv, Good(db'), Narrows(db, db')
    PROVE  HandlerRows
<1>1. Evolves(db, db')
  BY NarrowsEvolves DEF IInv, Good
<1>2. Len(db'.reqs) <= MaxRows
  BY DEF Narrows, IInv
<1> QED BY <1>1, <1>2 DEF HandlerRows

(* Messages of the node about the terminal. *)
LEMMA MessageRows ==
    ASSUME IInv,
           \/ \E agent \in Agents \cup {NoAgent}, asks \in BOOLEAN : on_terminal_agent(agent, asks)
           \/ \E agent \in Agents, signal \in Signal : on_agent_signal(agent, signal)
           \/ \E asks \in BOOLEAN : on_run_attention(asks)
    PROVE  HandlerRows
<1> DEFINE i == latest(db)
<1>1. Good(db) /\ Bounded(db')
  BY DEF IInv, Good, on_terminal_agent, on_agent_signal, on_run_attention
<1>2. /\ i \in Nat
      /\ i > 0 => i \in DOMAIN db.runs
      /\ Narrows(db, db) /\ Evolves(db, db)
  BY <1>1, DbRows, SameEvolves DEF latest, Good
<1>3. Open(db, i) => i \in DOMAIN db.runs
  BY <1>2 DEF Open
<1> HIDE DEF i
<1>4. SUFFICES Good(db') /\ Evolves(db, db')
  BY <1>1, BoundedRequests DEF HandlerRows, Good
<1>5. ASSUME NEW agent \in Agents \cup {NoAgent}, NEW asks \in BOOLEAN,
             on_terminal_agent(agent, asks)
      PROVE  Good(db') /\ Evolves(db, db')
  <2>1. db' = AgentInFront(db, agent, asks)
    BY <1>5 DEF on_terminal_agent
  <2>2. /\ Good(AgentInFront(db, agent, asks))
        /\ Evolves(db, AgentInFront(db, agent, asks))
    BY <1>1, AgentInFrontGood
  <2> QED BY <2>1, <2>2
<1>6. ASSUME NEW agent \in Agents, NEW signal \in Signal, on_agent_signal(agent, signal)
      PROVE  Good(db') /\ Evolves(db, db')
  <2>1. CASE Open(db, i) /\ db' = Signalled(db, i, signal)
    BY <1>1, <1>3, <2>1, SignalledGood
  <2>2. CASE db' = db
    BY <1>1, <1>2, <2>2
  <2>3. CASE after_handover(db, signal) /\ db' = NoteTurnEnded(db, signal)
    <3>1. i \in DOMAIN db.runs
      BY <1>2, <2>3 DEF after_handover, handed_over, i
    <3>2. CASE signal = "idle"
      <4>1. db' = [db EXCEPT !.runs[i].turn_ended = TRUE]
        BY <2>3, <3>2, Zenon DEF NoteTurnEnded, i
      <4> DEFINE t == [db EXCEPT !.runs[i].turn_ended = TRUE]
      <4>2. Good(t) /\ Narrows(db, t)
        <5>1. t = [db EXCEPT !.runs[i].turn_ended = TRUE]
          OBVIOUS
        <5> HIDE DEF t
        <5> QED BY <1>1, <3>1, <5>1, ReportGood
      <4>3. db' = t
        BY <4>1
      <4> HIDE DEF t
      <4> QED BY <1>1, <4>2, <4>3, NarrowsEvolves DEF Good
    <3>3. CASE signal # "idle"
      BY <1>1, <1>2, <2>3, <3>3 DEF NoteTurnEnded
    <3> QED BY <3>2, <3>3
  <2>4. CASE db' = Signalled(insert(db, agent, "working"), i + 1, signal)
    <3> DEFINE u == insert(db, agent, "working")
    <3>1. Good(u) /\ Narrows(db, u) /\ i + 1 \in DOMAIN u.runs
      BY <1>1, InsertGood DEF Status, i, latest
    <3> HIDE DEF u
    <3>2. Good(Signalled(u, i + 1, signal)) /\ Evolves(u, Signalled(u, i + 1, signal))
      BY <3>1, SignalledGood
    <3> QED BY <1>1, <2>4, <3>1, <3>2, NarrowsThenEvolves DEF Good, u
  <2> QED BY <1>6, <2>1, <2>2, <2>3, <2>4 DEF on_agent_signal, i
<1>7. ASSUME NEW asks \in BOOLEAN, on_run_attention(asks)
      PROVE  Good(db') /\ Evolves(db, db')
  <2>1. CASE Open(db, i) /\ db' = set_status(insert_request(db, i, "approval"), i, "waiting")
    BY <1>1, <1>3, <2>1, AskGood DEF Kind
  <2>2. CASE Open(db, i) /\ db' = set_status(resolve_open_request(db, i), i, "working")
    <3>1. Good(db') /\ Narrows(db, db')
      BY <1>1, <1>3, <2>2, LeaveGood DEF Status
    <3> QED BY <1>1, <3>1, NarrowsEvolves DEF Good
  <2>3. CASE db' = db
    BY <1>1, <1>2, <2>3
  <2> QED BY <1>7, <2>1, <2>2, <2>3 DEF on_run_attention, i
<1> QED BY <1>5, <1>6, <1>7

(* The terminal closes, the machine leaves, a declined request ends, an    *)
(* agent is started or does not show up.                                   *)
LEMMA OtherRows ==
    ASSUME IInv,
           \/ end_terminal_runs \/ end_machine_runs
           \/ \E c \in Caller : answer_agent_run(c)
           \/ \E agent \in Agents : insert_started(agent)
           \/ expire_start
    PROVE  HandlerRows
<1>1. Good(db) /\ Narrows(db, db)
  BY SameEvolves, DbRows DEF IInv, Good
<1>2. CASE db' = db
  BY <1>1, <1>2, NarrowHandler
<1>3. CASE end_terminal_runs /\ Open(db, latest(db))
  <2>1. latest(db) \in DOMAIN db.runs
    BY <1>1, <1>3, DbRows DEF Open, latest, Good
  <2>2. db' = set_status(db, latest(db), "gone")
    BY <1>3 DEF end_terminal_runs
  <2> QED BY <1>1, <2>1, <2>2, EndGood, NarrowHandler DEF Status, ends_run
<1>4. CASE end_machine_runs
  BY <1>1, <1>4, EndMachineGood, NarrowHandler DEF end_machine_runs
<1>5. ASSUME NEW c \in Caller, answer_agent_run(c), db' # db
      PROVE  HandlerRows
  <2> DEFINE i == db.reqs[ans[c].q].run
  <2>1. ans[c].q \in DOMAIN db.reqs
    BY <1>5 DEF answer_agent_run, IInv, AnswersAreScoped
  <2>2. i \in DOMAIN db.runs
    BY <2>1 DEF IInv, Rows
  <2>3. db' = set_status(resolve_open_request(db, i), i, "idle")
    BY <1>5 DEF answer_agent_run
  <2> HIDE DEF i
  <2> QED BY <1>1, <2>2, <2>3, LeaveGood, NarrowHandler DEF Status
<1>6. ASSUME NEW agent \in Agents, insert_started(agent)
      PROVE  HandlerRows
  <2>1. db' = insert(db, agent, "starting")
    BY <1>6 DEF insert_started
  <2>2. Good(db') /\ Narrows(db, db')
    BY <1>1, <2>1, InsertGood DEF Status
  <2> QED BY <2>2, NarrowHandler
<1>7. CASE expire_start /\ db' # db
  <2>1. db' = set_status(db, started, "error") /\ started > 0
    BY <1>7 DEF expire_start
  <2>2. started \in DOMAIN db.runs
    BY <2>1, DbRows DEF IInv, TypeOK
  <2> QED BY <1>1, <2>1, <2>2, EndGood, NarrowHandler DEF Status, ends_run
<1>8. CASE end_terminal_runs /\ ~Open(db, latest(db))
  BY <1>2, <1>8 DEF end_terminal_runs
<1> QED BY <1>2, <1>3, <1>4, <1>5, <1>6, <1>7, <1>8

-----------------------------------------------------------------------------
(* What such a handler means to those who answer: no answer is claimed or  *)
(* given back, whatever becomes of the requests. *)

LEMMA RequestDomain ==
    ASSUME IInv
    PROVE  /\ DOMAIN db.reqs = 1..Len(db.reqs) /\ Len(db.reqs) \in Nat
           /\ DOMAIN db.reqs \subseteq 1..MaxRows
           /\ \A q \in DOMAIN db.reqs : db.reqs[q] \in ReqRow
<1>1. /\ DOMAIN db.reqs = 1..Len(db.reqs) /\ Len(db.reqs) \in Nat
      /\ \A q \in DOMAIN db.reqs : db.reqs[q] \in ReqRow
  BY DbRows DEF IInv
<1>2. Len(db.reqs) <= MaxRows
  BY DEF IInv
<1> QED BY <1>1, <1>2, BoundAssumption

LEMMA HandlerDomain ==
    ASSUME IInv, HandlerRows
    PROVE  /\ DOMAIN db.reqs \subseteq DOMAIN db'.reqs
           /\ \/ DOMAIN db'.reqs = DOMAIN db.reqs
              \/ /\ Len(db.reqs) + 1 \in 1..MaxRows
                 /\ Len(db.reqs) + 1 \notin DOMAIN db.reqs
                 /\ DOMAIN db'.reqs = DOMAIN db.reqs \cup {Len(db.reqs) + 1}
           /\ SentNow' = SentNow
<1>1. /\ DOMAIN db'.reqs = 1..Len(db'.reqs) /\ Len(db'.reqs) \in Nat
      /\ Len(db'.reqs) <= MaxRows
      /\ Len(db'.reqs) = Len(db.reqs) \/ Len(db'.reqs) = Len(db.reqs) + 1
  BY DbRows DEF HandlerRows, Good, Evolves
<1>2. /\ DOMAIN db.reqs \subseteq DOMAIN db'.reqs
      /\ \/ DOMAIN db'.reqs = DOMAIN db.reqs
         \/ /\ Len(db.reqs) + 1 \in 1..MaxRows
            /\ Len(db.reqs) + 1 \notin DOMAIN db.reqs
            /\ DOMAIN db'.reqs = DOMAIN db.reqs \cup {Len(db.reqs) + 1}
  BY <1>1, RequestDomain, BoundAssumption
<1>3. \A q \in DOMAIN db.reqs : db'.reqs[q].sent = db.reqs[q].sent
  BY DEF HandlerRows, Evolves
<1>4. \A q \in DOMAIN db'.reqs \ DOMAIN db.reqs : ~db'.reqs[q].sent
  BY DEF HandlerRows, Evolves
<1>5. SentNow' = SentNow
  BY <1>2, <1>3, <1>4 DEF SentNow
<1> QED BY <1>2, <1>5

(* No answer on its way. *)
LEMMA NoKeys ==
    /\ DOMAIN <<>> = {} /\ \A S : <<>> \in Seq(S)
BY EmptySeq, LenProperties

LEMMA RowsInv ==
    ASSUME IInv, HandlerRows, typed' = typed, grants' = grants, keys' \in {keys, <<>>},
           ans' \in [Caller -> [step : AnswerStep, q : 0..MaxRows, no : BOOLEAN]],
           \A c \in Caller : ans'[c] = ans[c] \/ ans'[c] = NoAnswer,
           terminal' \in {"absent", "there", "closed"}, linked' \in BOOLEAN,
           start' \in {"none", "creating", "looked"},
           started' \in 0..MaxRows, started' <= Len(db'.runs)
    PROVE  IInv'
<1>1. TypeOK'
  <2>1. keys' \in Seq(1..MaxRows)
    BY NoKeys DEF IInv, TypeOK
  <2>2. db'.runs \in Seq(RunRow) /\ db'.reqs \in Seq(ReqRow)
    BY DEF HandlerRows, Good, Db
  <2> QED BY <2>1, <2>2 DEF IInv, TypeOK, RunRow, ReqRow
<1>2. AnswersAreScoped'
  <2> SUFFICES ASSUME NEW c \in Caller, ans'[c].step # "idle"
               PROVE  /\ ans'[c].q \in DOMAIN db'.reqs
                      /\ db'.reqs[ans'[c].q].open /\ db'.reqs[ans'[c].q].kind = "approval"
                            => c \in Approver
    BY DEF AnswersAreScoped
  <2>1. ans'[c] = ans[c]
    BY DEF NoAnswer
  <2>2. /\ ans[c].q \in DOMAIN db.reqs
        /\ db.reqs[ans[c].q].open /\ db.reqs[ans[c].q].kind = "approval" => c \in Approver
    BY <2>1 DEF IInv, AnswersAreScoped
  <2>3. /\ db'.reqs[ans[c].q].kind = db.reqs[ans[c].q].kind
        /\ db'.reqs[ans[c].q].open => db.reqs[ans[c].q].open
    BY <2>2 DEF HandlerRows, Evolves
  <2> QED BY <2>1, <2>2, <2>3, HandlerDomain
<1>3. GrantsAreScoped'
  <2>1. \A q \in DOMAIN db.reqs : q \in DOMAIN db'.reqs /\ db'.reqs[q].kind = db.reqs[q].kind
    BY HandlerDomain DEF HandlerRows, Evolves
  <2> QED BY <2>1 DEF IInv, GrantsAreScoped
<1>4. OnePlace'
  <2>1. /\ SentNow' = SentNow /\ Typed' = Typed
        /\ OnItsWay' \subseteq OnItsWay
        /\ \A j, k \in DOMAIN keys' : keys'[j] = keys'[k] => j = k
    <3>1. SentNow' = SentNow /\ Typed' = Typed
      BY HandlerDomain DEF Typed
    <3>2. CASE keys' = keys
      BY <3>1, <3>2 DEF OnItsWay, IInv, OnePlace
    <3>3. CASE keys' = <<>>
      <4>1. DOMAIN keys' = {}
        BY <3>3, NoKeys
      <4> QED BY <3>1, <4>1 DEF OnItsWay
    <3> QED BY <3>2, <3>3
  <2>2. \A c \in Caller : Marked(c)' => Marked(c) /\ ans'[c] = ans[c]
    BY DEF Marked, NoAnswer
  <2> QED BY <2>1, <2>2 DEF IInv, OnePlace
<1>5. db' \in Db /\ Rows(db') /\ Len(db'.reqs) <= MaxRows
  BY DEF HandlerRows, Good
<1> QED BY <1>1, <1>2, <1>3, <1>4, <1>5 DEF IInv

LEMMA RowsPromise ==
    ASSUME IInv, HandlerRows, typed' = typed
    PROVE  Promise!Next
<1>1. SentNow' = SentNow
  BY HandlerDomain
<1>2. CASE DOMAIN db'.reqs = DOMAIN db.reqs
  <2>1. OpenNow' \subseteq OpenNow
    BY <1>2 DEF OpenNow, HandlerRows, Evolves
  <2> QED BY <1>1, <1>2, <2>1 DEF Promise!Next, Promise!Close
<1>3. CASE DOMAIN db'.reqs # DOMAIN db.reqs
  <2> DEFINE q == Len(db.reqs) + 1
  <2>1. q \in 1..MaxRows /\ q \notin DOMAIN db.reqs /\ DOMAIN db'.reqs = DOMAIN db.reqs \cup {q}
    BY <1>3, HandlerDomain
  <2> HIDE DEF q
  <2>2. db'.reqs[q].open
    BY <2>1 DEF HandlerRows, Evolves
  <2>3. OpenNow' = (OpenNow \ (OpenNow \ OpenNow')) \cup {q}
    <3>1. \A p \in DOMAIN db.reqs : db'.reqs[p].open => db.reqs[p].open
      BY DEF HandlerRows, Evolves
    <3>2. \A p \in OpenNow' : p \in OpenNow \/ p = q
      BY <2>1, <3>1 DEF OpenNow
    <3>3. q \in OpenNow'
      BY <2>1, <2>2 DEF OpenNow
    <3> HIDE DEF q
    <3> QED BY <3>2, <3>3
  <2>4. Promise!Ask(q)
    BY <1>1, <2>1, <2>3 DEF Promise!Ask
  <2> QED BY <2>1, <2>4 DEF Promise!Next
<1> QED BY <1>2, <1>3

-----------------------------------------------------------------------------
(* Steps that change nothing in the rows. *)

LEMMA SameRows == ASSUME IInv, db' = db PROVE HandlerRows
<1>1. Good(db) /\ Evolves(db, db) /\ Len(db.reqs) <= MaxRows
  BY SameEvolves, DbRows DEF IInv, Good
<1> QED BY <1>1 DEF HandlerRows

LEMMA HandlerInv ==
    ASSUME IInv,
           \/ \E agent \in Agents \cup {NoAgent}, asks \in BOOLEAN : on_terminal_agent(agent, asks)
           \/ \E agent \in Agents, signal \in Signal : on_agent_signal(agent, signal)
           \/ \E asks \in BOOLEAN : on_run_attention(asks)
           \/ end_terminal_runs \/ end_machine_runs
           \/ \E c \in Caller : answer_agent_run(c)
           \/ \E agent \in Agents : insert_started(agent)
           \/ expire_start
           \/ Reconnect \/ HubRestart \/ OpenTerminal \/ start_as \/ LookForRun
           \/ UNCHANGED vars
    PROVE  IInv' /\ Promise!Next
<1>1. HandlerRows
  <2>1. CASE Reconnect \/ HubRestart \/ OpenTerminal \/ start_as \/ LookForRun \/ UNCHANGED vars
    BY <2>1, SameRows DEF Reconnect, HubRestart, OpenTerminal, start_as, LookForRun, vars
  <2> QED BY <2>1, MessageRows, OtherRows
<1>2. /\ typed' = typed /\ grants' = grants /\ keys' \in {keys, <<>>}
      /\ terminal' \in {"absent", "there", "closed"} /\ linked' \in BOOLEAN
      /\ start' \in {"none", "creating", "looked"}
  BY DEF on_terminal_agent, on_agent_signal, on_run_attention, FromNode, hub, end_terminal_runs,
         end_machine_runs, answer_agent_run, AnswerFrame, insert_started, StartFrame, expire_start,
         Reconnect, HubRestart, OpenTerminal, start_as, LookForRun, vars, IInv, TypeOK
<1>3. /\ ans' \in [Caller -> [step : AnswerStep, q : 0..MaxRows, no : BOOLEAN]]
      /\ \A c \in Caller : ans'[c] = ans[c] \/ ans'[c] = NoAnswer
  <2>1. ans \in [Caller -> [step : AnswerStep, q : 0..MaxRows, no : BOOLEAN]]
    BY DEF IInv, TypeOK
  <2>2. NoAnswer \in [step : AnswerStep, q : 0..MaxRows, no : BOOLEAN]
    BY BoundAssumption DEF NoAnswer, AnswerStep
  <2>3. \/ ans' = ans
        \/ ans' = [c \in Caller |-> NoAnswer]
        \/ \E c \in Caller : ans' = [ans EXCEPT ![c] = NoAnswer]
    BY DEF on_terminal_agent, on_agent_signal, on_run_attention, FromNode, hub, end_terminal_runs,
           end_machine_runs, answer_agent_run, insert_started, StartFrame, expire_start,
           Reconnect, HubRestart, OpenTerminal, start_as, LookForRun, vars
  <2> QED BY <2>1, <2>2, <2>3
<1>4. started' \in 0..MaxRows /\ started' <= Len(db'.runs)
  <2>1. started \in 0..MaxRows /\ started <= Len(db.runs) /\ Len(db.runs) \in Nat
    BY DbRows DEF IInv, TypeOK
  <2>2. Len(db.runs) <= Len(db'.runs) /\ Len(db'.runs) \in Nat
    BY <1>1, DbRows DEF HandlerRows, Evolves, Good
  <2>3. CASE started' = started \/ started' = 0
    BY <2>1, <2>2, <2>3, BoundAssumption
  <2>4. CASE \E agent \in Agents : insert_started(agent)
    <3>1. PICK agent \in Agents : insert_started(agent)
      BY <2>4
    <3>2. started' = Len(db.runs) + 1 /\ db' = insert(db, agent, "starting") /\ Bounded(db')
      BY <3>1 DEF insert_started, latest
    <3>3. Len(db'.runs) = Len(db.runs) + 1
      BY <3>2, InsertRows DEF IInv, Status
    <3>4. Len(db'.runs) <= MaxRows
      BY <1>1, <3>2, BoundedRequests DEF HandlerRows, Good
    <3> QED BY <2>1, <3>2, <3>3, <3>4, BoundAssumption
  <2> QED
    BY <2>3, <2>4
       DEF on_terminal_agent, on_agent_signal, on_run_attention, FromNode, hub, end_terminal_runs,
           end_machine_runs, answer_agent_run, AnswerFrame, expire_start,
           Reconnect, HubRestart, OpenTerminal, start_as, LookForRun, vars
<1>5. IInv'
  BY <1>1, <1>2, <1>3, <1>4, RowsInv
<1> QED BY <1>1, <1>2, <1>5, RowsPromise

-----------------------------------------------------------------------------
(* Answering. *)

(* A column of one request. *)
LEMMA SentRows ==
    ASSUME NEW s, Good(s), NEW q \in DOMAIN s.reqs, NEW row \in ReqRow, NEW t,
           row.run = s.reqs[q].run, row.kind = s.reqs[q].kind, row.open <=> s.reqs[q].open,
           t = [s EXCEPT !.reqs = [s.reqs EXCEPT ![q] = row]]
    PROVE  /\ Good(t) /\ t.runs = s.runs /\ DOMAIN t.reqs = DOMAIN s.reqs
           /\ Len(t.reqs) = Len(s.reqs) /\ t.reqs[q] = row
           /\ \A p \in DOMAIN s.reqs :
                 /\ t.reqs[p].kind = s.reqs[p].kind /\ (t.reqs[p].open <=> s.reqs[p].open)
                 /\ p # q => t.reqs[p].sent = s.reqs[p].sent
<1>1. /\ [s.reqs EXCEPT ![q] = row] \in Seq(ReqRow)
      /\ Len([s.reqs EXCEPT ![q] = row]) = Len(s.reqs)
      /\ \A p \in DOMAIN s.reqs : [s.reqs EXCEPT ![q] = row][p] = IF p = q THEN row ELSE s.reqs[p]
  BY DbRows, ExceptSeq DEF Good
<1>2. t \in Db /\ t.runs = s.runs /\ t.reqs = [s.reqs EXCEPT ![q] = row]
  BY <1>1 DEF Good, Db
<1>3. DOMAIN t.reqs = DOMAIN s.reqs /\ Len(t.reqs) = Len(s.reqs)
  BY <1>1, <1>2, DbRows DEF Good
<1>4. \A p \in DOMAIN s.reqs :
        /\ t.reqs[p].run = s.reqs[p].run /\ t.reqs[p].kind = s.reqs[p].kind
        /\ t.reqs[p].open <=> s.reqs[p].open
        /\ p # q => t.reqs[p].sent = s.reqs[p].sent
  BY <1>1, <1>2
<1>5. Rows(t)
  BY <1>2, <1>3, <1>4 DEF Good, Rows
<1>6. t.reqs[q] = row
  BY <1>1, <1>2
<1> QED BY <1>2, <1>3, <1>4, <1>5, <1>6 DEF Good

(* Looking at a request, without claiming it. *)
LEMMA LookInv ==
    ASSUME IInv, NEW c \in Caller,
           \/ \E q \in 1..MaxRows, no \in BOOLEAN : answer_as(c, q, no)
           \/ CheckAnswer(c)
    PROVE  IInv' /\ UNCHANGED Promise!vars
<1>1. UNCHANGED <<db, keys, typed, grants, terminal, linked, start, started>>
  BY DEF answer_as, CheckAnswer, AnswerFrame
<1>2. PICK r \in [step : AnswerStep, q : 0..MaxRows, no : BOOLEAN] :
        /\ ans' = [ans EXCEPT ![c] = r] /\ r.step # "marked"
        /\ r.step # "idle" =>
              /\ r.q \in DOMAIN db.reqs
              /\ db.reqs[r.q].open /\ db.reqs[r.q].kind = "approval" => c \in Approver
  <2>1. ASSUME NEW q \in 1..MaxRows, NEW no \in BOOLEAN, answer_as(c, q, no)
        PROVE  \E r \in [step : AnswerStep, q : 0..MaxRows, no : BOOLEAN] :
                  /\ ans' = [ans EXCEPT ![c] = r] /\ r.step # "marked"
                  /\ r.step # "idle" =>
                        /\ r.q \in DOMAIN db.reqs
                        /\ db.reqs[r.q].open /\ db.reqs[r.q].kind = "approval" => c \in Approver
    <3> DEFINE r == [step |-> "scoped", q |-> q, no |-> no]
    <3>1. /\ r \in [step : AnswerStep, q : 0..MaxRows, no : BOOLEAN]
          /\ r.step = "scoped" /\ r.q = q
      BY BoundAssumption DEF AnswerStep
    <3>2. /\ ans' = [ans EXCEPT ![c] = r] /\ q \in DOMAIN db.reqs
          /\ db.reqs[q].open /\ db.reqs[q].kind = "approval" => c \in Approver
      BY <2>1 DEF answer_as
    <3> HIDE DEF r
    <3> QED BY <3>1, <3>2
  <2>2. CASE CheckAnswer(c)
    <3>0. ans[c] \in [step : AnswerStep, q : 0..MaxRows, no : BOOLEAN]
      BY DEF IInv, TypeOK
    <3>1. CASE ans' = [ans EXCEPT ![c] = NoAnswer]
      <4>1. NoAnswer \in [step : AnswerStep, q : 0..MaxRows, no : BOOLEAN]
            /\ NoAnswer.step = "idle"
        BY BoundAssumption DEF NoAnswer, AnswerStep
      <4> QED BY <3>1, <4>1
    <3>2. CASE ans' = [ans EXCEPT ![c] = [ans[c] EXCEPT !.step = "checked"]]
      <4> DEFINE r == [ans[c] EXCEPT !.step = "checked"]
      <4>1. r \in [step : AnswerStep, q : 0..MaxRows, no : BOOLEAN]
            /\ r.step = "checked" /\ r.q = ans[c].q
        BY <3>0 DEF AnswerStep
      <4>2. /\ ans[c].q \in DOMAIN db.reqs
            /\ db.reqs[ans[c].q].open /\ db.reqs[ans[c].q].kind = "approval" => c \in Approver
        BY <2>2 DEF CheckAnswer, IInv, AnswersAreScoped
      <4> HIDE DEF r
      <4>3. ans' = [ans EXCEPT ![c] = r]
        BY <3>2 DEF r
      <4> QED BY <4>1, <4>2, <4>3
    <3> QED BY <2>2, <3>1, <3>2 DEF CheckAnswer, Move
  <2> QED BY <2>1, <2>2
<1>3. /\ ans' \in [Caller -> [step : AnswerStep, q : 0..MaxRows, no : BOOLEAN]]
      /\ ans'[c] = r /\ \A d \in Caller : d # c => ans'[d] = ans[d]
  BY <1>2 DEF IInv, TypeOK
<1>4. TypeOK'
  BY <1>1, <1>3 DEF IInv, TypeOK
<1>5. AnswersAreScoped'
  BY <1>1, <1>2, <1>3 DEF IInv, AnswersAreScoped
<1>6. \A d \in Caller : Marked(d)' => Marked(d) /\ ans'[d] = ans[d]
  BY <1>2, <1>3 DEF Marked
<1>7. OnItsWay' = OnItsWay /\ Typed' = Typed /\ SentNow' = SentNow
  BY <1>1 DEF OnItsWay, Typed, SentNow
<1>8. OnePlace'
  BY <1>1, <1>6, <1>7 DEF IInv, OnePlace
<1>9. UNCHANGED Promise!vars
  BY <1>1, <1>7 DEF Promise!vars, OpenNow
<1> QED BY <1>1, <1>4, <1>5, <1>8, <1>9 DEF IInv, GrantsAreScoped

(* An answer changes hands; where it goes is a place of its own. *)
LEMMA AnswerTypes ==
    ASSUME IInv, NEW c \in Caller, NEW step \in AnswerStep, Move(c, step)
    PROVE  /\ ans' \in [Caller -> [step : AnswerStep, q : 0..MaxRows, no : BOOLEAN]]
           /\ ans'[c].step = step
           /\ step # "idle" => ans'[c].q = ans[c].q
           /\ \A d \in Caller : d # c => ans'[d] = ans[d]
<1>1. /\ ans \in [Caller -> [step : AnswerStep, q : 0..MaxRows, no : BOOLEAN]]
      /\ ans[c] \in [step : AnswerStep, q : 0..MaxRows, no : BOOLEAN]
      /\ NoAnswer \in [step : AnswerStep, q : 0..MaxRows, no : BOOLEAN]
      /\ NoAnswer.step = "idle"
  BY BoundAssumption DEF IInv, TypeOK, NoAnswer, AnswerStep
<1>2. CASE step = "idle"
  BY <1>1, <1>2 DEF Move
<1>3. CASE step # "idle"
  <2> DEFINE r == [ans[c] EXCEPT !.step = step]
  <2>1. r \in [step : AnswerStep, q : 0..MaxRows, no : BOOLEAN] /\ r.step = step /\ r.q = ans[c].q
    BY <1>1
  <2>2. ans' = [ans EXCEPT ![c] = r]
    BY <1>3 DEF Move
  <2> HIDE DEF r
  <2> QED BY <1>1, <2>1, <2>2, <1>3
<1> QED BY <1>2, <1>3

LEMMA OtherAnswers ==
    ASSUME IInv, NEW c \in Caller, NEW step \in AnswerStep, Move(c, step),
           DOMAIN db'.reqs = DOMAIN db.reqs,
           \A q \in DOMAIN db.reqs :
              db'.reqs[q].kind = db.reqs[q].kind /\ (db'.reqs[q].open <=> db.reqs[q].open),
           ans[c].step # "idle"
    PROVE  AnswersAreScoped'
<1> SUFFICES ASSUME NEW d \in Caller, ans'[d].step # "idle"
             PROVE  /\ ans'[d].q \in DOMAIN db'.reqs
                    /\ db'.reqs[ans'[d].q].open /\ db'.reqs[ans'[d].q].kind = "approval"
                          => d \in Approver
  BY DEF AnswersAreScoped
<1>1. ans'[d].q = ans[d].q /\ ans[d].step # "idle"
  <2>1. CASE d = c
    BY <2>1, AnswerTypes
  <2>2. CASE d # c
    BY <2>2, AnswerTypes
  <2> QED BY <2>1, <2>2
<1>2. /\ ans[d].q \in DOMAIN db.reqs
      /\ db.reqs[ans[d].q].open /\ db.reqs[ans[d].q].kind = "approval" => d \in Approver
  BY <1>1 DEF IInv, AnswersAreScoped
<1> QED BY <1>1, <1>2

(* The first answer to an open request is claimed. *)
LEMMA ClaimInv ==
    ASSUME IInv, NEW c \in Caller, mark_answer_sent(c)
    PROVE  IInv' /\ (Promise!Next \/ UNCHANGED Promise!vars)
<1> DEFINE q == ans[c].q
<1>1. UNCHANGED <<keys, typed, terminal, linked, start, started>>
  BY DEF mark_answer_sent, AnswerFrame
<1>2. /\ q \in DOMAIN db.reqs /\ q \in 1..MaxRows /\ ans[c].step = "checked"
      /\ db.reqs[q].open /\ db.reqs[q].kind = "approval" => c \in Approver
  BY RequestDomain DEF mark_answer_sent, IInv, AnswersAreScoped
<1>3. Good(db) /\ OnItsWay' = OnItsWay /\ Typed' = Typed
  BY <1>1 DEF IInv, Good, OnItsWay, Typed
<1>4. CASE /\ db.reqs[q].open /\ ~db.reqs[q].sent /\ Move(c, "marked")
           /\ db' = [db EXCEPT !.reqs[q].sent = TRUE] /\ grants' = grants \cup {<<q, c>>}
  <2>1. /\ Good(db') /\ db'.runs = db.runs /\ DOMAIN db'.reqs = DOMAIN db.reqs
        /\ Len(db'.reqs) = Len(db.reqs) /\ db'.reqs[q].sent
        /\ \A p \in DOMAIN db.reqs :
              /\ db'.reqs[p].kind = db.reqs[p].kind /\ (db'.reqs[p].open <=> db.reqs[p].open)
              /\ p # q => db'.reqs[p].sent = db.reqs[p].sent
    <3> DEFINE row == [db.reqs[q] EXCEPT !.sent = TRUE]
    <3>1. /\ row \in ReqRow /\ row.run = db.reqs[q].run /\ row.kind = db.reqs[q].kind
          /\ row.open <=> db.reqs[q].open
          /\ row.sent
      BY <1>2, RequestDomain DEF ReqRow
    <3>2. db' = [db EXCEPT !.reqs = [db.reqs EXCEPT ![q] = row]]
      BY <1>4 DEF IInv, Db
    <3> HIDE DEF q, row
    <3>3. /\ Good(db') /\ db'.runs = db.runs /\ DOMAIN db'.reqs = DOMAIN db.reqs
          /\ Len(db'.reqs) = Len(db.reqs) /\ db'.reqs[q] = row
          /\ \A p \in DOMAIN db.reqs :
                /\ db'.reqs[p].kind = db.reqs[p].kind /\ (db'.reqs[p].open <=> db.reqs[p].open)
                /\ p # q => db'.reqs[p].sent = db.reqs[p].sent
      BY <1>2, <1>3, <3>1, <3>2, SentRows
    <3> QED BY <3>1, <3>3
  <2>2. /\ ans' \in [Caller -> [step : AnswerStep, q : 0..MaxRows, no : BOOLEAN]]
        /\ ans'[c].step = "marked" /\ ans'[c].q = q
        /\ \A d \in Caller : d # c => ans'[d] = ans[d]
    BY <1>4, AnswerTypes DEF AnswerStep
  <2> HIDE DEF q
  <2>3. SentNow' = SentNow \cup {q} /\ q \notin SentNow /\ OpenNow' = OpenNow /\ q \in OpenNow
    BY <1>2, <1>4, <2>1 DEF SentNow, OpenNow
  <2>4. TypeOK'
    <3>1. db'.runs \in Seq(RunRow) /\ db'.reqs \in Seq(ReqRow)
      BY <2>1 DEF Good, Db
    <3> QED BY <1>1, <1>2, <1>4, <2>2, <3>1 DEF IInv, TypeOK, RunRow, ReqRow
  <2>5. AnswersAreScoped'
    BY <1>2, <1>4, <2>1, OtherAnswers DEF AnswerStep
  <2>6. GrantsAreScoped'
    <3> SUFFICES ASSUME NEW g \in grants'
                 PROVE  /\ g[1] \in DOMAIN db'.reqs
                        /\ db'.reqs[g[1]].kind = "approval" => g[2] \in Approver
      BY DEF GrantsAreScoped
    <3>1. CASE g \in grants
      BY <2>1, <3>1 DEF IInv, GrantsAreScoped
    <3>2. CASE g = <<q, c>>
      BY <1>2, <1>4, <2>1, <3>2
    <3> QED BY <1>4, <3>1, <3>2
  <2>7. OnePlace'
    <3>1. \A d \in Caller : d # c => (Marked(d)' <=> Marked(d))
      BY <2>2 DEF Marked
    <3>2. \A d \in Caller : Marked(d) => ans[d].q # q
      BY <2>3 DEF IInv, OnePlace
    <3>3. q \notin OnItsWay \cup Typed
      BY <2>3 DEF IInv, OnePlace
    <3>4. \A j, k \in DOMAIN keys' : keys'[j] = keys'[k] => j = k
      BY <1>1 DEF IInv, OnePlace
    <3>5. OnItsWay' \cup Typed' \subseteq SentNow' /\ OnItsWay' \cap Typed' = {}
      BY <1>3, <2>3 DEF IInv, OnePlace
    <3>6. \A d \in Caller : Marked(d)' => ans'[d].q \in SentNow' \ (OnItsWay' \cup Typed')
      BY <1>3, <2>2, <2>3, <3>1, <3>3 DEF IInv, OnePlace
    <3>7. \A d, e \in Caller : Marked(d)' /\ Marked(e)' /\ ans'[d].q = ans'[e].q => d = e
      BY <2>2, <3>1, <3>2 DEF IInv, OnePlace
    <3> QED BY <3>4, <3>5, <3>6, <3>7 DEF OnePlace
  <2>8. Promise!Claim(q)
    BY <1>1, <2>1, <2>3 DEF Promise!Claim
  <2>9. started' <= Len(db'.runs)
    BY <1>1, <2>1 DEF IInv
  <2>10. Len(db'.reqs) <= MaxRows
    BY <2>1 DEF IInv
  <2> QED
    BY <1>2, <2>1, <2>4, <2>5, <2>6, <2>7, <2>8, <2>9, <2>10 DEF IInv, Good, Promise!Next
<1>5. CASE Move(c, "idle") /\ UNCHANGED <<db, grants>>
  <2>1. HandlerRows
    BY <1>5, SameRows
  <2>2. /\ ans' \in [Caller -> [step : AnswerStep, q : 0..MaxRows, no : BOOLEAN]]
        /\ \A d \in Caller : ans'[d] = ans[d] \/ ans'[d] = NoAnswer
    BY <1>5, AnswerTypes DEF Move, AnswerStep, IInv, TypeOK
  <2>3. /\ terminal' \in {"absent", "there", "closed"} /\ linked' \in BOOLEAN
        /\ start' \in {"none", "creating", "looked"}
        /\ started' \in 0..MaxRows /\ started' <= Len(db'.runs)
    BY <1>1, <1>5 DEF IInv, TypeOK
  <2> QED BY <1>1, <1>5, <2>1, <2>2, <2>3, RowsInv, RowsPromise
<1> QED BY <1>4, <1>5 DEF mark_answer_sent

(* A claimed answer is sent, or given back. *)
LEMMA SendInv ==
    ASSUME IInv, NEW c \in Caller, SendAnswer(c)
    PROVE  IInv' /\ (Promise!Next \/ UNCHANGED Promise!vars)
<1> DEFINE q == ans[c].q
<1>1. UNCHANGED <<typed, grants, terminal, linked, start, started>>
  BY DEF SendAnswer, AnswerFrame
<1>2. q \in DOMAIN db.reqs /\ q \in 1..MaxRows /\ ans[c].step = "marked" /\ Marked(c)
  BY RequestDomain DEF SendAnswer, IInv, AnswersAreScoped, Marked
<1>3. Good(db) /\ Typed' = Typed
  BY <1>1 DEF IInv, Good, Typed
<1>4. q \in SentNow /\ q \notin OnItsWay \cup Typed
  BY <1>2 DEF IInv, OnePlace
<1>5. CASE keys' = Append(keys, q) /\ Move(c, "sent") /\ UNCHANGED db
  <2>1. /\ ans' \in [Caller -> [step : AnswerStep, q : 0..MaxRows, no : BOOLEAN]]
        /\ ans'[c].step = "sent"
        /\ \A d \in Caller : d # c => ans'[d] = ans[d]
    BY <1>5, AnswerTypes DEF AnswerStep
  <2>2. AnswersAreScoped'
    BY <1>2, <1>5, OtherAnswers DEF AnswerStep
  <2> HIDE DEF q
  <2>3. keys \in Seq(1..MaxRows)
    BY DEF IInv, TypeOK
  <2>4. /\ keys' \in Seq(1..MaxRows) /\ DOMAIN keys' = DOMAIN keys \cup {Len(keys) + 1}
        /\ \A j \in DOMAIN keys : keys'[j] = keys[j]
        /\ keys'[Len(keys) + 1] = q /\ Len(keys) + 1 \notin DOMAIN keys
    BY <1>2, <1>5, <2>3, AppendSeq
  <2>5. TypeOK'
    BY <1>1, <1>5, <2>1, <2>4 DEF IInv, TypeOK
  <2>6. OnItsWay' = OnItsWay \cup {q} /\ SentNow' = SentNow
    BY <1>5, <2>4 DEF OnItsWay, SentNow
  <2>7. \A j, k \in DOMAIN keys' : keys'[j] = keys'[k] => j = k
    <3>1. \A j \in DOMAIN keys : keys[j] # q
      BY <1>4 DEF OnItsWay
    <3> QED BY <2>4, <3>1 DEF IInv, OnePlace
  <2>8. \A d \in Caller : Marked(d)' => Marked(d) /\ d # c /\ ans'[d] = ans[d]
    BY <2>1 DEF Marked
  <2>9. \A d \in Caller : Marked(d) /\ d # c => ans[d].q # q
    BY <1>2 DEF IInv, OnePlace, q
  <2>10. OnePlace'
    BY <1>3, <1>4, <2>6, <2>7, <2>8, <2>9 DEF IInv, OnePlace
  <2>11. UNCHANGED Promise!vars
    BY <1>1, <1>5, <2>6 DEF Promise!vars, OpenNow
  <2> QED BY <1>1, <1>5, <2>2, <2>5, <2>10, <2>11 DEF IInv, GrantsAreScoped
<1>6. CASE db' = [db EXCEPT !.reqs[q].sent = FALSE] /\ Move(c, "idle") /\ UNCHANGED keys
  <2>1. /\ Good(db') /\ db'.runs = db.runs /\ DOMAIN db'.reqs = DOMAIN db.reqs
        /\ Len(db'.reqs) = Len(db.reqs) /\ ~db'.reqs[q].sent
        /\ \A p \in DOMAIN db.reqs :
              /\ db'.reqs[p].kind = db.reqs[p].kind /\ (db'.reqs[p].open <=> db.reqs[p].open)
              /\ p # q => db'.reqs[p].sent = db.reqs[p].sent
    <3> DEFINE row == [db.reqs[q] EXCEPT !.sent = FALSE]
    <3>1. /\ row \in ReqRow /\ row.run = db.reqs[q].run /\ row.kind = db.reqs[q].kind
          /\ row.open <=> db.reqs[q].open
          /\ ~row.sent
      BY <1>2, RequestDomain DEF ReqRow
    <3>2. db' = [db EXCEPT !.reqs = [db.reqs EXCEPT ![q] = row]]
      BY <1>6 DEF IInv, Db
    <3> HIDE DEF q, row
    <3>3. /\ Good(db') /\ db'.runs = db.runs /\ DOMAIN db'.reqs = DOMAIN db.reqs
          /\ Len(db'.reqs) = Len(db.reqs) /\ db'.reqs[q] = row
          /\ \A p \in DOMAIN db.reqs :
                /\ db'.reqs[p].kind = db.reqs[p].kind /\ (db'.reqs[p].open <=> db.reqs[p].open)
                /\ p # q => db'.reqs[p].sent = db.reqs[p].sent
      BY <1>2, <1>3, <3>1, <3>2, SentRows
    <3> QED BY <3>1, <3>3
  <2>2. /\ ans' \in [Caller -> [step : AnswerStep, q : 0..MaxRows, no : BOOLEAN]]
        /\ ans'[c].step = "idle"
        /\ \A d \in Caller : d # c => ans'[d] = ans[d]
    BY <1>6, AnswerTypes DEF AnswerStep
  <2>3. AnswersAreScoped'
    BY <1>2, <1>6, <2>1, OtherAnswers DEF AnswerStep
  <2> HIDE DEF q
  <2>4. SentNow' = SentNow \ {q} /\ OpenNow' = OpenNow
    BY <1>2, <2>1 DEF SentNow, OpenNow
  <2>5. TypeOK'
    <3>1. db'.runs \in Seq(RunRow) /\ db'.reqs \in Seq(ReqRow)
      BY <2>1 DEF Good, Db
    <3> QED BY <1>1, <1>6, <2>2, <3>1 DEF IInv, TypeOK, RunRow, ReqRow
  <2>6. GrantsAreScoped'
    BY <1>1, <2>1 DEF IInv, GrantsAreScoped
  <2>7. OnePlace'
    <3>1. \A d \in Caller : Marked(d)' => Marked(d) /\ d # c /\ ans'[d] = ans[d]
      BY <2>2 DEF Marked
    <3>2. \A d \in Caller : Marked(d) /\ d # c => ans[d].q # q
      BY <1>2 DEF IInv, OnePlace, q
    <3>3. OnItsWay' = OnItsWay
      BY <1>6 DEF OnItsWay
    <3>4. \A j, k \in DOMAIN keys' : keys'[j] = keys'[k] => j = k
      BY <1>6 DEF IInv, OnePlace
    <3>5. OnItsWay' \cup Typed' \subseteq SentNow' /\ OnItsWay' \cap Typed' = {}
      BY <1>3, <1>4, <2>4, <3>3 DEF IInv, OnePlace
    <3> QED BY <1>3, <2>4, <3>1, <3>2, <3>3, <3>4, <3>5 DEF IInv, OnePlace
  <2>8. Promise!GiveBack(q)
    BY <1>1, <1>4, <2>1, <2>4 DEF Promise!GiveBack, Promise!Typed, Typed
  <2>9. started' <= Len(db'.runs) /\ Len(db'.reqs) <= MaxRows
    BY <1>1, <2>1 DEF IInv
  <2> QED BY <1>2, <2>1, <2>3, <2>5, <2>6, <2>7, <2>8, <2>9 DEF IInv, Good, Promise!Next
<1> QED BY <1>5, <1>6 DEF SendAnswer

(* The node types an answer that reached it, or drops it. *)
LEMMA TypeInv ==
    ASSUME IInv, NEW k \in DOMAIN keys, SendAgentKeys(k)
    PROVE  IInv' /\ (Promise!Next \/ UNCHANGED Promise!vars)
<1> DEFINE q == keys[k]
<1>1. UNCHANGED <<db, terminal, linked, ans, start, started, grants>>
  BY DEF SendAgentKeys, hub
<1>2. keys \in Seq(1..MaxRows) /\ typed \in Seq(1..MaxRows) /\ q \in 1..MaxRows
  BY SeqDomain DEF IInv, TypeOK
<1>3. /\ RemoveAt(keys, k) \in Seq(1..MaxRows) /\ Len(RemoveAt(keys, k)) = Len(keys) - 1
      /\ \A i \in DOMAIN RemoveAt(keys, k) :
            RemoveAt(keys, k)[i] = IF i < k THEN keys[i] ELSE keys[i + 1]
  BY <1>2, RemoveAtSeq
<1>4. /\ DOMAIN keys = 1..Len(keys) /\ Len(keys) \in Nat
      /\ DOMAIN RemoveAt(keys, k) = 1..(Len(keys) - 1)
  BY <1>2, <1>3, SeqDomain
<1>5. keys' = RemoveAt(keys, k)
  BY DEF SendAgentKeys
<1>6. \A i \in DOMAIN keys' :
        \E j \in DOMAIN keys : /\ j # k /\ keys'[i] = keys[j]
                               /\ (j = i /\ i < k) \/ (j = i + 1 /\ i >= k)
  <2> TAKE i \in DOMAIN keys'
  <2>1. i \in Nat /\ k \in Nat /\ i \in DOMAIN keys /\ i + 1 \in DOMAIN keys
    BY <1>4, <1>5
  <2>2. CASE i < k
    <3>1. keys'[i] = keys[i] /\ i # k
      BY <1>3, <1>5, <2>1, <2>2
    <3> QED BY <2>1, <2>2, <3>1
  <2>3. CASE i >= k
    <3>1. keys'[i] = keys[i + 1] /\ i + 1 # k
      BY <1>3, <1>5, <2>1, <2>3
    <3> QED BY <2>1, <2>3, <3>1
  <2> QED BY <2>1, <2>2, <2>3
<1>7. q \in OnItsWay /\ OnItsWay' \subseteq OnItsWay \ {q}
  <2>1. \A j \in DOMAIN keys : j # k => keys[j] # q
    BY DEF IInv, OnePlace
  <2> QED BY <1>6, <2>1 DEF OnItsWay
<1>8. \A i, j \in DOMAIN keys' : keys'[i] = keys'[j] => i = j
  <2> TAKE i, j \in DOMAIN keys'
  <2> HAVE keys'[i] = keys'[j]
  <2>1. PICK a \in DOMAIN keys : /\ keys'[i] = keys[a]
                                 /\ (a = i /\ i < k) \/ (a = i + 1 /\ i >= k)
    BY <1>6
  <2>2. PICK b \in DOMAIN keys : /\ keys'[j] = keys[b]
                                 /\ (b = j /\ j < k) \/ (b = j + 1 /\ j >= k)
    BY <1>6
  <2>3. a = b
    BY <2>1, <2>2 DEF IInv, OnePlace
  <2>4. i \in Nat /\ j \in Nat /\ k \in Nat
    BY <1>4, <1>5
  <2> QED BY <2>1, <2>2, <2>3, <2>4
<1>9. SentNow' = SentNow /\ OpenNow' = OpenNow
  BY <1>1 DEF SentNow, OpenNow
<1> HIDE DEF q
<1>10. /\ typed' \in Seq(1..MaxRows)
       /\ \/ typed' = typed /\ Typed' = Typed
          \/ typed' = Append(typed, q) /\ Typed' = Typed \cup {q}
  <2>1. CASE typed' = typed
    BY <1>2, <2>1 DEF Typed
  <2>2. CASE typed' = Append(typed, q)
    <3>1. /\ typed' \in Seq(1..MaxRows) /\ DOMAIN typed' = DOMAIN typed \cup {Len(typed) + 1}
          /\ \A j \in DOMAIN typed : typed'[j] = typed[j]
          /\ typed'[Len(typed) + 1] = q /\ Len(typed) + 1 \notin DOMAIN typed
      BY <1>2, <2>2, AppendSeq
    <3> QED BY <2>2, <3>1 DEF Typed
  <2> QED BY <2>1, <2>2 DEF SendAgentKeys, q
<1>11. TypeOK'
  BY <1>1, <1>3, <1>5, <1>10 DEF IInv, TypeOK
<1>12. OnePlace'
  <2>1. \A d \in Caller : Marked(d)' <=> Marked(d)
    BY <1>1 DEF Marked
  <2>2. OnItsWay' \cup Typed' \subseteq OnItsWay \cup Typed /\ OnItsWay' \cap Typed' = {}
    BY <1>7, <1>10 DEF IInv, OnePlace
  <2> QED BY <1>1, <1>8, <1>9, <2>1, <2>2 DEF IInv, OnePlace
<1>13. IInv'
  BY <1>1, <1>11, <1>12 DEF IInv, AnswersAreScoped, GrantsAreScoped
<1>14. q \in SentNow \ Typed
  BY <1>7 DEF IInv, OnePlace
<1>15. Promise!Next \/ UNCHANGED Promise!vars
  <2>1. CASE typed' = typed
    BY <1>1, <1>9, <2>1 DEF Promise!vars
  <2>2. CASE typed' = Append(typed, q)
    <3>1. Promise!Type(q)
      BY <1>1, <1>9, <1>14, <2>2 DEF Promise!Type, Promise!Typed, Typed
    <3> QED BY <1>2, <3>1 DEF Promise!Next
  <2> QED BY <1>10, <2>1, <2>2
<1> QED BY <1>13, <1>15

-----------------------------------------------------------------------------
LEMMA InitInv == ASSUME Init PROVE IInv /\ Promise!Init
<1>1. /\ db.runs = <<>> /\ db.reqs = <<>> /\ db \in Db
      /\ DOMAIN db.runs = {} /\ DOMAIN db.reqs = {} /\ Len(db.reqs) = 0 /\ Len(db.runs) = 0
  BY NoKeys, EmptySeq DEF Init, Db
<1>2. NoAnswer \in [step : AnswerStep, q : 0..MaxRows, no : BOOLEAN]
  BY BoundAssumption DEF NoAnswer, AnswerStep
<1>3. TypeOK
  BY <1>1, <1>2, NoKeys, BoundAssumption DEF Init, TypeOK
<1>4. Rows(db) /\ AnswersAreScoped /\ GrantsAreScoped
  BY <1>1 DEF Init, Rows, AnswersAreScoped, GrantsAreScoped, NoAnswer
<1>5. SentNow = {} /\ OpenNow = {} /\ OnItsWay = {} /\ Typed = {}
  BY <1>1, NoKeys DEF Init, SentNow, OpenNow, OnItsWay, Typed
<1>6. OnePlace
  BY <1>5, NoKeys DEF Init, OnePlace, Marked, NoAnswer
<1>7. Len(db.reqs) <= MaxRows /\ started <= Len(db.runs)
  BY <1>1, BoundAssumption DEF Init
<1>8. Promise!Init
  BY <1>1, <1>5 DEF Init, Promise!Init
<1> QED BY <1>1, <1>3, <1>4, <1>6, <1>7, <1>8 DEF IInv

LEMMA StepInv ==
    IInv /\ [Next]_vars => IInv' /\ [Promise!Next]_Promise!vars
<1> SUFFICES ASSUME IInv, [Next]_vars
             PROVE  IInv' /\ (Promise!Next \/ UNCHANGED Promise!vars)
  OBVIOUS
<1> QED BY HandlerInv, LookInv, ClaimInv, SendInv, TypeInv DEF Next

LEMMA SpecInv == Spec => []IInv
<1>1. Init => IInv
  BY InitInv
<1>2. IInv /\ [Next]_vars => IInv'
  BY StepInv
<1> QED BY <1>1, <1>2, PTL DEF Spec

(* Every variable keeps its type. *)
THEOREM RunTypes == Spec => []TypeOK
<1>1. IInv => TypeOK
  BY DEF IInv
<1> QED BY <1>1, SpecInv, PTL

(* The status of a run agrees with its requests, and an approval is        *)
(* answered by an approver only, whatever happens between reading its kind *)
(* and claiming its answer.                                                *)
THEOREM RunsSound == Spec => []RunsAreSound
<1>1. IInv => RequestsMatchStatus
  <2> SUFFICES ASSUME IInv, NEW i \in DOMAIN db.runs
               PROVE  \/ /\ db.runs[i].status = "waiting"
                         /\ \E q \in DOMAIN db.reqs : open_request(db, i) = {q}
                      \/ db.runs[i].status # "waiting" /\ open_request(db, i) = {}
    BY DEF RequestsMatchStatus
  <2>1. CASE db.runs[i].status = "waiting"
    <3>1. PICK q \in DOMAIN db.reqs : db.reqs[q].open /\ db.reqs[q].run = i
      BY <2>1 DEF IInv, Rows
    <3>2. open_request(db, i) = {q}
      BY <3>1 DEF IInv, Rows, open_request
    <3> QED BY <2>1, <3>2
  <2>2. CASE db.runs[i].status # "waiting"
    BY <2>2 DEF IInv, Rows, open_request
  <2> QED BY <2>1, <2>2
<1>2. IInv => ApprovalsAreScoped
  BY DEF IInv, GrantsAreScoped, ApprovalsAreScoped
<1> QED BY <1>1, <1>2, SpecInv, PTL DEF RunsAreSound

(* The hub implements AnswerOnce: a request's answer is typed at most      *)
(* once, after it was claimed while the request was open.                  *)
THEOREM AnsweredOnce == Spec => AnswersOnce
<1>1. Init => Promise!Init
  BY InitInv
<1>2. IInv /\ [Next]_vars => [Promise!Next]_Promise!vars
  BY StepInv
<1> QED BY <1>1, <1>2, SpecInv, PTL DEF Spec, AnswersOnce, Promise!Spec
-----------------------------------------------------------------------------
(* What webhooks and bridges are told of a run: from here on the names are *)
(* those of Integrations.                                                  *)

(* A row that is still for the bridge, and one of a run it has not stored. *)
Pending(k) == outbox[k].to = "bridge" /\ outbox[k].state = "waiting"
Unseen(k) == Pending(k) /\ outbox[k].about # NoRun /\ k \notin got

(* The run as it is described: so far, or once the rows at hand are in. *)
Described == {said} \cup {rows_todo[i].about : i \in DOMAIN rows_todo}
Recent == Described \cup {updates[i] : i \in DOMAIN updates}

(* The variables keep their types, and calls of sync are bounded: one for  *)
(* the new bridge, one for each fault.                                     *)
OutboxTypes ==
    /\ OutboxTypeOK
    /\ changes_left \in 0..MaxRunChanges /\ faults_left \in 0..MaxFaults
    /\ syncing + faults_left <= MaxFaults + (IF enabled = "none" THEN 0 ELSE 1)

(* What a connection has sent is stored, and nothing is stored before what *)
(* was to go out earlier.                                                  *)
RowsGoInOrder ==
    /\ \A c \in Conn : conn[c].last_sent <= Len(outbox)
    /\ \A c \in Conn, k \in DOMAIN outbox :
          Pending(k) /\ k <= conn[c].last_sent => k \in got
    /\ \A j, k \in DOMAIN outbox :
          j < k /\ outbox[k].to = "bridge" /\ k \in got /\ Pending(j) => j \in got
    /\ DeliveredMeansReceived

(* Only the task the map knows serves the bridge, only while it is on, and *)
(* a command that ran is saved, about to be, or gone with the bridge.      *)
OneTaskServes ==
    /\ \A c \in Conn : conn[c].command # "none" => conn[c].state = "up"
    /\ ~doubled =>
          /\ \A c \in Conn : conn[c].state # "none" => c = bridge_handle
          /\ \A c \in Conn : conn[c].state = "up" => enabled = "on"
          /\ \A c \in Conn : conn[c].command = "checked" => command.runs = 0
          /\ command.runs <= 1
          /\ command.runs = 1 => \/ command.saved \/ enabled = "gone"
                                 \/ \E c \in Conn : conn[c].command = "ran"

(* The rows at hand are of one run, and the last of them is the bridge's.  *)
RowsAtHand ==
    /\ worker = "idle" <=> rows_todo = <<>>
    /\ \A i \in DOMAIN rows_todo :
          /\ rows_todo[i].about = rows_todo[1].about /\ rows_todo[i].about # NoRun
          /\ rows_todo[i].state = "waiting"
    /\ ~lost /\ rows_todo # <<>> => rows_todo[Len(rows_todo)].to = "bridge"

(* What the database holds is the last update, or was described already. *)
NewestIsUnderWay ==
    ~lost => IF updates # <<>> THEN run = updates[Len(updates)]
             ELSE IF rows_todo # <<>> THEN run = rows_todo[1].about
             ELSE run = said

(* The last row that the bridge has still to get describes the run. *)
LastRowDescribes ==
    ~lost => \A k \in DOMAIN outbox :
                Unseen(k) /\ (\A j \in DOMAIN outbox : Unseen(j) => j <= k)
                    => outbox[k].about \in Described

(* A bridge that has every row shows no run older than the described one. *)
ViewIsRecent ==
    ~lost /\ ~doubled =>
        \A c \in Conn :
            conn[c].state = "up" /\ (\A k \in DOMAIN outbox : ~Unseen(k))
                => view \in Recent

OutboxInv ==
    OutboxTypes /\ RowsGoInOrder /\ OneTaskServes /\ RowsAtHand /\ NewestIsUnderWay
    /\ LastRowDescribes /\ ViewIsRecent

(* A sequence with one more element, and one without its first. *)
LEMMA OutboxAppend ==
  ASSUME NEW S, NEW s \in Seq(S), NEW e \in S
  PROVE  /\ Append(s, e) \in Seq(S) /\ Append(s, e) # <<>>
         /\ Len(Append(s, e)) = Len(s) + 1
         /\ DOMAIN Append(s, e) = 1..(Len(s) + 1)
         /\ \A i \in 1..Len(s) : Append(s, e)[i] = s[i]
         /\ Append(s, e)[Len(s) + 1] = e
OBVIOUS

LEMMA OutboxTail ==
  ASSUME NEW S, NEW s \in Seq(S), s # <<>>
  PROVE  /\ Len(s) \in Nat \ {0} /\ s[1] \in S /\ Head(s) = s[1] /\ s[Len(s)] \in S
         /\ Tail(s) \in Seq(S) /\ Len(Tail(s)) = Len(s) - 1
         /\ DOMAIN Tail(s) = 1..(Len(s) - 1)
         /\ \A i \in 1..(Len(s) - 1) : Tail(s)[i] = s[i + 1]
         /\ (Tail(s) = <<>> <=> Len(s) = 1)
<1>1. /\ Len(s) \in Nat \ {0} /\ s[1] \in S /\ Head(s) = s[1] /\ s[Len(s)] \in S
      /\ Tail(s) \in Seq(S) /\ Len(Tail(s)) = Len(s) - 1
      /\ DOMAIN Tail(s) = 1..(Len(s) - 1)
      /\ \A i \in 1..(Len(s) - 1) : Tail(s)[i] = s[i + 1]
  OBVIOUS
<1> QED BY <1>1, EmptySeq

LEMMA OutboxDomain ==
  ASSUME NEW S, NEW s \in Seq(S)
  PROVE  /\ Len(s) \in Nat /\ DOMAIN s = 1..Len(s) /\ (s = <<>> <=> Len(s) = 0)
         /\ \A i \in 1..Len(s) : s[i] \in S
BY EmptySeq

(* What a run may tell its receivers. *)
RunEvents ==
    {"run.started", "run.request", "run.request_resolved", "run.status", "run.ended"}

LEMMA OneEvent == ASSUME NEW S, NEW e \in S PROVE <<e>> \in Seq(S) /\ Len(<<e>>) = 1
OBVIOUS

(* A run that says nothing new is the one described before (run_changes).  *)
LEMMA NoNewsNoChange ==
  ASSUME NEW p \in Runs \cup {NoRun}, NEW n \in Runs
  PROVE  /\ run_changes(p, n) \in Seq(RunEvents)
         /\ run_changes(p, n) = <<>> => p = n
<1> DEFINE new_request == n.request # 0 /\ n.request # p.request
           resolved == p.request # 0 /\ n.request = 0
           ended == n.status = "ended"
<1>1. n \in [status : {"working", "waiting", "ended"}, request : 0..MaxRunChanges]
  BY DEF Runs
<1>2. <<>> \in Seq(RunEvents) /\ Len(<<>>) = 0
  BY EmptySeq
<1>e. \A e \in RunEvents : <<e>> \in Seq(RunEvents) /\ Len(<<e>>) = 1
  BY OneEvent
<1>3. CASE p = NoRun
  <2> DEFINE S == <<"run.started">>
             A == IF n.request # 0 THEN <<"run.request">> ELSE <<>>
             D == IF ended THEN <<"run.ended">> ELSE <<>>
  <2>1. run_changes(p, n) = S \o A \o D
    BY <1>3 DEF run_changes
  <2>2. S \in Seq(RunEvents) /\ Len(S) = 1 /\ A \in Seq(RunEvents) /\ D \in Seq(RunEvents)
    BY <1>e, <1>2 DEF RunEvents
  <2> HIDE DEF S, A, D
  <2>3. run_changes(p, n) \in Seq(RunEvents) /\ Len(run_changes(p, n)) > 0
    BY <2>1, <2>2, ConcatProperties, LenProperties
  <2> QED BY <2>3, <1>2
<1>4. CASE p # NoRun
  <2> DEFINE A == IF new_request THEN <<"run.request">> ELSE <<>>
             B == IF resolved THEN <<"run.request_resolved">> ELSE <<>>
             C == IF n.status # p.status /\ ~new_request /\ ~ended THEN <<"run.status">>
                  ELSE <<>>
             D == IF ended /\ p.status # "ended" THEN <<"run.ended">> ELSE <<>>
  <2>1. run_changes(p, n) = A \o B \o C \o D
    BY <1>4 DEF run_changes
  <2>2. /\ A \in Seq(RunEvents) /\ B \in Seq(RunEvents)
        /\ C \in Seq(RunEvents) /\ D \in Seq(RunEvents)
        /\ new_request => Len(A) = 1
        /\ resolved => Len(B) = 1
        /\ n.status # p.status /\ ~new_request /\ ~ended => Len(C) = 1
        /\ ended /\ p.status # "ended" => Len(D) = 1
    BY <1>e, <1>2 DEF RunEvents
  <2> HIDE DEF A, B, C, D
  <2>3. /\ run_changes(p, n) \in Seq(RunEvents)
        /\ Len(run_changes(p, n)) = Len(A) + Len(B) + Len(C) + Len(D)
        /\ Len(A) \in Nat /\ Len(B) \in Nat /\ Len(C) \in Nat /\ Len(D) \in Nat
    BY <2>1, <2>2, ConcatProperties, LenProperties
  <2>4. ASSUME Len(run_changes(p, n)) = 0 PROVE p = n
    <3>4. Len(A) = 0 /\ Len(B) = 0 /\ Len(C) = 0 /\ Len(D) = 0
      <4>1. \A a, b, c, d \in Nat : 0 = a + b + c + d => a = 0 /\ b = 0 /\ c = 0 /\ d = 0
        OBVIOUS
      <4>2. 0 = Len(A) + Len(B) + Len(C) + Len(D)
        BY <2>3, <2>4
      <4> QED BY <2>3, <4>1, <4>2
    <3>1. ~new_request /\ ~resolved /\ ~(ended /\ p.status # "ended")
          /\ ~(n.status # p.status /\ ~new_request /\ ~ended)
      <4>1. 1 # 0
        OBVIOUS
      <4>2. ~new_request
        BY <2>2, <3>4, <4>1
      <4>3. ~resolved
        BY <2>2, <3>4, <4>1
      <4>4. ~(ended /\ p.status # "ended")
        BY <2>2, <3>4, <4>1
      <4>5. ~(n.status # p.status /\ ~new_request /\ ~ended)
        BY <2>2, <3>4, <4>1
      <4> QED BY <4>2, <4>3, <4>4, <4>5
    <3>2. p \in [status : {"working", "waiting", "ended"}, request : 0..MaxRunChanges]
      BY <1>4 DEF Runs
    <3>3. n.request = p.request /\ n.status = p.status
      BY <3>1
    <3> QED BY <3>2, <3>3, <1>1
  <2> QED BY <2>3, <2>4, <1>2
<1> QED BY <1>3, <1>4

(* What an update calls for: rows of one run that wait, the bridge's last. *)
LEMMA RowsAreOfOneRun ==
  ASSUME NEW n \in Runs, said \in Runs \cup {NoRun}
  PROVE  /\ RowsFor(n) \in Seq(Row)
         /\ \A i \in DOMAIN RowsFor(n) : RowsFor(n)[i].about = n
                                         /\ RowsFor(n)[i].state = "waiting"
         /\ enabled = "on" /\ RowsFor(n) # <<>> =>
               RowsFor(n)[Len(RowsFor(n))].to = "bridge"
         /\ enabled = "on" /\ RowsFor(n) = <<>> => run_changes(said, n) = <<>>
<1> DEFINE news == run_changes(said, n)
           wanted == {i \in 1..Len(news) : Picked = {} \/ news[i] \in Picked}
           Copies(to, m) == [k \in 1..m |-> NewRow(to, n)]
           W == Copies("webhook", Cardinality(wanted))
           B == IF enabled = "on" THEN Copies("bridge", Len(news)) ELSE <<>>
<1>1. news \in Seq(RunEvents) /\ Len(news) \in Nat
  BY NoNewsNoChange
<1>2. Cardinality(wanted) \in Nat
  <2>1. IsFiniteSet(1..Len(news))
    BY <1>1, FS_Interval
  <2>2. Cardinality(wanted) <= Cardinality(1..Len(news)) /\ IsFiniteSet(wanted)
    BY <2>1, FS_Subset
  <2> QED BY <2>2, FS_CardinalityType
<1>3. RowsFor(n) = W \o B
  BY DEF RowsFor
<1>4. ASSUME NEW to \in {"bridge", "webhook"}
      PROVE  NewRow(to, n) \in Row /\ NewRow(to, n).about = n
             /\ NewRow(to, n).state = "waiting" /\ NewRow(to, n).to = to
  BY DEF NewRow, Row
<1>5. ASSUME NEW to \in {"bridge", "webhook"}, NEW m \in Nat
      PROVE  /\ Copies(to, m) \in Seq(Row) /\ Len(Copies(to, m)) = m
             /\ \A i \in 1..m : /\ Copies(to, m)[i].about = n /\ Copies(to, m)[i].to = to
                                /\ Copies(to, m)[i].state = "waiting"
  <2> HIDE DEF Copies
  <2>1. Copies(to, m) = [k \in 1..m |-> NewRow(to, n)]
    BY DEF Copies
  <2> QED BY <2>1, <1>4
<1>6. /\ W \in Seq(Row)
      /\ \A i \in 1..Len(W) : W[i].about = n /\ W[i].state = "waiting"
  <2> HIDE DEF Copies
  <2> QED BY <1>2, <1>5
<1>7. /\ B \in Seq(Row)
      /\ \A i \in 1..Len(B) : B[i].about = n /\ B[i].state = "waiting" /\ B[i].to = "bridge"
      /\ enabled = "on" => Len(B) = Len(news)
  <2> HIDE DEF Copies, news
  <2> QED BY <1>1, <1>5, EmptySeq
<1>8. enabled = "on" /\ Len(B) = 0 => Len(W) = 0
  <2> SUFFICES ASSUME Len(news) = 0 PROVE Cardinality(wanted) = 0
    BY <1>7, <1>5, <1>2
  <2>1. wanted = {}
    OBVIOUS
  <2> HIDE DEF wanted
  <2> QED BY <2>1, FS_EmptySet
<1> HIDE DEF W, B
<1>9. /\ W \o B \in Seq(Row) /\ Len(W \o B) = Len(W) + Len(B)
      /\ \A i \in 1..Len(W \o B) : (W \o B)[i] = IF i <= Len(W) THEN W[i] ELSE B[i - Len(W)]
  BY <1>6, <1>7
<1>10. \A i \in 1..Len(W \o B) : (W \o B)[i].about = n /\ (W \o B)[i].state = "waiting"
  BY <1>6, <1>7, <1>9
<1>11. ASSUME enabled = "on", W \o B # <<>> PROVE (W \o B)[Len(W \o B)].to = "bridge"
  <2>1. Len(B) > 0
    BY <1>6, <1>7, <1>8, <1>9, <1>11
  <2> QED BY <2>1, <1>6, <1>7, <1>9
<1>12. ASSUME enabled = "on", W \o B = <<>> PROVE news = <<>>
  <2>1. Len(news) = 0
    BY <1>6, <1>7, <1>9, <1>12
  <2> QED BY <2>1, <1>1
<1> HIDE DEF news
<1> QED BY <1>3, <1>9, <1>10, <1>11, <1>12 DEF news

(* An update that says nothing calls for no row. *)
LEMMA NoNewsNoRows ==
  ASSUME NEW n \in Runs, run_changes(said, n) = <<>>, enabled # "on"
  PROVE  RowsFor(n) = <<>>
<1> DEFINE wanted == {i \in 1..Len(run_changes(said, n)) :
                        Picked = {} \/ run_changes(said, n)[i] \in Picked}
           W == [k \in 1..Cardinality(wanted) |-> NewRow("webhook", n)]
<1>1. RowsFor(n) = W \o <<>>
  BY DEF RowsFor
<1>2. wanted = {}
  BY EmptySeq
<1>3. Cardinality(wanted) = 0
  BY <1>2, FS_EmptySet
<1>4. W = <<>>
  BY <1>3
<1>5. \A S : <<>> \in Seq(S)
  BY EmptySeq
<1> QED BY <1>1, <1>4, ConcatEmptySeq, <1>5

LEMMA OutboxStarts == ASSUME OutboxInit PROVE OutboxInv
<1>1. /\ run \in Runs /\ updates \in Seq(Runs) /\ Len(updates) = 1 /\ updates[1] = run
  <2>1. run \in Runs
    BY OutboxAssumption DEF OutboxInit, Runs
  <2> QED BY <2>1 DEF OutboxInit
<1>2. rows_todo = <<>> /\ outbox = <<>> /\ rows_todo \in Seq(Row) /\ outbox \in Seq(Row)
      /\ DOMAIN outbox = {} /\ DOMAIN rows_todo = {} /\ Len(outbox) = 0
  BY EmptySeq DEF OutboxInit
<1>3. conn \in [Conn -> [state : {"none", "connecting", "up"}, last_sent : Nat,
                         command : {"none", "checked", "ran"}]]
      /\ \A c \in Conn : conn[c] = NoLink
  <2>1. NoLink \in [state : {"none", "connecting", "up"}, last_sent : Nat,
                    command : {"none", "checked", "ran"}]
    BY DEF NoLink
  <2>2. conn = [c \in Conn |-> NoLink]
    BY DEF OutboxInit
  <2> QED BY <2>1, <2>2
<1>4. OutboxTypes
  <2>1. /\ worker = "idle" /\ said = NoRun /\ enabled = "none" /\ syncing = 0
        /\ bridge_handle = NoConn /\ got = {} /\ view = NoRun
        /\ command = [wanted |-> TRUE, runs |-> 0, saved |-> FALSE]
        /\ changes_left = MaxRunChanges /\ faults_left = MaxFaults
        /\ lost = FALSE /\ doubled = FALSE
    BY DEF OutboxInit
  <2>2. OutboxTypeOK
    <3>1. command \in [wanted : BOOLEAN, runs : Nat, saved : BOOLEAN]
      BY <2>1
    <3>2. got \subseteq 1..Len(outbox) /\ lost \in BOOLEAN /\ doubled \in BOOLEAN
      BY <2>1
    <3>3. syncing \in 0..MaxFaults + 1
      BY <2>1, OutboxAssumption
    <3>4. said \in Runs \cup {NoRun} /\ view \in Runs \cup {NoRun}
          /\ worker \in {"idle", "enqueue"} /\ enabled \in {"none", "on", "off", "gone"}
          /\ bridge_handle \in Conn \cup {NoConn}
      BY <2>1
    <3> QED BY <1>1, <1>2, <1>3, <3>1, <3>2, <3>3, <3>4 DEF OutboxTypeOK
  <2> QED BY OutboxAssumption, <2>1, <2>2 DEF OutboxTypes
<1>5. RowsGoInOrder
  BY <1>2, <1>3 DEF RowsGoInOrder, DeliveredMeansReceived, NoLink
<1>6. OneTaskServes
  BY <1>3 DEF OutboxInit, OneTaskServes, NoLink
<1>7. RowsAtHand /\ LastRowDescribes
  BY <1>2 DEF OutboxInit, RowsAtHand, LastRowDescribes
<1>8. NewestIsUnderWay
  BY <1>1 DEF NewestIsUnderWay
<1>9. ViewIsRecent
  BY <1>3 DEF ViewIsRecent, NoLink
<1> QED BY <1>4, <1>5, <1>6, <1>7, <1>8, <1>9 DEF OutboxInv

(* Types of the sequences of rows, in the form the steps need. *)
LEMMA OutboxFacts ==
  ASSUME OutboxInv
  PROVE  /\ outbox \in Seq(Row) /\ Len(outbox) \in Nat /\ DOMAIN outbox = 1..Len(outbox)
         /\ \A k \in DOMAIN outbox : outbox[k] \in Row
         /\ rows_todo \in Seq(Row) /\ Len(rows_todo) \in Nat
         /\ DOMAIN rows_todo = 1..Len(rows_todo)
         /\ updates \in Seq(Runs) /\ Len(updates) \in Nat
         /\ DOMAIN updates = 1..Len(updates)
         /\ got \subseteq DOMAIN outbox
         /\ \A c \in Conn : conn[c] \in [state : {"none", "connecting", "up"}, last_sent : Nat,
                                         command : {"none", "checked", "ran"}]
         /\ DOMAIN conn = Conn
BY OutboxDomain DEF OutboxInv, OutboxTypes, OutboxTypeOK

(* A row put into the outbox leaves the others where they are. *)
LEMMA RowIsAdded ==
  ASSUME outbox \in Seq(Row), NEW r \in Row, outbox' = Append(outbox, r)
  PROVE  /\ outbox' \in Seq(Row) /\ Len(outbox') = Len(outbox) + 1
         /\ DOMAIN outbox' = 1..(Len(outbox) + 1)
         /\ \A k \in 1..Len(outbox) : outbox'[k] = outbox[k]
         /\ outbox'[Len(outbox) + 1] = r
BY OutboxAppend

(* Rows that change their state in place. *)
LEMMA RowsAreStamped ==
  ASSUME outbox \in Seq(Row), NEW f,
         \A k \in DOMAIN outbox : f[k] \in {"waiting", "delivered", "failed"},
         outbox' = [k \in DOMAIN outbox |-> [outbox[k] EXCEPT !.state = f[k]]]
  PROVE  /\ outbox' \in Seq(Row) /\ DOMAIN outbox' = DOMAIN outbox
         /\ Len(outbox') = Len(outbox)
         /\ \A k \in DOMAIN outbox : /\ outbox'[k].to = outbox[k].to
                                     /\ outbox'[k].about = outbox[k].about
                                     /\ outbox'[k].state = f[k]
<1>1. DOMAIN outbox = 1..Len(outbox) /\ Len(outbox) \in Nat
      /\ \A k \in 1..Len(outbox) : outbox[k] \in Row
  BY OutboxDomain
<1>2. \A k \in 1..Len(outbox) :
         /\ [outbox[k] EXCEPT !.state = f[k]] \in Row
         /\ [outbox[k] EXCEPT !.state = f[k]].to = outbox[k].to
         /\ [outbox[k] EXCEPT !.state = f[k]].about = outbox[k].about
         /\ [outbox[k] EXCEPT !.state = f[k]].state = f[k]
  BY <1>1 DEF Row
<1>3. outbox' = [k \in 1..Len(outbox) |-> [outbox[k] EXCEPT !.state = f[k]]]
  BY <1>1
<1>4. \A k \in 1..Len(outbox) : outbox'[k] = [outbox[k] EXCEPT !.state = f[k]]
  BY <1>3
<1>5. outbox' \in Seq(Row) /\ DOMAIN outbox' = 1..Len(outbox) /\ Len(outbox') = Len(outbox)
  BY <1>1, <1>2, <1>3
<1> QED BY <1>1, <1>2, <1>4, <1>5

(* What deliver_due, delete and ack do to the rows. *)
LEMMA OneStamped ==
  ASSUME outbox \in Seq(Row), NEW k \in DOMAIN outbox, NEW outcome, deliver_due(k, outcome)
  PROVE  /\ outbox' \in Seq(Row) /\ DOMAIN outbox' = DOMAIN outbox
         /\ Len(outbox') = Len(outbox)
         /\ \A j \in DOMAIN outbox : outbox'[j].to = outbox[j].to
                                     /\ outbox'[j].about = outbox[j].about
         /\ \A j \in DOMAIN outbox \ {k} : outbox'[j] = outbox[j]
         /\ outbox[k].to = "webhook"
         /\ outbox'[k].state = "delivered" => k \in got'
         /\ got \subseteq got' /\ got' \subseteq got \cup {k}
<1>1. /\ Len(outbox) \in Nat /\ DOMAIN outbox = 1..Len(outbox)
      /\ \A j \in DOMAIN outbox : outbox[j] \in Row
  BY OutboxDomain
<1>2. outbox[k].to = "webhook" /\ outbox[k].state = "waiting"
  BY DEF deliver_due, due
<1>3. ASSUME NEW state \in {"delivered", "failed"}, Stamp(k, state)
      PROVE  /\ outbox' \in Seq(Row) /\ DOMAIN outbox' = DOMAIN outbox
             /\ Len(outbox') = Len(outbox)
             /\ \A j \in DOMAIN outbox : outbox'[j].to = outbox[j].to
                                         /\ outbox'[j].about = outbox[j].about
             /\ \A j \in DOMAIN outbox \ {k} : outbox'[j] = outbox[j]
             /\ outbox'[k].state = state
  <2> DEFINE r == [outbox[k] EXCEPT !.state = state]
  <2>1. r \in Row /\ r.to = outbox[k].to /\ r.about = outbox[k].about /\ r.state = state
    BY <1>1, <1>3 DEF Row
  <2>2. outbox' = [outbox EXCEPT ![k] = r]
    BY <1>3 DEF Stamp
  <2> HIDE DEF r
  <2>3. /\ outbox' \in Seq(Row) /\ Len(outbox') = Len(outbox)
        /\ \A j \in 1..Len(outbox) : outbox'[j] = IF j = k THEN r ELSE outbox[j]
    BY <1>1, <2>1, <2>2, ExceptSeq
  <2> QED BY <1>1, <2>1, <2>3, OutboxDomain
<1>4. CASE outcome = "ok"
  <2>1. Stamp(k, "delivered") /\ got' = got \cup {k}
    BY <1>4 DEF deliver_due
  <2> QED BY <1>2, <1>3, <2>1
<1>5. CASE outcome = "gave_up"
  <2>1. Stamp(k, "failed") /\ got' = got
    BY <1>5 DEF deliver_due
  <2> QED BY <1>2, <1>3, <2>1
<1>6. CASE outcome \notin {"ok", "gave_up"}
  BY <1>1, <1>2, <1>6 DEF deliver_due
<1> QED BY <1>2, <1>4, <1>5, <1>6

LEMMA BridgeRowsGo ==
  ASSUME outbox \in Seq(Row), delete
  PROVE  /\ outbox' \in Seq(Row) /\ DOMAIN outbox' = DOMAIN outbox
         /\ Len(outbox') = Len(outbox)
         /\ \A k \in DOMAIN outbox :
               /\ outbox'[k].to = outbox[k].to /\ outbox'[k].about = outbox[k].about
               /\ outbox'[k].state = IF outbox[k].to = "bridge" THEN "failed" ELSE outbox[k].state
<1> DEFINE f == [k \in DOMAIN outbox |-> IF outbox[k].to = "bridge" THEN "failed"
                                         ELSE outbox[k].state]
<1>1. \A k \in DOMAIN outbox : outbox[k] \in Row
  BY OutboxDomain
<1>2. \A k \in DOMAIN outbox : f[k] \in {"waiting", "delivered", "failed"}
  BY <1>1 DEF Row
<1>3. outbox' = [k \in DOMAIN outbox |-> [outbox[k] EXCEPT !.state = f[k]]]
  <2>1. ASSUME NEW k \in DOMAIN outbox
        PROVE  (IF outbox[k].to = "bridge" THEN [outbox[k] EXCEPT !.state = "failed"]
                ELSE outbox[k]) = [outbox[k] EXCEPT !.state = f[k]]
    BY <1>1 DEF Row
  <2> QED BY <2>1 DEF delete
<1> HIDE DEF f
<1>4. /\ outbox' \in Seq(Row) /\ DOMAIN outbox' = DOMAIN outbox /\ Len(outbox') = Len(outbox)
      /\ \A k \in DOMAIN outbox : /\ outbox'[k].to = outbox[k].to
                                  /\ outbox'[k].about = outbox[k].about
                                  /\ outbox'[k].state = f[k]
  BY <1>2, <1>3, RowsAreStamped
<1> QED BY <1>4 DEF f

LEMMA AckedRows ==
  ASSUME outbox \in Seq(Row), NEW upto, outbox' = ack(upto)
  PROVE  /\ outbox' \in Seq(Row) /\ DOMAIN outbox' = DOMAIN outbox
         /\ Len(outbox') = Len(outbox)
         /\ \A k \in DOMAIN outbox :
               /\ outbox'[k].to = outbox[k].to /\ outbox'[k].about = outbox[k].about
               /\ outbox'[k].state = IF Pending(k) /\ k <= upto THEN "delivered"
                                     ELSE outbox[k].state
<1> DEFINE f == [k \in DOMAIN outbox |-> IF Pending(k) /\ k <= upto THEN "delivered"
                                         ELSE outbox[k].state]
<1>1. \A k \in DOMAIN outbox : outbox[k] \in Row
  BY OutboxDomain
<1>2. \A k \in DOMAIN outbox : f[k] \in {"waiting", "delivered", "failed"}
  BY <1>1 DEF Row
<1>3. outbox' = [k \in DOMAIN outbox |-> [outbox[k] EXCEPT !.state = f[k]]]
  <2>1. ASSUME NEW k \in DOMAIN outbox
        PROVE  (IF outbox[k].to = "bridge" /\ k <= upto /\ outbox[k].state = "waiting"
                THEN [outbox[k] EXCEPT !.state = "delivered"] ELSE outbox[k])
                = [outbox[k] EXCEPT !.state = f[k]]
    BY <1>1 DEF Row, Pending
  <2> QED BY <2>1 DEF ack
<1> HIDE DEF f
<1>4. /\ outbox' \in Seq(Row) /\ DOMAIN outbox' = DOMAIN outbox /\ Len(outbox') = Len(outbox)
      /\ \A k \in DOMAIN outbox : /\ outbox'[k].to = outbox[k].to
                                  /\ outbox'[k].about = outbox[k].about
                                  /\ outbox'[k].state = f[k]
  BY <1>2, <1>3, RowsAreStamped
<1> QED BY <1>4 DEF f

(* A link stays one when its state or its command changes. *)
LEMMA StateTyped ==
  ASSUME conn \in [Conn -> [state : {"none", "connecting", "up"}, last_sent : Nat,
                            command : {"none", "checked", "ran"}]],
         NEW c \in Conn, NEW s \in {"none", "connecting", "up"},
         conn' = [conn EXCEPT ![c].state = s]
  PROVE  conn' \in [Conn -> [state : {"none", "connecting", "up"}, last_sent : Nat,
                            command : {"none", "checked", "ran"}]]
OBVIOUS

LEMMA CommandTyped ==
  ASSUME conn \in [Conn -> [state : {"none", "connecting", "up"}, last_sent : Nat,
                            command : {"none", "checked", "ran"}]],
         NEW c \in Conn, NEW to \in {"none", "checked", "ran"},
         conn' = [conn EXCEPT ![c].command = to]
  PROVE  conn' \in [Conn -> [state : {"none", "connecting", "up"}, last_sent : Nat,
                            command : {"none", "checked", "ran"}]]
OBVIOUS

(* Each step keeps the types of the variables. *)
LEMMA OutboxTypesKept ==
  ASSUME OutboxInv, OutboxNext
  PROVE  OutboxTypes'
<1> USE DEF OutboxTypes, OutboxTypeOK, feed, link, server
<1>1. OutboxTypes
  BY DEF OutboxInv
<1>2. ASSUME NEW status \in {"working", "waiting", "ended"}, RunChanges(status)
      PROVE  OutboxTypes'
  <2>1. changes_left' \in 0..MaxRunChanges
    BY <1>1, <1>2, OutboxAssumption DEF RunChanges
  <2>2. run' \in Runs
    BY <1>1, <1>2, OutboxAssumption DEF RunChanges, Runs
  <2>3. updates' \in Seq(Runs)
    BY <1>1, <1>2, <2>2, OutboxAppend DEF RunChanges
  <2> QED BY <1>1, <1>2, <2>1, <2>2, <2>3 DEF RunChanges
<1>3. CASE on_run
  <2>1. updates # <<>> /\ updates' = Tail(updates)
    BY <1>3 DEF on_run
  <2>2. Head(updates) \in Runs /\ updates' \in Seq(Runs)
    BY <1>1, <2>1, OutboxTail
  <2>3. RowsFor(Head(updates)) \in Seq(Row)
    BY <1>1, <2>2, RowsAreOfOneRun
  <2>4. said' \in Runs \cup {NoRun} /\ rows_todo' \in Seq(Row) /\ worker' \in {"idle", "enqueue"}
    BY <1>1, <1>3, <2>2, <2>3 DEF on_run
  <2>5. lost' \in BOOLEAN
    BY <1>3 DEF on_run
  <2> HIDE DEF OutboxTypeOK
  <2>6. OutboxTypeOK'
    BY <1>1, <1>3, <2>2, <2>4, <2>5 DEF on_run, OutboxTypeOK
  <2> QED BY <1>1, <1>3, <2>6 DEF on_run
<1>4. CASE enqueue
  <2>1. /\ rows_todo # <<>> /\ outbox' = Append(outbox, Head(rows_todo))
        /\ rows_todo' = Tail(rows_todo)
    BY <1>1, <1>4 DEF OutboxInv, RowsAtHand, enqueue
  <2>2. Head(rows_todo) \in Row /\ rows_todo' \in Seq(Row)
    BY <1>1, <2>1, OutboxTail
  <2>3. outbox' \in Seq(Row) /\ Len(outbox') = Len(outbox) + 1 /\ Len(outbox) \in Nat
    BY <1>1, <2>1, <2>2, RowIsAdded, OutboxDomain
  <2>4. said' \in Runs \cup {NoRun} /\ worker' \in {"idle", "enqueue"}
    BY <1>1, <1>4, <2>2 DEF enqueue, Row
  <2>5. got' \subseteq 1..Len(outbox')
    BY <1>1, <1>4, <2>3 DEF enqueue
  <2> QED BY <1>1, <1>4, <2>2, <2>3, <2>4, <2>5 DEF enqueue
<1>5. ASSUME NEW to \in {"bridge", "webhook"}, on_machine \/ enqueue_test(to) PROVE OutboxTypes'
  <2>1. PICK r \in Row : outbox' = Append(outbox, r)
    <3>1. \A o \in {"bridge", "webhook"} : NewRow(o, NoRun) \in Row
      BY DEF NewRow, Row
    <3> QED BY <1>5, <3>1 DEF on_machine, enqueue_test
  <2>2. outbox' \in Seq(Row) /\ Len(outbox') = Len(outbox) + 1 /\ Len(outbox) \in Nat
    BY <1>1, <2>1, RowIsAdded, OutboxDomain
  <2>3. changes_left' \in 0..MaxRunChanges
    BY <1>1, <1>5, OutboxAssumption DEF on_machine, enqueue_test
  <2>4. got' \subseteq 1..Len(outbox')
    <3>1. got' = got
      BY <1>5 DEF on_machine, enqueue_test
    <3> QED BY <1>1, <2>2, <3>1
  <2> QED BY <1>1, <1>5, <2>2, <2>3, <2>4 DEF on_machine, enqueue_test
<1>6. ASSUME NEW k \in DOMAIN outbox, NEW outcome \in {"ok", "answer_lost", "retry", "gave_up"},
             deliver_due(k, outcome)
      PROVE  OutboxTypes'
  <2>1. outbox' \in Seq(Row) /\ Len(outbox') = Len(outbox) /\ DOMAIN outbox = 1..Len(outbox)
    BY <1>1, <1>6, OneStamped, OutboxDomain
  <2>2. got' \subseteq 1..Len(outbox')
    BY <1>1, <1>6, <2>1 DEF deliver_due
  <2> QED BY <1>1, <1>6, <2>1, <2>2 DEF deliver_due
<1>7. CASE create
  BY <1>1, <1>7, OutboxAssumption DEF create
<1>8. CASE remove
  <2>1. outbox' \in Seq(Row) /\ Len(outbox') = Len(outbox)
    BY <1>1, <1>8, BridgeRowsGo DEF remove
  <2>2. command' \in [wanted : BOOLEAN, runs : Nat, saved : BOOLEAN]
    BY <1>1, <1>8 DEF remove, delete
  <2>3. NoLink \in [state : {"none", "connecting", "up"}, last_sent : Nat,
                    command : {"none", "checked", "ran"}]
    BY DEF NoLink
  <2> QED BY <1>1, <1>8, <2>1, <2>2, <2>3, OutboxAssumption DEF remove, AbortTask
<1>9. ASSUME NEW to \in {"on", "off"}, update(to) PROVE OutboxTypes'
  <2>3. NoLink \in [state : {"none", "connecting", "up"}, last_sent : Nat,
                    command : {"none", "checked", "ran"}]
    BY DEF NoLink
  <2> QED BY <1>1, <1>9, <2>3, OutboxAssumption DEF update, AbortTask
<1>10. CASE sync
  <2>1. PICK c \in Conn : bridge_handle' = c /\ conn' = [conn EXCEPT ![c].state = "connecting"]
    BY <1>10 DEF sync
  <2>2. conn' \in [Conn -> [state : {"none", "connecting", "up"}, last_sent : Nat,
                            command : {"none", "checked", "ran"}]]
    <3>1. conn \in [Conn -> [state : {"none", "connecting", "up"}, last_sent : Nat,
                             command : {"none", "checked", "ran"}]]
      BY <1>1
    <3> QED BY <2>1, <3>1, StateTyped
  <2>3. syncing' \in 0..MaxFaults + 1 /\ syncing' <= syncing
    BY <1>1, <1>10, OutboxAssumption DEF sync
  <2>4. bridge_handle' \in Conn \cup {NoConn} /\ doubled' \in BOOLEAN
    BY <1>1, <1>10, <2>1 DEF sync
  <2>5. syncing' + faults_left' <= MaxFaults + (IF enabled' = "none" THEN 0 ELSE 1)
    <3> DEFINE most == MaxFaults + (IF enabled = "none" THEN 0 ELSE 1)
    <3>1. syncing' = syncing - 1 /\ UNCHANGED <<faults_left, enabled>>
      BY <1>10 DEF sync
    <3>2. syncing \in Int /\ faults_left \in Int /\ most \in Int /\ syncing + faults_left <= most
      BY <1>1, OutboxAssumption
    <3>3. most' = most
      BY <3>1
    <3> HIDE DEF most
    <3>4. syncing' + faults_left' <= most'
      BY <3>1, <3>2, <3>3
    <3> QED BY <3>4 DEF most
  <2> QED BY <1>1, <1>10, <2>2, <2>3, <2>4, <2>5 DEF sync
<1>11. ASSUME NEW c \in Conn, keep_connected(c) \/ ConnectionLost(c) PROVE OutboxTypes'
  <2>1. /\ NoLink \in [state : {"none", "connecting", "up"}, last_sent : Nat,
                       command : {"none", "checked", "ran"}]
        /\ [NoLink EXCEPT !.state = "connecting"] \in
              [state : {"none", "connecting", "up"}, last_sent : Nat,
               command : {"none", "checked", "ran"}]
    BY DEF NoLink
  <2>2. CASE keep_connected(c)
    <3>1. conn' = [conn EXCEPT ![c] = NoLink]
          \/ conn' = [conn EXCEPT ![c].state = "up", ![c].last_sent = 0]
      BY <2>2 DEF keep_connected
    <3>2. conn' \in [Conn -> [state : {"none", "connecting", "up"}, last_sent : Nat,
                              command : {"none", "checked", "ran"}]]
      <4>1. CASE conn' = [conn EXCEPT ![c] = NoLink]
        BY <1>1, <2>1, <4>1
      <4>2. CASE conn' = [conn EXCEPT ![c].state = "up", ![c].last_sent = 0]
        <5> DEFINE up == [conn EXCEPT ![c].state = "up"]
        <5>1. up \in [Conn -> [state : {"none", "connecting", "up"}, last_sent : Nat,
                               command : {"none", "checked", "ran"}]]
          BY <1>1
        <5>2. conn' = [up EXCEPT ![c].last_sent = 0]
          BY <1>1, <4>2
        <5> HIDE DEF up
        <5> QED BY <5>1, <5>2
      <4> QED BY <3>1, <4>1, <4>2
    <3>3. view' \in Runs \cup {NoRun}
      BY <1>1, <2>2 DEF keep_connected
    <3> QED BY <1>1, <2>2, <3>2, <3>3 DEF keep_connected
  <2>3. CASE ConnectionLost(c)
    <3>1. conn' \in [Conn -> [state : {"none", "connecting", "up"}, last_sent : Nat,
                              command : {"none", "checked", "ran"}]]
      BY <1>1, <2>1, <2>3 DEF ConnectionLost
    <3> QED BY <1>1, <2>3, <3>1 DEF ConnectionLost
  <2> QED BY <1>11, <2>2, <2>3
<1>12. ASSUME NEW c \in Conn, NEW k \in DOMAIN outbox, connect_and_serve(c, k)
       PROVE  OutboxTypes'
  <2>1. k \in 1..Len(outbox) /\ Len(outbox) \in Nat /\ outbox[k] \in Row
    BY <1>1, OutboxDomain
  <2>2. view' \in Runs \cup {NoRun}
    BY <1>1, <1>12, <2>1 DEF connect_and_serve, Row
  <2>3. conn' \in [Conn -> [state : {"none", "connecting", "up"}, last_sent : Nat,
                            command : {"none", "checked", "ran"}]]
    BY <1>1, <1>12, <2>1 DEF connect_and_serve
  <2> QED BY <1>1, <1>12, <2>1, <2>2, <2>3 DEF connect_and_serve
<1>13. ASSUME NEW c \in Conn, NEW k \in DOMAIN outbox, HandleAck(c, k) PROVE OutboxTypes'
  <2>1. outbox' \in Seq(Row) /\ Len(outbox') = Len(outbox)
    BY <1>1, <1>13, AckedRows DEF HandleAck
  <2> QED BY <1>1, <1>13, <2>1 DEF HandleAck
<1>14. ASSUME NEW c \in Conn, handle_command(c) \/ run_command(c) \/ save_command_result(c)
       PROVE  OutboxTypes'
  <2>1. PICK to \in {"none", "checked", "ran"} :
           conn' = conn \/ conn' = [conn EXCEPT ![c].command = to]
    BY <1>14 DEF handle_command, run_command, save_command_result
  <2>2. conn' \in [Conn -> [state : {"none", "connecting", "up"}, last_sent : Nat,
                            command : {"none", "checked", "ran"}]]
    <3>1. conn \in [Conn -> [state : {"none", "connecting", "up"}, last_sent : Nat,
                             command : {"none", "checked", "ran"}]]
      BY <1>1
    <3>2. CASE conn' = [conn EXCEPT ![c].command = to]
      BY <3>1, <3>2, CommandTyped
    <3> QED BY <2>1, <3>1, <3>2
  <2>3. \/ command' = command \/ command' = [command EXCEPT !.wanted = FALSE]
        \/ command' = [command EXCEPT !.runs = @ + 1]
        \/ \E heard \in BOOLEAN : command' = [command EXCEPT !.saved = TRUE, !.wanted = ~heard]
    BY <1>14 DEF handle_command, run_command, save_command_result
  <2>4. command' \in [wanted : BOOLEAN, runs : Nat, saved : BOOLEAN]
    <3>1. ASSUME NEW heard \in BOOLEAN,
                 command' = [command EXCEPT !.saved = TRUE, !.wanted = ~heard]
          PROVE  command' \in [wanted : BOOLEAN, runs : Nat, saved : BOOLEAN]
      <4> DEFINE told == [command EXCEPT !.saved = TRUE]
                 wanted == ~heard
      <4>1. told \in [wanted : BOOLEAN, runs : Nat, saved : BOOLEAN] /\ wanted \in BOOLEAN
        BY <1>1
      <4>2. command' = [told EXCEPT !.wanted = wanted]
        BY <1>1, <3>1
      <4> HIDE DEF told, wanted
      <4> QED BY <4>1, <4>2
    <3>2. CASE command' = command
      BY <1>1, <3>2
    <3>3. CASE command' = [command EXCEPT !.wanted = FALSE]
      BY <1>1, <3>3
    <3>4. CASE command' = [command EXCEPT !.runs = @ + 1]
      <4> DEFINE n == command.runs + 1
      <4>1. command \in [wanted : BOOLEAN, runs : Nat, saved : BOOLEAN] /\ n \in Nat
        BY <1>1
      <4>2. command' = [command EXCEPT !.runs = n]
        BY <3>4
      <4> HIDE DEF n
      <4> QED BY <4>1, <4>2
    <3> QED BY <2>3, <3>1, <3>2, <3>3, <3>4
  <2> QED BY <1>1, <1>14, <2>2, <2>4 DEF handle_command, run_command, save_command_result
<1>15. CASE HubComesBack
  <2>1. NoLink \in [state : {"none", "connecting", "up"}, last_sent : Nat,
                    command : {"none", "checked", "ran"}]
    BY DEF NoLink
  <2>2. <<>> \in Seq(Row) /\ <<>> \in Seq(Runs)
    BY EmptySeq
  <2> QED BY <1>1, <1>15, <2>1, <2>2, OutboxAssumption DEF HubComesBack
<1> HIDE DEF OutboxTypes
<1> QED BY <1>2, <1>3, <1>4, <1>5, <1>6, <1>7, <1>8, <1>9, <1>10, <1>11, <1>12, <1>13,
           <1>14, <1>15 DEF OutboxNext

(* What aborting the task that the map knows leaves of the connections.    *)
LEMMA AbortEndsTasks ==
  ASSUME OutboxInv, NEW to, AbortTask(to)
  PROVE  /\ \A c \in Conn : conn'[c] = NoLink \/ conn'[c] = conn[c]
         /\ bridge_handle' = NoConn
         /\ ~doubled' => ~doubled /\ \A c \in Conn : /\ conn'[c].state = "none"
                                                    /\ conn'[c].command = "none"
                                                    /\ conn[c].command = "none"
<1>1. /\ \A c \in Conn : conn'[c] = IF c = bridge_handle THEN NoLink ELSE conn[c]
      /\ bridge_handle' = NoConn
      /\ ~doubled' => ~doubled /\ ~(bridge_handle # NoConn
                                     /\ conn[bridge_handle].command # "none")
  BY DEF AbortTask
<1>2. \A c \in Conn : /\ conn[c] \in [state : {"none", "connecting", "up"}, last_sent : Nat,
                                     command : {"none", "checked", "ran"}]
                      /\ conn[c].command # "none" => conn[c].state = "up"
  BY OutboxFacts DEF OutboxInv, OneTaskServes
<1>3. ASSUME ~doubled', NEW c \in Conn 
      PROVE  conn'[c].state = "none" /\ conn'[c].command = "none" /\ conn[c].command = "none"
  <2>1. conn[c].state # "none" => c = bridge_handle
    BY <1>1, <1>3 DEF OutboxInv, OneTaskServes
  <2>2. CASE c = bridge_handle
    BY <1>1, <1>3, <2>2, NoConnAssumption DEF NoLink
  <2>3. CASE c # bridge_handle
    <3>1. conn[c].state = "none" /\ conn[c].command = "none"
      BY <1>2, <2>1, <2>3
    <3> QED BY <1>1, <2>3, <3>1
  <2> QED BY <2>2, <2>3
<1> QED BY <1>1, <1>3

(* One connection changes in one field or two, the others stay. *)
LEMMA OneConnChanges ==
  ASSUME OutboxInv, NEW c \in Conn
  PROVE  /\ \A v : conn' = [conn EXCEPT ![c] = v] =>
               conn'[c] = v /\ \A d \in Conn \ {c} : conn'[d] = conn[d]
         /\ \A s : conn' = [conn EXCEPT ![c].state = s] =>
               /\ conn'[c].state = s /\ conn'[c].last_sent = conn[c].last_sent
               /\ conn'[c].command = conn[c].command
               /\ \A d \in Conn \ {c} : conn'[d] = conn[d]
         /\ \A s : conn' = [conn EXCEPT ![c].command = s] =>
               /\ conn'[c].command = s /\ conn'[c].last_sent = conn[c].last_sent
               /\ conn'[c].state = conn[c].state
               /\ \A d \in Conn \ {c} : conn'[d] = conn[d]
         /\ \A k : conn' = [conn EXCEPT ![c].last_sent = k] =>
               /\ conn'[c].last_sent = k /\ conn'[c].command = conn[c].command
               /\ conn'[c].state = conn[c].state
               /\ \A d \in Conn \ {c} : conn'[d] = conn[d]
         /\ conn' = [conn EXCEPT ![c].state = "up", ![c].last_sent = 0] =>
               /\ conn'[c].state = "up" /\ conn'[c].last_sent = 0
               /\ conn'[c].command = conn[c].command
               /\ \A d \in Conn \ {c} : conn'[d] = conn[d]
<1>1. /\ conn \in [Conn -> [state : {"none", "connecting", "up"}, last_sent : Nat,
                           command : {"none", "checked", "ran"}]]
  BY DEF OutboxInv, OutboxTypes, OutboxTypeOK
<1> QED BY <1>1

(* One connection changes, in its command alone. *)
LEMMA CommandChanges ==
  ASSUME OutboxInv, NEW c \in Conn, NEW s, conn' = [conn EXCEPT ![c].command = s]
  PROVE  /\ conn'[c].command = s /\ conn'[c].last_sent = conn[c].last_sent
         /\ conn'[c].state = conn[c].state
         /\ \A d \in Conn \ {c} : conn'[d] = conn[d]
BY OneConnChanges

(* One connection changes, in the last change sent alone. *)
LEMMA SentChanges ==
  ASSUME OutboxInv, NEW c \in Conn, NEW k, conn' = [conn EXCEPT ![c].last_sent = k]
  PROVE  /\ conn'[c].last_sent = k /\ conn'[c].command = conn[c].command
         /\ conn'[c].state = conn[c].state
         /\ \A d \in Conn \ {c} : conn'[d] = conn[d]
BY OneConnChanges

(* A connection comes up, with nothing sent on it yet. *)
LEMMA ComesUp ==
  ASSUME OutboxInv, NEW c \in Conn,
         conn' = [conn EXCEPT ![c].state = "up", ![c].last_sent = 0]
  PROVE  /\ conn'[c].state = "up" /\ conn'[c].last_sent = 0
         /\ conn'[c].command = conn[c].command
         /\ \A d \in Conn \ {c} : conn'[d] = conn[d]
BY OneConnChanges

(* Each step keeps one task serving the bridge, and its command to one go. *)
LEMMA OneTaskKept ==
  ASSUME OutboxInv, OutboxNext
  PROVE  OneTaskServes'
<1>1. OneTaskServes
  BY DEF OutboxInv
<1>2. \A c \in Conn : conn[c] \in [state : {"none", "connecting", "up"}, last_sent : Nat,
                                   command : {"none", "checked", "ran"}]
  BY OutboxFacts
<1>3. ASSUME UNCHANGED <<enabled, conn, bridge_handle, command, doubled>> PROVE OneTaskServes'
  BY <1>1, <1>3 DEF OneTaskServes
<1>4. ASSUME NEW status, RunChanges(status) PROVE OneTaskServes'
  BY <1>3, <1>4 DEF RunChanges, link, server
<1>5. CASE on_run \/ enqueue \/ on_machine
  BY <1>3, <1>5 DEF on_run, enqueue, on_machine, link, server
<1>6. ASSUME NEW to, enqueue_test(to) PROVE OneTaskServes'
  BY <1>3, <1>6 DEF enqueue_test, link, server
<1>7. ASSUME NEW k, NEW outcome, deliver_due(k, outcome) PROVE OneTaskServes'
  BY <1>3, <1>7 DEF deliver_due, link
<1>8. ASSUME NEW c \in Conn, NEW k, HandleAck(c, k) PROVE OneTaskServes'
  BY <1>3, <1>8 DEF HandleAck, link, server
<1>9. CASE create
  BY <1>1, <1>9 DEF OneTaskServes, create, server
<1>10. CASE remove
  <2>1. AbortTask("gone") /\ enabled' = "gone"
        /\ command'.runs = command.runs
    <3>1. command \in [wanted : BOOLEAN, runs : Nat, saved : BOOLEAN]
      BY DEF OutboxInv, OutboxTypes, OutboxTypeOK
    <3> QED BY <1>10, <3>1 DEF remove, delete
  <2> QED BY <1>1, <2>1, AbortEndsTasks DEF OneTaskServes, NoLink
<1>11. ASSUME NEW to \in {"on", "off"}, update(to) PROVE OneTaskServes'
  <2>1. AbortTask(to) /\ enabled # "gone" /\ command' = command
    BY <1>11 DEF update, server
  <2> QED BY <1>1, <2>1, AbortEndsTasks DEF OneTaskServes, NoLink
<1>12. CASE sync
  <2>1. PICK c \in Conn : /\ conn[c].state = "none" /\ bridge_handle' = c
                          /\ conn' = [conn EXCEPT ![c].state = "connecting"]
    BY <1>12 DEF sync
  <2>2. /\ conn'[c].state = "connecting" /\ conn'[c].command = "none"
        /\ \A d \in Conn \ {c} : conn'[d] = conn[d]
    <3>1. conn'[c].state = "connecting" /\ conn'[c].command = conn[c].command
          /\ \A d \in Conn \ {c} : conn'[d] = conn[d]
      BY <2>1, OneConnChanges
    <3> QED BY <1>1, <1>2, <2>1, <3>1 DEF OneTaskServes
  <2>3. UNCHANGED <<enabled, command>>
        /\ (~doubled' => ~doubled /\ bridge_handle = NoConn)
    BY <1>12 DEF sync, server
  <2>4. ~doubled' => \A d \in Conn : conn[d].state = "none" /\ conn[d].command = "none"
    BY <1>1, <1>2, <2>3, NoConnAssumption DEF OneTaskServes
  <2> QED BY <1>1, <2>1, <2>2, <2>3, <2>4 DEF OneTaskServes
<1>13. ASSUME NEW c \in Conn, keep_connected(c) PROVE OneTaskServes'
  <2>1. conn[c].state = "connecting" /\ UNCHANGED <<enabled, bridge_handle, command, doubled>>
    BY <1>13 DEF keep_connected
  <2>2. conn[c].command = "none"
    BY <1>1, <1>2, <2>1 DEF OneTaskServes
  <2>3. CASE conn' = [conn EXCEPT ![c] = NoLink]
    BY <1>1, <2>1, <2>2, <2>3, OneConnChanges DEF OneTaskServes, NoLink
  <2>4. CASE enabled = "on" /\ conn' = [conn EXCEPT ![c].state = "up", ![c].last_sent = 0]
    <3>1. conn'[c].state = "up" /\ conn'[c].command = "none"
          /\ \A d \in Conn \ {c} : conn'[d] = conn[d]
      BY <2>2, <2>4, OneConnChanges
    <3> QED BY <1>1, <2>1, <2>4, <3>1 DEF OneTaskServes
  <2> QED BY <1>13, <2>3, <2>4 DEF keep_connected
<1>14. ASSUME NEW c \in Conn, ConnectionLost(c) PROVE OneTaskServes'
  <2>1. conn' = [conn EXCEPT ![c] = [NoLink EXCEPT !.state = "connecting"]]
        /\ conn[c].state = "up" /\ conn[c].command = "none"
        /\ UNCHANGED <<enabled, bridge_handle, command, doubled>>
    BY <1>14 DEF ConnectionLost, server
  <2>2. conn'[c].state = "connecting" /\ conn'[c].command = "none"
        /\ \A d \in Conn \ {c} : conn'[d] = conn[d]
    <3> DEFINE v == [NoLink EXCEPT !.state = "connecting"]
    <3>1. v.state = "connecting" /\ v.command = "none" /\ conn' = [conn EXCEPT ![c] = v]
      BY <2>1 DEF NoLink
    <3> HIDE DEF v
    <3>2. conn'[c] = v /\ \A d \in Conn \ {c} : conn'[d] = conn[d]
      BY <3>1, OneConnChanges
    <3> QED BY <3>1, <3>2
  <2> QED BY <1>1, <2>1, <2>2 DEF OneTaskServes
<1>15. ASSUME NEW c \in Conn, NEW k, connect_and_serve(c, k) PROVE OneTaskServes'
  <2>1. conn' = [conn EXCEPT ![c].last_sent = k]
        /\ UNCHANGED <<enabled, bridge_handle, command, doubled>>
    BY <1>15 DEF connect_and_serve
  <2>2. \A d \in Conn : conn'[d].state = conn[d].state /\ conn'[d].command = conn[d].command
    BY <2>1, OneConnChanges
  <2> QED BY <1>1, <2>1, <2>2 DEF OneTaskServes
<1>16. ASSUME NEW c \in Conn, handle_command(c) PROVE OneTaskServes'
  <2>1. /\ conn[c].state = "up" /\ conn[c].command = "none"
        /\ UNCHANGED <<enabled, bridge_handle, doubled>>
        /\ command'.runs = command.runs /\ command'.saved = command.saved
        /\ conn' = conn \/ (~command.saved /\ conn' = [conn EXCEPT ![c].command = "checked"])
    <3>1. command \in [wanted : BOOLEAN, runs : Nat, saved : BOOLEAN]
      BY DEF OutboxInv, OutboxTypes, OutboxTypeOK
    <3> QED BY <1>16, <3>1 DEF handle_command
  <2>2. CASE conn' = conn
    BY <1>1, <2>1, <2>2 DEF OneTaskServes
  <2>3. CASE ~command.saved /\ conn' = [conn EXCEPT ![c].command = "checked"]
    <3>1. /\ conn'[c].state = "up" /\ conn'[c].command = "checked"
          /\ \A d \in Conn \ {c} : conn'[d] = conn[d]
      BY <2>1, <2>3, CommandChanges
    <3>2. ~doubled => enabled = "on" /\ \A d \in Conn : conn[d].command = "none"
      BY <1>1, <1>2, <2>1 DEF OneTaskServes
    <3>3. ~doubled => command.runs = 0
      <4>1. command.runs \in Nat
        BY DEF OutboxInv, OutboxTypes, OutboxTypeOK
      <4> QED BY <1>1, <2>3, <3>2, <4>1 DEF OneTaskServes
    <3> QED BY <1>1, <2>1, <3>1, <3>2, <3>3 DEF OneTaskServes
  <2> QED BY <2>1, <2>2, <2>3
<1>17. ASSUME NEW c \in Conn, run_command(c) PROVE OneTaskServes'
  <2>1. /\ conn[c].command = "checked" /\ conn' = [conn EXCEPT ![c].command = "ran"]
        /\ command' = [command EXCEPT !.runs = @ + 1]
        /\ UNCHANGED <<enabled, bridge_handle, doubled>>
    BY <1>17 DEF run_command
  <2>2. conn[c].state = "up" /\ conn'[c].state = "up" /\ conn'[c].command = "ran"
        /\ \A d \in Conn \ {c} : conn'[d] = conn[d]
    <3>1. conn[c].state = "up"
      BY <1>1, <2>1 DEF OneTaskServes
    <3> QED BY <2>1, <3>1, OneConnChanges
  <2>3. command.runs \in Nat /\ command'.runs = command.runs + 1
        /\ command'.saved = command.saved
    <3>1. command \in [wanted : BOOLEAN, runs : Nat, saved : BOOLEAN]
      BY DEF OutboxInv, OutboxTypes, OutboxTypeOK
    <3> QED BY <2>1, <3>1
  <2>4. ~doubled => command'.runs = 1 /\ \A d \in Conn \ {c} : conn'[d].command = "none"
    BY <1>1, <1>2, <2>1, <2>2, <2>3 DEF OneTaskServes
  <2> QED BY <1>1, <2>1, <2>2, <2>3, <2>4 DEF OneTaskServes
<1>18. ASSUME NEW c \in Conn, save_command_result(c) PROVE OneTaskServes'
  <2>1. /\ conn[c].command = "ran" /\ conn' = [conn EXCEPT ![c].command = "none"]
        /\ UNCHANGED <<enabled, bridge_handle, doubled>>
        /\ command'.saved = TRUE /\ command'.runs = command.runs
    <3>1. command \in [wanted : BOOLEAN, runs : Nat, saved : BOOLEAN]
      BY DEF OutboxInv, OutboxTypes, OutboxTypeOK
    <3> QED BY <1>18, <3>1 DEF save_command_result
  <2>2. conn'[c].state = conn[c].state /\ conn'[c].command = "none"
        /\ \A d \in Conn \ {c} : conn'[d] = conn[d]
    BY <2>1, OneConnChanges
  <2> QED BY <1>1, <2>1, <2>2 DEF OneTaskServes
<1>19. CASE HubComesBack
  <2>1. /\ \A c \in Conn : conn'[c] = NoLink
        /\ UNCHANGED <<enabled, command>>
        /\ ~doubled' => ~doubled /\ \A c \in Conn : conn[c].command = "none"
    BY <1>19 DEF HubComesBack, server
  <2> QED BY <1>1, <2>1 DEF OneTaskServes, NoLink
<1> QED BY <1>4, <1>5, <1>6, <1>7, <1>8, <1>9, <1>10, <1>11, <1>12, <1>13, <1>14, <1>15,
           <1>16, <1>17, <1>18, <1>19 DEF OutboxNext

(* Each step keeps rows going out, and being stored, in their order. *)
LEMMA RowOrderKept ==
  ASSUME OutboxInv, OutboxNext
  PROVE  RowsGoInOrder'
<1>1. RowsGoInOrder /\ DeliveredMeansReceived
  BY DEF OutboxInv, RowsGoInOrder
<1>2. /\ outbox \in Seq(Row) /\ Len(outbox) \in Nat /\ DOMAIN outbox = 1..Len(outbox)
      /\ got \subseteq DOMAIN outbox
      /\ \A c \in Conn : conn[c].last_sent \in Nat
  BY OutboxFacts
<1>3. ASSUME UNCHANGED <<outbox, got>>,
             \A c \in Conn : conn'[c].last_sent \in {0, conn[c].last_sent}
      PROVE  RowsGoInOrder'
  BY <1>1, <1>2, <1>3 DEF RowsGoInOrder, DeliveredMeansReceived, Pending
<1>4. ASSUME NEW r \in Row, r.state = "waiting", outbox' = Append(outbox, r),
             UNCHANGED <<got, conn>>
      PROVE  RowsGoInOrder'
  <2>1. /\ Len(outbox') = Len(outbox) + 1 /\ DOMAIN outbox' = 1..(Len(outbox) + 1)
        /\ \A k \in 1..Len(outbox) : outbox'[k] = outbox[k]
        /\ outbox'[Len(outbox) + 1] = r
    BY <1>2, <1>4, RowIsAdded
  <2>2. \A c \in Conn : conn'[c].last_sent <= Len(outbox')
    BY <1>1, <1>2, <1>4, <2>1 DEF RowsGoInOrder
  <2>3. \A c \in Conn, k \in DOMAIN outbox' :
           Pending(k)' /\ k <= conn'[c].last_sent => k \in got'
    <3> SUFFICES ASSUME NEW c \in Conn, NEW k \in DOMAIN outbox',
                        Pending(k)', k <= conn'[c].last_sent
                 PROVE  k \in got'
      OBVIOUS
    <3>1. k \in 1..Len(outbox)
      BY <1>1, <1>2, <1>4, <2>1 DEF RowsGoInOrder
    <3> QED BY <1>1, <1>2, <1>4, <2>1, <3>1 DEF RowsGoInOrder, Pending
  <2>4. \A j, k \in DOMAIN outbox' :
           j < k /\ outbox'[k].to = "bridge" /\ k \in got' /\ Pending(j)' => j \in got'
    <3> SUFFICES ASSUME NEW j \in DOMAIN outbox', NEW k \in DOMAIN outbox',
                        j < k, outbox'[k].to = "bridge", k \in got', Pending(j)'
                 PROVE  j \in got'
      OBVIOUS
    <3>1. k \in 1..Len(outbox) /\ j \in 1..Len(outbox)
      BY <1>2, <1>4, <2>1
    <3> QED BY <1>1, <1>2, <1>4, <2>1, <3>1 DEF RowsGoInOrder, Pending
  <2>5. DeliveredMeansReceived'
    BY <1>1, <1>2, <1>4, <2>1 DEF DeliveredMeansReceived
  <2> QED BY <2>2, <2>3, <2>4, <2>5 DEF RowsGoInOrder
<1>5. ASSUME NEW status, RunChanges(status) PROVE RowsGoInOrder'
  BY <1>2, <1>3, <1>5 DEF RunChanges, link, server
<1>6. CASE on_run
  BY <1>2, <1>3, <1>6 DEF on_run, link, server
<1>7. CASE enqueue
  <2>1. rows_todo # <<>> /\ rows_todo \in Seq(Row)
    BY <1>7, OutboxFacts DEF OutboxInv, RowsAtHand, enqueue
  <2>2. Head(rows_todo) \in Row /\ Head(rows_todo).state = "waiting"
    <3>1. Head(rows_todo) = rows_todo[1] /\ 1 \in DOMAIN rows_todo /\ rows_todo[1] \in Row
      BY <2>1, OutboxTail, OutboxDomain
    <3> QED BY <3>1 DEF OutboxInv, RowsAtHand
  <2> QED BY <1>4, <1>7, <2>2 DEF enqueue, link, server
<1>8. ASSUME NEW to \in {"bridge", "webhook"}, on_machine \/ enqueue_test(to)
      PROVE  RowsGoInOrder'
  <2>1. \A o \in {"bridge", "webhook"} :
           NewRow(o, NoRun) \in Row /\ NewRow(o, NoRun).state = "waiting"
    BY DEF NewRow, Row
  <2>2. UNCHANGED <<got, conn>>
        /\ \E o \in {"bridge", "webhook"} : outbox' = Append(outbox, NewRow(o, NoRun))
    BY <1>8 DEF on_machine, enqueue_test, link, server
  <2> QED BY <1>4, <2>1, <2>2
<1>9. ASSUME NEW k \in DOMAIN outbox, NEW outcome, deliver_due(k, outcome)
      PROVE  RowsGoInOrder'
  <2>1. UNCHANGED conn
    BY <1>9 DEF deliver_due, link
  <2>2. /\ DOMAIN outbox' = DOMAIN outbox /\ Len(outbox') = Len(outbox)
        /\ \A j \in DOMAIN outbox : outbox'[j].to = outbox[j].to
        /\ \A j \in DOMAIN outbox \ {k} : outbox'[j] = outbox[j]
        /\ outbox[k].to = "webhook"
        /\ outbox'[k].state = "delivered" => k \in got'
        /\ got \subseteq got' /\ got' \subseteq got \cup {k}
    BY <1>2, <1>9, OneStamped
  <2>3. \A j \in DOMAIN outbox : Pending(j)' => Pending(j) /\ j # k
    BY <2>2 DEF Pending
  <2>4. DeliveredMeansReceived'
    BY <1>1, <2>2 DEF DeliveredMeansReceived
  <2> QED BY <1>1, <1>2, <2>1, <2>2, <2>3, <2>4 DEF RowsGoInOrder
<1>10. CASE create
  BY <1>2, <1>3, <1>10 DEF create, server
<1>11. CASE remove
  <2>1. \A c \in Conn : conn'[c].last_sent \in {0, conn[c].last_sent}
    BY <1>11, AbortEndsTasks DEF remove, NoLink
  <2>2. /\ DOMAIN outbox' = DOMAIN outbox /\ Len(outbox') = Len(outbox)
        /\ \A k \in DOMAIN outbox :
               /\ outbox'[k].to = outbox[k].to
               /\ outbox'[k].state = IF outbox[k].to = "bridge" THEN "failed" ELSE outbox[k].state
        /\ got' = got
    BY <1>2, <1>11, BridgeRowsGo DEF remove
  <2>3. \A k \in DOMAIN outbox : ~Pending(k)'
    BY <2>2 DEF Pending
  <2>4. DeliveredMeansReceived'
    BY <1>1, <2>2 DEF DeliveredMeansReceived
  <2> QED BY <1>1, <1>2, <2>1, <2>2, <2>3, <2>4 DEF RowsGoInOrder
<1>12. ASSUME NEW to, update(to) PROVE RowsGoInOrder'
  <2>1. \A c \in Conn : conn'[c].last_sent \in {0, conn[c].last_sent}
    BY <1>12, AbortEndsTasks DEF update, NoLink
  <2> QED BY <1>3, <1>12, <2>1 DEF update, server
<1>13. CASE sync
  <2>1. \A c \in Conn : conn'[c].last_sent = conn[c].last_sent
    <3>1. PICK c \in Conn : conn' = [conn EXCEPT ![c].state = "connecting"]
      BY <1>13 DEF sync
    <3> QED BY <3>1, OneConnChanges
  <2> QED BY <1>3, <1>13, <2>1 DEF sync, server
<1>14. ASSUME NEW c \in Conn, keep_connected(c) PROVE RowsGoInOrder'
  <2>1. \A d \in Conn : conn'[d].last_sent \in {0, conn[d].last_sent}
    <3>1. CASE conn' = [conn EXCEPT ![c] = NoLink]
      BY <3>1, OneConnChanges DEF NoLink
    <3>2. CASE conn' = [conn EXCEPT ![c].state = "up", ![c].last_sent = 0]
      BY <3>2, ComesUp
    <3> QED BY <1>14, <3>1, <3>2 DEF keep_connected
  <2> QED BY <1>3, <1>14, <2>1 DEF keep_connected
<1>15. ASSUME NEW c \in Conn, ConnectionLost(c) PROVE RowsGoInOrder'
  <2>1. \A d \in Conn : conn'[d].last_sent \in {0, conn[d].last_sent}
    <3> DEFINE v == [NoLink EXCEPT !.state = "connecting"]
    <3>1. v.last_sent = 0 /\ conn' = [conn EXCEPT ![c] = v]
      BY <1>15 DEF ConnectionLost, NoLink
    <3> HIDE DEF v
    <3> QED BY <3>1, OneConnChanges
  <2> QED BY <1>3, <1>15, <2>1 DEF ConnectionLost, server
<1>16. ASSUME NEW c \in Conn, NEW k \in DOMAIN outbox, connect_and_serve(c, k)
       PROVE  RowsGoInOrder'
  <2>1. /\ conn' = [conn EXCEPT ![c].last_sent = k] /\ got' = got \cup {k}
        /\ UNCHANGED outbox /\ k \in unacked(c) /\ \A j \in unacked(c) : k <= j
    BY <1>16 DEF connect_and_serve
  <2>2. /\ conn'[c].last_sent = k
        /\ \A d \in Conn \ {c} : conn'[d].last_sent = conn[d].last_sent
    BY <2>1, SentChanges
  <2>3. ASSUME NEW j \in DOMAIN outbox, Pending(j), j <= k PROVE j \in got'
    <3>1. CASE j <= conn[c].last_sent
      BY <1>1, <2>1, <2>3, <3>1 DEF RowsGoInOrder
    <3>2. CASE j > conn[c].last_sent
      <4>1. j \in unacked(c)
        BY <2>3, <3>2 DEF unacked, Pending
      <4>2. j = k
        BY <1>2, <2>1, <2>3, <4>1
      <4> QED BY <2>1, <4>2
    <3> QED BY <1>2, <3>1, <3>2
  <2>4. \A d \in Conn, j \in DOMAIN outbox : Pending(j) /\ j <= conn'[d].last_sent => j \in got'
    BY <1>1, <2>1, <2>2, <2>3 DEF RowsGoInOrder
  <2>5. \A j, l \in DOMAIN outbox :
           j < l /\ outbox[l].to = "bridge" /\ l \in got' /\ Pending(j) => j \in got'
    <3> SUFFICES ASSUME NEW j \in DOMAIN outbox, NEW l \in DOMAIN outbox, j < l,
                        outbox[l].to = "bridge", l \in got', Pending(j)
                 PROVE  j \in got'
      OBVIOUS
    <3>1. CASE l = k
      BY <1>2, <2>3, <3>1
    <3>2. CASE l # k
      BY <1>1, <2>1, <3>2 DEF RowsGoInOrder
    <3> QED BY <3>1, <3>2
  <2>6. \A d \in Conn : conn'[d].last_sent <= Len(outbox)
    BY <1>1, <1>2, <2>2 DEF RowsGoInOrder
  <2>7. DeliveredMeansReceived'
    BY <1>1, <2>1 DEF DeliveredMeansReceived
  <2>8. \A j \in DOMAIN outbox : Pending(j)' <=> Pending(j)
    BY <2>1 DEF Pending
  <2> QED BY <2>1, <2>4, <2>5, <2>6, <2>7, <2>8 DEF RowsGoInOrder
<1>17. ASSUME NEW c \in Conn, NEW upto \in DOMAIN outbox, HandleAck(c, upto)
       PROVE  RowsGoInOrder'
  <2>1. upto \in got /\ outbox[upto].to = "bridge" /\ outbox' = ack(upto)
        /\ UNCHANGED <<got, conn>>
    BY <1>17 DEF HandleAck, link, server
  <2>2. /\ DOMAIN outbox' = DOMAIN outbox /\ Len(outbox') = Len(outbox)
        /\ \A k \in DOMAIN outbox :
               /\ outbox'[k].to = outbox[k].to
               /\ outbox'[k].state = IF Pending(k) /\ k <= upto THEN "delivered"
                                     ELSE outbox[k].state
    BY <1>2, <2>1, AckedRows
  <2>3. \A k \in DOMAIN outbox : Pending(k) /\ k <= upto => k \in got
    BY <1>1, <1>2, <2>1 DEF RowsGoInOrder
  <2>4. \A k \in DOMAIN outbox : Pending(k)' => Pending(k)
    BY <2>2 DEF Pending
  <2>5. DeliveredMeansReceived'
    BY <1>1, <2>1, <2>2, <2>3 DEF DeliveredMeansReceived
  <2> QED BY <1>1, <1>2, <2>1, <2>2, <2>4, <2>5 DEF RowsGoInOrder
<1>18. ASSUME NEW c \in Conn,
              handle_command(c) \/ run_command(c) \/ save_command_result(c)
       PROVE  RowsGoInOrder'
  <2>1. PICK s : conn' = conn \/ conn' = [conn EXCEPT ![c].command = s]
    BY <1>18 DEF handle_command, run_command, save_command_result
  <2>2. \A d \in Conn : conn'[d].last_sent = conn[d].last_sent
    <3>1. CASE conn' = conn
      BY <3>1
    <3>2. CASE conn' = [conn EXCEPT ![c].command = s]
      <4>1. conn'[c].last_sent = conn[c].last_sent /\ \A d \in Conn \ {c} : conn'[d] = conn[d]
        BY <3>2, OneConnChanges
      <4> QED BY <4>1
    <3> QED BY <2>1, <3>1, <3>2
  <2> QED BY <1>3, <1>18, <2>2 DEF handle_command, run_command, save_command_result
<1>19. CASE HubComesBack
  <2>1. \A d \in Conn : conn'[d].last_sent = 0
    BY <1>19 DEF HubComesBack, NoLink
  <2> QED BY <1>3, <1>19, <2>1 DEF HubComesBack, server
<1> QED BY <1>5, <1>6, <1>7, <1>8, <1>9, <1>10, <1>11, <1>12, <1>13, <1>14, <1>15,
           <1>16, <1>17, <1>18, <1>19 DEF OutboxNext

(* What taking an update does, seen by one whose updates were all told:    *)
(* either it says nothing, and is what was described, or its rows are put  *)
(* at hand, the bridge's last.                                             *)
LEMMA UpdateIsTaken ==
  ASSUME OutboxInv, on_run
  PROVE  /\ updates # <<>> /\ updates' = Tail(updates) /\ updates[1] \in Runs
         /\ rows_todo = <<>> /\ (worker' = "idle" <=> rows_todo' = <<>>)
         /\ rows_todo' \in Seq(Row) /\ worker' \in {"idle", "enqueue"}
         /\ \A i \in DOMAIN rows_todo' :
               rows_todo'[i].about = updates[1] /\ rows_todo'[i].state = "waiting"
         /\ lost => lost'
         /\ ~lost' /\ rows_todo' # <<>> => /\ rows_todo'[Len(rows_todo')].to = "bridge"
                                           /\ said' = said
         /\ ~lost' /\ rows_todo' = <<>> => updates[1] = said /\ said' = said
<1> DEFINE u == Head(updates)
<1>1. /\ updates # <<>> /\ updates \in Seq(Runs) /\ updates' = Tail(updates)
      /\ worker = "idle" /\ rows_todo = <<>> /\ said \in Runs \cup {NoRun}
      /\ rows_todo \in Seq(Row)
  BY DEF on_run, OutboxInv, RowsAtHand, OutboxTypes, OutboxTypeOK
<1>2. u \in Runs /\ u = updates[1]
  BY <1>1, OutboxTail
<1>3. lost' = (lost \/ (enabled # "on" /\ run_changes(said, u) # <<>>))
  BY DEF on_run
<1>4. /\ RowsFor(u) \in Seq(Row)
      /\ \A i \in DOMAIN RowsFor(u) : RowsFor(u)[i].about = u /\ RowsFor(u)[i].state = "waiting"
      /\ enabled = "on" /\ RowsFor(u) # <<>> => RowsFor(u)[Len(RowsFor(u))].to = "bridge"
      /\ enabled = "on" /\ RowsFor(u) = <<>> => run_changes(said, u) = <<>>
  BY <1>1, <1>2, RowsAreOfOneRun
<1>5. run_changes(said, u) = <<>> => said = u
  BY <1>1, <1>2, NoNewsNoChange
<1>6. \/ RowsFor(u) = <<>> /\ said' = u /\ UNCHANGED <<worker, rows_todo>>
      \/ RowsFor(u) # <<>> /\ rows_todo' = RowsFor(u) /\ worker' = "enqueue" /\ UNCHANGED said
  BY DEF on_run
<1> HIDE DEF u
<1>7. CASE RowsFor(u) = <<>> /\ said' = u /\ UNCHANGED <<worker, rows_todo>>
  <2>1. DOMAIN rows_todo' = {}
    BY <1>1, <1>7
  <2>2. ~lost' => said = u
    BY <1>3, <1>4, <1>5, <1>7
  <2> QED BY <1>1, <1>2, <1>3, <1>7, <2>1, <2>2
<1>8. CASE RowsFor(u) # <<>> /\ rows_todo' = RowsFor(u) /\ worker' = "enqueue" /\ UNCHANGED said
  <2>1. ~lost' => enabled = "on" \/ run_changes(said, u) = <<>>
    BY <1>3
  <2>2. enabled # "on" /\ run_changes(said, u) = <<>> => RowsFor(u) = <<>>
    BY <1>1, <1>2, NoNewsNoRows
  <2> QED BY <1>1, <1>2, <1>3, <1>4, <1>8, <2>1, <2>2
<1> QED BY <1>6, <1>7, <1>8

(* The worker puts a row in: the last one makes the run the described one. *)
LEMMA RowIsPutIn ==
  ASSUME OutboxInv, enqueue
  PROVE  /\ rows_todo # <<>> /\ rows_todo[1] \in Row /\ rows_todo[1].state = "waiting"
         /\ rows_todo[1].about # NoRun
         /\ outbox' = Append(outbox, rows_todo[1]) /\ rows_todo' = Tail(rows_todo)
         /\ rows_todo' \in Seq(Row)
         /\ (worker' = "idle" <=> rows_todo' = <<>>)
         /\ \A i \in DOMAIN rows_todo' : /\ rows_todo'[i].about = rows_todo[1].about
                                         /\ rows_todo'[i].state = "waiting"
         /\ ~lost /\ rows_todo' # <<>> => rows_todo'[Len(rows_todo')].to = "bridge"
         /\ rows_todo' # <<>> => said' = said
         /\ rows_todo' = <<>> => /\ said' = rows_todo[1].about
                                 /\ ~lost => rows_todo[1].to = "bridge"
<1>1. rows_todo # <<>> /\ rows_todo \in Seq(Row) /\ RowsAtHand
  BY OutboxFacts DEF OutboxInv, RowsAtHand, enqueue
<1>2. /\ Len(rows_todo) \in Nat \ {0} /\ rows_todo[1] \in Row /\ Head(rows_todo) = rows_todo[1]
      /\ rows_todo' \in Seq(Row) /\ Len(rows_todo') = Len(rows_todo) - 1
      /\ DOMAIN rows_todo' = 1..(Len(rows_todo) - 1)
      /\ \A i \in 1..(Len(rows_todo) - 1) : rows_todo'[i] = rows_todo[i + 1]
      /\ (rows_todo' = <<>> <=> Len(rows_todo) = 1)
      /\ DOMAIN rows_todo = 1..Len(rows_todo)
  BY <1>1, OutboxTail, OutboxDomain DEF enqueue
<1>3. \A i \in 1..Len(rows_todo) : /\ rows_todo[i].about = rows_todo[1].about
                                   /\ rows_todo[i].about # NoRun
                                   /\ rows_todo[i].state = "waiting"
  BY <1>1, <1>2 DEF RowsAtHand
<1>4. ~lost => rows_todo[Len(rows_todo)].to = "bridge"
  BY <1>1 DEF RowsAtHand
<1>5. \/ Len(rows_todo) = 1 /\ said' = rows_todo[1].about /\ worker' = "idle"
      \/ Len(rows_todo) > 1 /\ said' = said /\ worker' = "enqueue"
  BY <1>2 DEF enqueue
<1>6. outbox' = Append(outbox, rows_todo[1]) /\ rows_todo' = Tail(rows_todo)
  BY <1>2 DEF enqueue
<1>7. \A i \in DOMAIN rows_todo' : /\ rows_todo'[i].about = rows_todo[1].about
                                   /\ rows_todo'[i].state = "waiting"
  BY <1>2, <1>3
<1>8. ~lost /\ rows_todo' # <<>> => rows_todo'[Len(rows_todo')].to = "bridge"
  BY <1>2, <1>4
<1>9. rows_todo[1].about # NoRun /\ rows_todo[1].state = "waiting"
  BY <1>2, <1>3
<1>10. worker' = "idle" <=> rows_todo' = <<>>
  BY <1>2, <1>5
<1>11. rows_todo' # <<>> => said' = said
  BY <1>2, <1>5
<1>12. rows_todo' = <<>> => /\ said' = rows_todo[1].about
                            /\ ~lost => rows_todo[1].to = "bridge"
  BY <1>2, <1>4, <1>5
<1> QED BY <1>1, <1>2, <1>6, <1>7, <1>8, <1>9, <1>10, <1>11, <1>12

(* All other steps leave what the worker has at hand alone. *)
Worker == <<updates, said, worker, rows_todo, lost>>

LEMMA OthersLeaveTheWorker ==
  ASSUME OutboxNext
  PROVE  \/ UNCHANGED <<run, Worker>>
         \/ on_run \/ enqueue \/ HubComesBack
         \/ \E status \in {"working", "waiting", "ended"} : RunChanges(status)
<1> USE DEF Worker, feed
<1>1. on_machine => UNCHANGED <<run, Worker>>
  BY DEF on_machine
<1>2. \A to : enqueue_test(to) => UNCHANGED <<run, Worker>>
  BY DEF enqueue_test
<1>3. \A k, outcome : deliver_due(k, outcome) => UNCHANGED <<run, Worker>>
  BY DEF deliver_due
<1>4. create \/ remove \/ sync => UNCHANGED <<run, Worker>>
  BY DEF create, remove, sync
<1>5. \A to : update(to) => UNCHANGED <<run, Worker>>
  BY DEF update
<1>6. \A c : keep_connected(c) \/ ConnectionLost(c) => UNCHANGED <<run, Worker>>
  BY DEF keep_connected, ConnectionLost
<1>7. \A c, k : connect_and_serve(c, k) \/ HandleAck(c, k) => UNCHANGED <<run, Worker>>
  BY DEF connect_and_serve, HandleAck
<1>8. \A c : handle_command(c) \/ run_command(c) \/ save_command_result(c)
               => UNCHANGED <<run, Worker>>
  BY DEF handle_command, run_command, save_command_result
<1> HIDE DEF Worker, feed
<1> QED BY <1>1, <1>2, <1>3, <1>4, <1>5, <1>6, <1>7, <1>8 DEF OutboxNext

LEMMA RowsAtHandKept ==
  ASSUME OutboxInv, OutboxNext
  PROVE  RowsAtHand' /\ NewestIsUnderWay'
<1>1. /\ RowsAtHand /\ NewestIsUnderWay /\ updates \in Seq(Runs) /\ Len(updates) \in Nat
      /\ rows_todo \in Seq(Row) /\ DOMAIN rows_todo = 1..Len(rows_todo)
      /\ Len(rows_todo) \in Nat
  BY OutboxFacts DEF OutboxInv
<1>2. CASE UNCHANGED <<run, Worker>>
  BY <1>1, <1>2 DEF RowsAtHand, NewestIsUnderWay, Worker
<1>3. CASE on_run
  <2>1. /\ updates # <<>> /\ updates' = Tail(updates) /\ updates[1] \in Runs
        /\ rows_todo = <<>> /\ (worker' = "idle" <=> rows_todo' = <<>>)
        /\ rows_todo' \in Seq(Row)
        /\ \A i \in DOMAIN rows_todo' :
               rows_todo'[i].about = updates[1] /\ rows_todo'[i].state = "waiting"
        /\ lost => lost'
        /\ ~lost' /\ rows_todo' # <<>> => /\ rows_todo'[Len(rows_todo')].to = "bridge"
                                          /\ said' = said
        /\ ~lost' /\ rows_todo' = <<>> => updates[1] = said /\ said' = said
        /\ run' = run
    BY <1>3, UpdateIsTaken DEF on_run
  <2>2. rows_todo' # <<>> => 1 \in DOMAIN rows_todo'
    BY <2>1, OutboxDomain
  <2>3. \A x \in Runs : x # NoRun
    BY DEF Runs, NoRun
  <2>4. RowsAtHand'
    <3>1. \A i \in DOMAIN rows_todo' : 1 \in DOMAIN rows_todo'
      BY <2>1, OutboxDomain
    <3> QED BY <2>1, <2>3, <3>1 DEF RowsAtHand
  <2>5. NewestIsUnderWay'
    <3>1. CASE Len(updates) = 1
      <4>1. updates' = <<>>
        BY <1>1, <2>1, <3>1, OutboxTail
      <4> QED BY <1>1, <2>1, <2>2, <3>1, <4>1 DEF NewestIsUnderWay
    <3>2. CASE Len(updates) # 1
      <4>1. updates' # <<>> /\ updates'[Len(updates')] = updates[Len(updates)]
        BY <1>1, <2>1, <3>2, OutboxTail
      <4> QED BY <1>1, <2>1, <4>1 DEF NewestIsUnderWay
    <3> QED BY <3>1, <3>2
  <2> QED BY <2>4, <2>5
<1>4. CASE enqueue
  <2>1. /\ rows_todo # <<>> /\ rows_todo[1] \in Row /\ rows_todo[1].about # NoRun
        /\ rows_todo' \in Seq(Row)
        /\ (worker' = "idle" <=> rows_todo' = <<>>)
        /\ \A i \in DOMAIN rows_todo' : /\ rows_todo'[i].about = rows_todo[1].about
                                        /\ rows_todo'[i].state = "waiting"
        /\ ~lost /\ rows_todo' # <<>> => rows_todo'[Len(rows_todo')].to = "bridge"
        /\ rows_todo' # <<>> => said' = said
        /\ rows_todo' = <<>> => said' = rows_todo[1].about
        /\ UNCHANGED <<run, updates, lost>>
    BY <1>4, RowIsPutIn DEF enqueue
  <2>2. /\ rows_todo' # <<>> => 1 \in DOMAIN rows_todo'
        /\ \A i \in DOMAIN rows_todo' : 1 \in DOMAIN rows_todo'
    BY <2>1, OutboxDomain
  <2> QED BY <1>1, <2>1, <2>2 DEF RowsAtHand, NewestIsUnderWay
<1>5. ASSUME NEW status \in {"working", "waiting", "ended"}, RunChanges(status)
      PROVE  RowsAtHand' /\ NewestIsUnderWay'
  <2>1. run' \in Runs
    BY OutboxTypesKept DEF OutboxTypes, OutboxTypeOK
  <2>2. updates' # <<>> /\ updates'[Len(updates')] = run'
    BY <1>1, <1>5, <2>1, OutboxAppend DEF RunChanges
  <2> QED BY <1>1, <1>5, <2>2 DEF RowsAtHand, NewestIsUnderWay, RunChanges
<1>6. CASE HubComesBack
  <2>1. /\ updates' = <<>> /\ rows_todo' = <<>> /\ worker' = "idle" /\ UNCHANGED <<run, said>>
        /\ ~lost' => ~lost /\ updates = <<>> /\ rows_todo = <<>>
    BY <1>6 DEF HubComesBack
  <2>2. DOMAIN rows_todo' = {}
    BY <2>1
  <2> QED BY <1>1, <2>1, <2>2 DEF RowsAtHand, NewestIsUnderWay
<1> QED BY <1>2, <1>3, <1>4, <1>5, <1>6, OthersLeaveTheWorker

(* A step after which the bridge has still to get what it had to before.   *)
SameUnseen ==
    /\ \A k \in DOMAIN outbox' : Unseen(k)' => k \in DOMAIN outbox
    /\ \A k \in DOMAIN outbox :
          k \in DOMAIN outbox' /\ (Unseen(k)' <=> Unseen(k)) /\ outbox'[k].about = outbox[k].about

(* Only these steps change what the bridge has still to get. *)
LEMMA WhatIsUnseen ==
  ASSUME OutboxInv, OutboxNext
  PROVE  \/ SameUnseen \/ enqueue \/ remove
         \/ \E c \in Conn : \E k \in DOMAIN outbox : connect_and_serve(c, k)
<1>1. /\ outbox \in Seq(Row) /\ Len(outbox) \in Nat /\ DOMAIN outbox = 1..Len(outbox)
      /\ got \subseteq DOMAIN outbox /\ RowsGoInOrder
  BY OutboxFacts DEF OutboxInv
<1>2. ASSUME UNCHANGED <<outbox, got>> PROVE SameUnseen
  BY <1>2 DEF SameUnseen, Unseen, Pending
<1>3. ASSUME NEW to \in {"bridge", "webhook"}, on_machine \/ enqueue_test(to) PROVE SameUnseen
  <2>1. PICK r \in Row : outbox' = Append(outbox, r) /\ r.about = NoRun
    <3>1. \A o \in {"bridge", "webhook"} : NewRow(o, NoRun) \in Row
                                           /\ NewRow(o, NoRun).about = NoRun
      BY DEF NewRow, Row
    <3> QED BY <1>3, <3>1 DEF on_machine, enqueue_test
  <2>2. got' = got
    BY <1>3 DEF on_machine, enqueue_test, server
  <2>3. /\ DOMAIN outbox' = 1..(Len(outbox) + 1) /\ outbox'[Len(outbox) + 1] = r
        /\ \A k \in 1..Len(outbox) : outbox'[k] = outbox[k]
    BY <1>1, <2>1, RowIsAdded
  <2>4. \A k \in DOMAIN outbox' : k = Len(outbox) + 1 => ~Unseen(k)'
    BY <2>1, <2>3 DEF Unseen
  <2>5. \A k \in DOMAIN outbox : Unseen(k)' <=> Unseen(k)
    BY <1>1, <2>2, <2>3 DEF Unseen, Pending
  <2> QED BY <1>1, <2>3, <2>4, <2>5 DEF SameUnseen
<1>4. ASSUME NEW k \in DOMAIN outbox, NEW outcome, deliver_due(k, outcome) PROVE SameUnseen
  <2>1. /\ DOMAIN outbox' = DOMAIN outbox
        /\ \A j \in DOMAIN outbox : /\ outbox'[j].to = outbox[j].to
                                    /\ outbox'[j].about = outbox[j].about
        /\ \A j \in DOMAIN outbox \ {k} : outbox'[j] = outbox[j]
        /\ outbox[k].to = "webhook"
        /\ got \subseteq got' /\ got' \subseteq got \cup {k}
    BY <1>1, <1>4, OneStamped
  <2>2. \A j \in DOMAIN outbox : Unseen(j)' <=> Unseen(j)
    BY <2>1 DEF Unseen, Pending
  <2> QED BY <2>1, <2>2 DEF SameUnseen
<1>5. ASSUME NEW c \in Conn, NEW upto \in DOMAIN outbox, HandleAck(c, upto) PROVE SameUnseen
  <2>1. upto \in got /\ outbox[upto].to = "bridge" /\ outbox' = ack(upto) /\ got' = got
    BY <1>5 DEF HandleAck, server
  <2>2. /\ DOMAIN outbox' = DOMAIN outbox
        /\ \A k \in DOMAIN outbox :
               /\ outbox'[k].to = outbox[k].to /\ outbox'[k].about = outbox[k].about
               /\ outbox'[k].state = IF Pending(k) /\ k <= upto THEN "delivered"
                                     ELSE outbox[k].state
    BY <1>1, <2>1, AckedRows
  <2>3. \A k \in DOMAIN outbox : Pending(k) /\ k <= upto => k \in got
    BY <1>1, <2>1 DEF RowsGoInOrder
  <2>4. \A k \in DOMAIN outbox : Unseen(k)' <=> Unseen(k)
    BY <2>1, <2>2, <2>3 DEF Unseen, Pending
  <2> QED BY <2>2, <2>4 DEF SameUnseen
<1>6. CASE \/ on_run \/ create \/ sync \/ HubComesBack
  BY <1>2, <1>6 DEF on_run, create, sync, HubComesBack, server
<1>7. ASSUME NEW status, RunChanges(status) PROVE SameUnseen
  BY <1>2, <1>7 DEF RunChanges, server
<1>8. ASSUME NEW to, update(to) PROVE SameUnseen
  BY <1>2, <1>8 DEF update, server
<1>9. ASSUME NEW c, \/ keep_connected(c) \/ ConnectionLost(c) \/ handle_command(c)
                    \/ run_command(c) \/ save_command_result(c)
      PROVE  SameUnseen
  BY <1>2, <1>9 DEF keep_connected, ConnectionLost, handle_command, run_command,
                    save_command_result, server
<1> QED BY <1>3, <1>4, <1>5, <1>6, <1>7, <1>8, <1>9 DEF OutboxNext

(* The worker tells the truth on: nothing it has described becomes old     *)
(* news before its rows are in.                                            *)
LEMMA RecentStaysRecent ==
  ASSUME OutboxInv, OutboxNext, ~lost'
  PROVE  /\ ~lost
         /\ ~enqueue => Described \subseteq Described' /\ Recent \subseteq Recent'
         /\ enqueue /\ rows_todo[1].to = "webhook" =>
               Described \subseteq Described' /\ Recent \subseteq Recent'
<1>1. /\ updates \in Seq(Runs) /\ Len(updates) \in Nat /\ DOMAIN updates = 1..Len(updates)
      /\ rows_todo \in Seq(Row) /\ DOMAIN rows_todo = 1..Len(rows_todo)
      /\ Len(rows_todo) \in Nat /\ RowsAtHand
  BY OutboxFacts DEF OutboxInv
<1>2. CASE UNCHANGED <<run, Worker>>
  BY <1>2 DEF Described, Recent, Worker, enqueue
<1>3. CASE on_run
  <2>1. /\ updates # <<>> /\ updates' = Tail(updates) /\ rows_todo = <<>>
        /\ rows_todo' \in Seq(Row) /\ ~lost /\ said' = said
        /\ \A i \in DOMAIN rows_todo' : rows_todo'[i].about = updates[1]
        /\ rows_todo' = <<>> => updates[1] = said
    BY <1>3, UpdateIsTaken
  <2>2. ~enqueue
    BY <1>3 DEF on_run, enqueue
  <2>3. Described = {said}
    BY <1>1, <2>1 DEF Described
  <2>4. Described \subseteq Described'
    BY <2>1, <2>3 DEF Described
  <2>5. updates[1] \in Described'
    <3>1. CASE rows_todo' = <<>>
      BY <2>1, <3>1 DEF Described
    <3>2. CASE rows_todo' # <<>>
      <4>1. 1 \in DOMAIN rows_todo'
        BY <2>1, <3>2, OutboxDomain
      <4> QED BY <2>1, <4>1 DEF Described
    <3> QED BY <3>1, <3>2
  <2>6. ASSUME NEW i \in DOMAIN updates PROVE updates[i] \in Recent'
    <3>1. CASE i = 1
      BY <2>5, <3>1 DEF Recent
    <3>2. CASE i # 1
      <4>1. i - 1 \in DOMAIN updates' /\ updates'[i - 1] = updates[i]
        BY <1>1, <2>1, <3>2, OutboxTail
      <4> QED BY <4>1 DEF Recent
    <3> QED BY <3>1, <3>2
  <2> QED BY <2>1, <2>2, <2>4, <2>6 DEF Recent
<1>4. CASE enqueue
  <2>1. ~lost /\ updates' = updates
    BY <1>4 DEF enqueue
  <2>2. ASSUME rows_todo[1].to = "webhook"
        PROVE  Described \subseteq Described'
    <3>1. /\ rows_todo' \in Seq(Row) /\ rows_todo' # <<>> /\ said' = said
          /\ \A i \in DOMAIN rows_todo' : rows_todo'[i].about = rows_todo[1].about
      BY <1>4, <2>1, <2>2, RowIsPutIn
    <3>2. 1 \in DOMAIN rows_todo' /\ rows_todo'[1].about = rows_todo[1].about
      BY <3>1, OutboxDomain
    <3>3. \A i \in DOMAIN rows_todo : rows_todo[i].about = rows_todo[1].about
      BY <1>1 DEF RowsAtHand
    <3> QED BY <3>1, <3>2, <3>3 DEF Described
  <2> QED BY <1>4, <2>1, <2>2 DEF Recent
<1>5. ASSUME NEW status \in {"working", "waiting", "ended"}, RunChanges(status)
      PROVE  ~lost /\ Described \subseteq Described' /\ Recent \subseteq Recent'
  <2>1. run' \in Runs
    BY OutboxTypesKept DEF OutboxTypes, OutboxTypeOK
  <2>2. updates' = Append(updates, run') /\ UNCHANGED <<said, rows_todo, lost>>
    BY <1>5 DEF RunChanges
  <2>3. \A i \in DOMAIN updates : i \in DOMAIN updates' /\ updates'[i] = updates[i]
    BY <1>1, <2>1, <2>2, OutboxAppend
  <2>4. Described' = Described /\ ~lost
    BY <2>2 DEF Described
  <2> QED BY <2>3, <2>4 DEF Recent
<1>6. CASE HubComesBack
  <2>1. ~lost /\ updates = <<>> /\ rows_todo = <<>> /\ said' = said
    BY <1>6 DEF HubComesBack
  <2>2. Described = {said} /\ Recent = {said}
    BY <1>1, <2>1 DEF Described, Recent
  <2>3. said' \in Described' /\ Described' \subseteq Recent'
    BY DEF Described, Recent
  <2>4. ~enqueue
    BY <2>1, RowIsPutIn
  <2> QED BY <2>1, <2>2, <2>3, <2>4
<1>7. \A status : RunChanges(status) => ~enqueue \/ rows_todo' = rows_todo
  BY DEF RunChanges
<1> QED BY <1>2, <1>3, <1>4, <1>5, <1>6, OthersLeaveTheWorker

LEMMA LastRowKept ==
  ASSUME OutboxInv, OutboxNext
  PROVE  LastRowDescribes'
<1>1. /\ outbox \in Seq(Row) /\ Len(outbox) \in Nat /\ DOMAIN outbox = 1..Len(outbox)
      /\ RowsGoInOrder /\ LastRowDescribes
  BY OutboxFacts DEF OutboxInv
<1> SUFFICES ASSUME ~lost', NEW k \in DOMAIN outbox', Unseen(k)',
                    \A j \in DOMAIN outbox' : Unseen(j)' => j <= k
             PROVE  outbox'[k].about \in Described'
  BY DEF LastRowDescribes
<1>2. ~lost /\ (~enqueue => Described \subseteq Described')
  BY RecentStaysRecent
<1>3. CASE SameUnseen /\ ~enqueue
  <2>1. k \in DOMAIN outbox /\ Unseen(k) /\ outbox'[k].about = outbox[k].about
    BY <1>3 DEF SameUnseen
  <2>2. \A j \in DOMAIN outbox : Unseen(j) => j <= k
    BY <1>3 DEF SameUnseen
  <2>3. outbox[k].about \in Described
    BY <1>1, <1>2, <2>1, <2>2 DEF LastRowDescribes
  <2> QED BY <1>2, <1>3, <2>1, <2>3
<1>4. CASE enqueue
  <2> DEFINE r == rows_todo[1]
  <2>1. /\ r \in Row /\ r.state = "waiting" /\ r.about # NoRun
        /\ outbox' = Append(outbox, r) /\ rows_todo' \in Seq(Row)
        /\ \A i \in DOMAIN rows_todo' : rows_todo'[i].about = r.about
        /\ rows_todo' # <<>> => said' = said
        /\ rows_todo' = <<>> => said' = r.about
    BY <1>4, RowIsPutIn
  <2> HIDE DEF r
  <2>2. r.about \in Described'
    <3>1. CASE rows_todo' = <<>>
      BY <2>1, <3>1 DEF Described
    <3>2. CASE rows_todo' # <<>>
      <4>1. 1 \in DOMAIN rows_todo'
        BY <2>1, <3>2, OutboxDomain
      <4> QED BY <2>1, <4>1 DEF Described
    <3> QED BY <3>1, <3>2
  <2>3. /\ DOMAIN outbox' = 1..(Len(outbox) + 1) /\ outbox'[Len(outbox) + 1] = r
        /\ \A j \in 1..Len(outbox) : outbox'[j] = outbox[j]
    BY <1>1, <2>1, RowIsAdded
  <2>4. got' = got
    BY <1>4 DEF enqueue, server
  <2>5. CASE k = Len(outbox) + 1
    BY <2>2, <2>3, <2>5
  <2>6. CASE k # Len(outbox) + 1
    <3>1. k \in DOMAIN outbox /\ Unseen(k) /\ outbox'[k] = outbox[k]
      BY <1>1, <2>3, <2>4, <2>6 DEF Unseen, Pending
    <3>2. r.to # "bridge"
      <4>1. \A j \in DOMAIN outbox' : j = Len(outbox) + 1 /\ r.to = "bridge" => Unseen(j)'
        <5>1. Len(outbox) + 1 \notin got
          BY <1>1, OutboxFacts
        <5> QED BY <2>1, <2>3, <2>4, <5>1 DEF Unseen, Pending
      <4>2. Len(outbox) + 1 \in DOMAIN outbox' /\ ~(Len(outbox) + 1 <= k)
        BY <1>1, <2>3, <3>1
      <4> QED BY <4>1, <4>2
    <3>3. rows_todo[1].to = "webhook"
      BY <2>1, <3>2 DEF Row, r
    <3>4. Described \subseteq Described'
      BY <1>4, <3>3, RecentStaysRecent
    <3>5. \A j \in DOMAIN outbox : Unseen(j) => j <= k
      <4> SUFFICES ASSUME NEW j \in DOMAIN outbox, Unseen(j) PROVE j <= k
        OBVIOUS
      <4>1. j \in DOMAIN outbox' /\ Unseen(j)'
        BY <1>1, <2>3, <2>4 DEF Unseen, Pending
      <4> QED BY <4>1
    <3> QED BY <1>1, <1>2, <3>1, <3>4, <3>5 DEF LastRowDescribes
  <2> QED BY <2>5, <2>6
<1>5. CASE remove
  <2>1. DOMAIN outbox' = DOMAIN outbox /\ outbox'[k].to = outbox[k].to
        /\ outbox'[k].state = IF outbox[k].to = "bridge" THEN "failed" ELSE outbox[k].state
    BY <1>1, <1>5, BridgeRowsGo DEF remove
  <2> QED BY <2>1 DEF Unseen, Pending
<1>6. ASSUME NEW c \in Conn, NEW l \in DOMAIN outbox, connect_and_serve(c, l)
      PROVE  outbox'[k].about \in Described'
  <2>1. /\ got' = got \cup {l} /\ UNCHANGED outbox /\ l \in unacked(c)
        /\ (\A j \in unacked(c) : l <= j) /\ ~enqueue
    <3>1. rows_todo' = rows_todo /\ outbox' = outbox
      BY <1>6 DEF connect_and_serve, feed
    <3>2. ~enqueue
      <4>1. enqueue => Len(outbox') = Len(outbox) + 1
        <5> SUFFICES ASSUME enqueue PROVE Len(outbox') = Len(outbox) + 1
          OBVIOUS
        <5>1. rows_todo[1] \in Row /\ outbox' = Append(outbox, rows_todo[1])
          BY RowIsPutIn
        <5> QED BY <1>1, <5>1, RowIsAdded
      <4>2. Len(outbox') = Len(outbox)
        BY <3>1
      <4>3. \A n \in Nat : n # n + 1
        OBVIOUS
      <4> QED BY <1>1, <4>1, <4>2, <4>3
    <3> QED BY <1>6, <3>2 DEF connect_and_serve
  <2>2. Unseen(k) /\ k # l /\ k \in DOMAIN outbox
    BY <2>1 DEF Unseen, Pending
  <2>3. k > conn[c].last_sent
    BY <1>1, <2>2, OutboxFacts DEF RowsGoInOrder, Unseen
  <2>4. l <= k
    BY <2>1, <2>2, <2>3 DEF unacked, Unseen, Pending
  <2>5. ASSUME NEW j \in DOMAIN outbox, Unseen(j) PROVE j <= k
    <3>1. CASE j = l
      BY <2>4, <3>1
    <3>2. CASE j # l
      <4>1. Unseen(j)' /\ j \in DOMAIN outbox'
        BY <2>1, <2>5, <3>2 DEF Unseen, Pending
      <4> QED BY <4>1
    <3> QED BY <3>1, <3>2
  <2>6. outbox[k].about \in Described
    BY <1>1, <1>2, <2>2, <2>5 DEF LastRowDescribes
  <2> QED BY <1>2, <2>1, <2>6
<1> QED BY <1>3, <1>4, <1>5, <1>6, WhatIsUnseen

(* A bridge that is up was up, with the same view, or has just sent its    *)
(* snapshot, or a row.                                                     *)
LEMMA WhatIsShown ==
  ASSUME OutboxInv, OutboxNext, ~doubled', NEW c \in Conn, conn'[c].state = "up"
  PROVE  /\ ~doubled /\ ~remove
         /\ \/ conn[c].state = "up" /\ view' = view
            \/ view' = run /\ UNCHANGED <<run, Worker>> /\ UNCHANGED <<outbox, got>>
            \/ \E k \in DOMAIN outbox : connect_and_serve(c, k)
<1>1. ASSUME UNCHANGED <<conn, view, doubled>>, ~remove
      PROVE  conn[c].state = "up" /\ view' = view /\ ~doubled /\ ~remove
  BY <1>1
<1>2. remove => FALSE
  <2> SUFFICES ASSUME remove PROVE FALSE
    OBVIOUS
  <2>1. conn'[c].state = "none"
    BY AbortEndsTasks DEF remove
  <2> QED BY <2>1
<1>3. ASSUME NEW to, update(to) PROVE FALSE
  <2>1. conn'[c].state = "none"
    BY <1>3, AbortEndsTasks DEF update
  <2> QED BY <2>1
<1>4. CASE HubComesBack
  BY <1>4 DEF HubComesBack, NoLink
<1>5. CASE sync
  <2>1. PICK d \in Conn : conn' = [conn EXCEPT ![d].state = "connecting"]
    BY <1>5 DEF sync
  <2>2. d # c /\ conn'[c] = conn[c]
    <3>1. conn'[d].state = "connecting" /\ \A e \in Conn \ {d} : conn'[e] = conn[e]
      BY <2>1, OneConnChanges
    <3> QED BY <3>1
  <2> QED BY <1>2, <1>5, <2>2 DEF sync, server
<1>6. ASSUME NEW d \in Conn, keep_connected(d)
      PROVE  /\ ~doubled
             /\ \/ conn[c].state = "up" /\ view' = view
                \/ view' = run /\ UNCHANGED <<run, Worker>> /\ UNCHANGED <<outbox, got>>
  <2>1. UNCHANGED <<run, Worker>> /\ UNCHANGED <<outbox, got>> /\ ~doubled
    BY <1>6 DEF keep_connected, feed, Worker
  <2>2. CASE conn' = [conn EXCEPT ![d] = NoLink] /\ view' = view
    <3>1. conn'[d] = NoLink /\ \A e \in Conn \ {d} : conn'[e] = conn[e]
      BY <2>2, OneConnChanges
    <3>2. conn'[c] = conn[c]
      BY <3>1 DEF NoLink
    <3> QED BY <2>1, <2>2, <3>2
  <2>3. CASE view' = run
    BY <2>1, <2>3
  <2> QED BY <1>6, <2>2, <2>3 DEF keep_connected
<1>7. ASSUME NEW d \in Conn, ConnectionLost(d)
      PROVE  ~doubled /\ conn[c].state = "up" /\ view' = view
  <2> DEFINE v == [NoLink EXCEPT !.state = "connecting"]
  <2>1. v.state = "connecting" /\ conn' = [conn EXCEPT ![d] = v]
    BY <1>7 DEF ConnectionLost, NoLink
  <2> HIDE DEF v
  <2>2. conn'[d] = v /\ \A e \in Conn \ {d} : conn'[e] = conn[e]
    BY <2>1, OneConnChanges
  <2>3. conn'[c] = conn[c]
    BY <2>1, <2>2
  <2> QED BY <1>7, <2>3 DEF ConnectionLost, server
<1>8. ASSUME NEW d \in Conn, NEW k \in DOMAIN outbox, connect_and_serve(d, k)
      PROVE  ~doubled /\ d = c
  <2>1. ~doubled /\ conn[d].state = "up" /\ conn' = [conn EXCEPT ![d].last_sent = k]
    BY <1>8 DEF connect_and_serve
  <2>2. conn[c].state = "up"
    <3>1. conn'[d].state = conn[d].state /\ \A e \in Conn \ {d} : conn'[e] = conn[e]
      BY <2>1, OneConnChanges
    <3> QED BY <2>1, <3>1
  <2> QED BY <2>1, <2>2 DEF OutboxInv, OneTaskServes
<1>9. ASSUME NEW d \in Conn, handle_command(d) \/ run_command(d) \/ save_command_result(d)
      PROVE  ~doubled /\ conn[c].state = "up" /\ view' = view
  <2>1. PICK s : conn' = conn \/ conn' = [conn EXCEPT ![d].command = s]
    BY <1>9 DEF handle_command, run_command, save_command_result
  <2>2. conn'[c].state = conn[c].state
    <3>1. CASE conn' = conn
      BY <3>1
    <3>2. CASE conn' = [conn EXCEPT ![d].command = s]
      <4>1. conn'[d].state = conn[d].state /\ \A e \in Conn \ {d} : conn'[e] = conn[e]
        BY <3>2, OneConnChanges
      <4> QED BY <4>1
    <3> QED BY <2>1, <3>1, <3>2
  <2>3. UNCHANGED <<view, doubled>>
    BY <1>9 DEF handle_command, run_command, save_command_result
  <2> QED BY <2>2, <2>3
<1>10. CASE on_run \/ enqueue \/ on_machine \/ create
  BY <1>1, <1>2, <1>10 DEF on_run, enqueue, on_machine, create, link, server
<1>11. ASSUME NEW status, RunChanges(status)
       PROVE  conn[c].state = "up" /\ view' = view /\ ~doubled /\ ~remove
  BY <1>1, <1>2, <1>11 DEF RunChanges, link, server
<1>12. ASSUME NEW to, enqueue_test(to)
       PROVE  conn[c].state = "up" /\ view' = view /\ ~doubled /\ ~remove
  BY <1>1, <1>2, <1>12 DEF enqueue_test, link, server
<1>13. ASSUME NEW k, NEW outcome, deliver_due(k, outcome)
       PROVE  conn[c].state = "up" /\ view' = view /\ ~doubled /\ ~remove
  BY <1>1, <1>2, <1>13 DEF deliver_due, link
<1>14. ASSUME NEW d, NEW k, HandleAck(d, k)
       PROVE  conn[c].state = "up" /\ view' = view /\ ~doubled /\ ~remove
  BY <1>1, <1>2, <1>14 DEF HandleAck, link, server
<1> QED BY <1>2, <1>3, <1>4, <1>5, <1>6, <1>7, <1>8, <1>9, <1>10, <1>11, <1>12, <1>13,
           <1>14 DEF OutboxNext

LEMMA ViewKept ==
  ASSUME OutboxInv, OutboxNext
  PROVE  ViewIsRecent'
<1>1. /\ outbox \in Seq(Row) /\ Len(outbox) \in Nat /\ DOMAIN outbox = 1..Len(outbox)
      /\ updates \in Seq(Runs) /\ DOMAIN updates = 1..Len(updates) /\ Len(updates) \in Nat
      /\ rows_todo \in Seq(Row) /\ DOMAIN rows_todo = 1..Len(rows_todo)
      /\ Len(rows_todo) \in Nat
      /\ RowsGoInOrder /\ LastRowDescribes /\ ViewIsRecent /\ NewestIsUnderWay
  BY OutboxFacts DEF OutboxInv
<1> SUFFICES ASSUME ~lost', ~doubled', NEW c \in Conn, conn'[c].state = "up",
                    \A k \in DOMAIN outbox' : ~Unseen(k)'
             PROVE  view' \in Recent'
  BY DEF ViewIsRecent
<1>2. /\ ~lost /\ (~enqueue => Described \subseteq Described' /\ Recent \subseteq Recent')
      /\ (enqueue /\ rows_todo[1].to = "webhook" => Recent \subseteq Recent')
  BY RecentStaysRecent
<1>3. ~doubled /\ ~remove
  BY WhatIsShown
<1>4. run \in Recent
  <2>1. CASE updates # <<>>
    BY <1>1, <1>2, <2>1, OutboxDomain DEF NewestIsUnderWay, Recent
  <2>2. CASE updates = <<>> /\ rows_todo # <<>>
    BY <1>1, <1>2, <2>2, OutboxDomain DEF NewestIsUnderWay, Recent, Described
  <2>3. CASE updates = <<>> /\ rows_todo = <<>>
    BY <1>1, <1>2, <2>3 DEF NewestIsUnderWay, Recent, Described
  <2> QED BY <2>1, <2>2, <2>3
<1>5. CASE enqueue
  <2> DEFINE r == rows_todo[1]
  <2>1. /\ r \in Row /\ r.state = "waiting" /\ r.about # NoRun
        /\ outbox' = Append(outbox, r)
    BY <1>5, RowIsPutIn
  <2>2. got' = got /\ conn' = conn /\ view' = view
    BY <1>5 DEF enqueue, server, link
  <2> HIDE DEF r
  <2>3. /\ DOMAIN outbox' = 1..(Len(outbox) + 1) /\ outbox'[Len(outbox) + 1] = r
        /\ \A j \in 1..Len(outbox) : outbox'[j] = outbox[j]
    BY <1>1, <2>1, RowIsAdded
  <2>4. r.to # "bridge"
    <3>1. Len(outbox) + 1 \notin got
      BY <1>1, OutboxFacts
    <3>2. \A j \in DOMAIN outbox' : j = Len(outbox) + 1 /\ r.to = "bridge" => Unseen(j)'
      BY <2>1, <2>2, <2>3, <3>1 DEF Unseen, Pending
    <3>3. Len(outbox) + 1 \in DOMAIN outbox'
      BY <1>1, <2>3
    <3> QED BY <3>2, <3>3
  <2>5. \A k \in DOMAIN outbox : ~Unseen(k)
    <3> SUFFICES ASSUME NEW k \in DOMAIN outbox, Unseen(k) PROVE FALSE
      OBVIOUS
    <3>1. k \in DOMAIN outbox' /\ Unseen(k)'
      BY <1>1, <2>2, <2>3 DEF Unseen, Pending
    <3> QED BY <3>1
  <2>6. view \in Recent
    BY <1>1, <1>2, <1>3, <2>2, <2>5 DEF ViewIsRecent
  <2>7. rows_todo[1].to = "webhook"
    BY <2>1, <2>4 DEF Row, r
  <2> QED BY <1>2, <1>5, <2>2, <2>6, <2>7
<1>6. ASSUME NEW d \in Conn, NEW l \in DOMAIN outbox, connect_and_serve(d, l), ~enqueue
      PROVE  view' \in Recent'
  <2>1. /\ got' = got \cup {l} /\ UNCHANGED outbox /\ l \in unacked(d)
        /\ conn[d].state = "up" /\ conn' = [conn EXCEPT ![d].last_sent = l]
        /\ view' = IF l \in got \/ outbox[l].about = NoRun THEN view ELSE outbox[l].about
    BY <1>6 DEF connect_and_serve
  <2>2. \A k \in DOMAIN outbox : Unseen(k) => k = l
    BY <2>1 DEF Unseen, Pending
  <2>3. CASE Unseen(l)
    <3>1. \A k \in DOMAIN outbox : Unseen(k) => k <= l
      BY <1>1, <2>2
    <3>2. outbox[l].about \in Described
      BY <1>1, <1>2, <2>3, <3>1 DEF LastRowDescribes
    <3>3. view' = outbox[l].about
      BY <2>1, <2>3 DEF Unseen
    <3> QED BY <1>2, <1>6, <3>2, <3>3 DEF Recent
  <2>4. CASE ~Unseen(l)
    <3>1. \A k \in DOMAIN outbox : ~Unseen(k)
      BY <2>2, <2>4
    <3>2. view \in Recent
      BY <1>1, <1>2, <1>3, <2>1, <3>1 DEF ViewIsRecent
    <3>3. view' = view
      BY <2>1, <2>4 DEF Unseen, Pending, unacked
    <3> QED BY <1>2, <1>6, <3>2, <3>3
  <2> QED BY <2>3, <2>4
<1>7. CASE ~enqueue /\ SameUnseen
  <2>1. \A k \in DOMAIN outbox : ~Unseen(k)
    BY <1>7 DEF SameUnseen
  <2>2. CASE conn[c].state = "up" /\ view' = view
    BY <1>1, <1>2, <1>3, <1>7, <2>1, <2>2 DEF ViewIsRecent
  <2>3. CASE view' = run
    BY <1>2, <1>4, <1>7, <2>3
  <2>4. CASE \E k \in DOMAIN outbox : connect_and_serve(c, k)
    BY <1>6, <1>7, <2>4
  <2> QED BY <2>2, <2>3, <2>4, WhatIsShown
<1> QED BY <1>3, <1>5, <1>6, <1>7, WhatIsUnseen

LEMMA OutboxInvNext ==
  ASSUME OutboxInv, [OutboxNext]_outboxVars
  PROVE  OutboxInv'
<1>1. CASE OutboxNext
  BY <1>1, OutboxTypesKept, RowOrderKept, OneTaskKept, RowsAtHandKept, LastRowKept, ViewKept
     DEF OutboxInv
<1>2. CASE UNCHANGED outboxVars
  <2>1. OutboxTypes'
    BY <1>2 DEF OutboxInv, OutboxTypes, OutboxTypeOK, outboxVars
  <2>2. RowsGoInOrder' /\ OneTaskServes' /\ RowsAtHand' /\ NewestIsUnderWay'
    BY <1>2 DEF OutboxInv, RowsGoInOrder, DeliveredMeansReceived, Pending, OneTaskServes,
                RowsAtHand, NewestIsUnderWay, outboxVars
  <2>3. LastRowDescribes' /\ ViewIsRecent'
    BY <1>2 DEF OutboxInv, LastRowDescribes, ViewIsRecent, Described, Recent, Unseen, Pending,
                outboxVars
  <2> QED BY <2>1, <2>2, <2>3 DEF OutboxInv
<1> QED BY <1>1, <1>2

(* The three promises follow: a bridge that is up to date has every row    *)
(* about the run, and nothing is under way that could be newer.            *)
LEMMA OutboxInvSuffices ==
  ASSUME OutboxInv
  PROVE  IntegrationsAreSound
<1>1. DeliveredMeansReceived
  BY DEF OutboxInv, RowsGoInOrder
<1>2. CommandsRunOnce
  BY DEF OutboxInv, OneTaskServes, CommandsRunOnce
<1>3. BridgeConverges
  <2> SUFFICES ASSUME NEW c \in Conn, ~lost, worker = "idle", updates = <<>>,
                      conn[c].state = "up", unacked(c) = {}, ~doubled
               PROVE  view = run
    BY DEF BridgeConverges
  <2>1. rows_todo = <<>> /\ run = said
    BY DEF OutboxInv, RowsAtHand, NewestIsUnderWay
  <2>2. Recent = {said}
    BY <2>1 DEF Recent, Described
  <2>3. ASSUME NEW k \in DOMAIN outbox, Unseen(k) PROVE FALSE
    <3>1. k <= conn[c].last_sent
      <4>1. k \notin unacked(c)
        OBVIOUS
      <4>2. k \in Nat /\ conn[c].last_sent \in Nat
        BY OutboxFacts
      <4> QED BY <2>3, <4>1, <4>2 DEF unacked, Unseen, Pending
    <3> QED BY <2>3, <3>1 DEF OutboxInv, RowsGoInOrder, Unseen
  <2>4. view \in Recent
    BY <2>3 DEF OutboxInv, ViewIsRecent
  <2> QED BY <2>1, <2>2, <2>4
<1> QED BY <1>1, <1>2, <1>3 DEF IntegrationsAreSound

(* Whatever is turned off, removed, restarted, cut off or answered late: a *)
(* row stamped as delivered was received, a bridge that is up to date      *)
(* shows the run as it is, and a command runs once (webhooks.rs,           *)
(* bridge.rs).  For any number of connections, changes and faults, and any *)
(* choice of events.                                                       *)
THEOREM IntegrationsStaySound == OutboxSpec => []IntegrationsAreSound
<1>1. OutboxInit => OutboxInv
  BY OutboxStarts
<1>2. OutboxInv /\ [OutboxNext]_outboxVars => OutboxInv'
  BY OutboxInvNext
<1>3. OutboxInv => IntegrationsAreSound
  BY OutboxInvSuffices
<1> QED BY <1>1, <1>2, <1>3, PTL DEF OutboxSpec

(* The outbox, the connections and the worker keep their types. *)
THEOREM OutboxTypesHold == OutboxSpec => []OutboxTypeOK
<1>1. OutboxInit => OutboxInv
  BY OutboxStarts
<1>2. OutboxInv /\ [OutboxNext]_outboxVars => OutboxInv'
  BY OutboxInvNext
<1>3. OutboxInv => OutboxTypeOK
  BY DEF OutboxInv, OutboxTypes
<1> QED BY <1>1, <1>2, <1>3, PTL DEF OutboxSpec
=============================================================================
