---------------------------- MODULE BrowserProofs ----------------------------
(***************************************************************************)
(* Proofs about the pages that people and agents share: who operates an    *)
(* agent browser (BrowserControl), for every number of devices, timers and *)
(* concurrent readers of the control state; and the previews of a node's   *)
(* ports (WebPreview), for every number of leases, streams, connections    *)
(* and chunks. The two components share no variable.                       *)
(***************************************************************************)
EXTENDS BrowserControl, WebPreview, FiniteSetTheorems, TLAPS

(* What the history variable says is in the hub's own state: a person who  *)
(* operated the page within the window has an activity entry, and the      *)
(* browser is one that the hub lists.                                      *)
OperatedIsRecorded == operated => activity /\ live

(* The safety half of "no wakeup is lost": a request that is parked for a  *)
(* condition that holds has been notified and not looked yet.              *)
ParkedIsNotified == poll = "parked" /\ live /\ Ready => dirty

(* A channel nobody waits on is not dirty: a request starts with a clean   *)
(* one, so what it sees as a change happened after its first look.         *)
IdleIsClean == poll = "off" => ~dirty /\ wanted = "agent"

(* The timers entry refers to a task that has not ended: an entry that is  *)
(* kept because it is for the same device is one that somebody acts on.    *)
TimerIsRunning == timer # NoTask => task[timer].phase # "free"

IInv == TypeOK /\ OperatedIsRecorded /\ ParkedIsNotified /\ IdleIsClean /\ TimerIsRunning

USE NamesDiffer, NoTaskAssumption, MaxViewersAssumption

-----------------------------------------------------------------------------
LEMMA InitInv == ASSUME Init PROVE IInv
<1>1. TypeOK
  <2>1. viewers \in [Device -> 0..MaxViewers]
    BY DEF Init
  <2>2. /\ task \in [Task -> [device : Device \cup {NoDevice}, phase : Phase]]
        /\ recon \in [Reconciler -> [device : Device \cup {NoDevice}, step : Step]]
    BY DEF Init, NoneTask, NoRecon, Phase, Step
  <2> QED BY <2>1, <2>2 DEF Init, TypeOK
<1>2. OperatedIsRecorded /\ ParkedIsNotified /\ IdleIsClean /\ TimerIsRunning
  BY DEF Init, OperatedIsRecorded, ParkedIsNotified, IdleIsClean, TimerIsRunning
<1> QED BY <1>1, <1>2 DEF IInv

(* A change of control is announced, so a request that is parked hears of  *)
(* the one that makes its condition true.                                  *)
LEMMA ControlInv ==
    ASSUME IInv, NEW r \in Reconciler,
           change_control(r) \/ request_handoff(r) \/ \E force \in BOOLEAN : reclaim(r, force)
    PROVE  IInv'
<1> USE DEF IInv
<1>1. UNCHANGED <<live, viewers, timer, task, poll, wanted>>
  BY DEF change_control, request_handoff, reclaim, apply_agent_browser_control, Reconcile,
         timing, polling
<1>2. /\ controller' \in Device \cup {Agent} /\ handoff' \in BOOLEAN
      /\ activity' \in BOOLEAN /\ operated' \in BOOLEAN
  BY DEF change_control, request_handoff, reclaim, apply_agent_browser_control, Take, Release,
         Handoff, TypeOK
<1>3. recon' \in [Reconciler -> [device : Device \cup {NoDevice}, step : Step]]
  BY DEF change_control, request_handoff, reclaim, Reconcile, TypeOK, Step
<1>4. raced' \in BOOLEAN /\ dirty' \in BOOLEAN
  BY DEF change_control, request_handoff, reclaim, apply_agent_browser_control, Watched, Reading,
         send_event, TypeOK
<1>5. operated' => activity' /\ live'
  BY DEF change_control, request_handoff, reclaim, apply_agent_browser_control, Take, Release,
         Handoff, OperatedIsRecorded
<1>6. /\ poll # "off" /\ (dirty \/ controller' # controller \/ handoff' # handoff) => dirty'
      /\ poll = "off" => ~dirty'
  BY DEF change_control, request_handoff, reclaim, apply_agent_browser_control, send_event
<1>7. ParkedIsNotified'
  <2>1. CASE controller' # controller \/ handoff' # handoff
    BY <1>1, <1>6, <2>1 DEF ParkedIsNotified
  <2>2. CASE controller' = controller /\ handoff' = handoff
    BY <1>1, <1>6, <2>2 DEF ParkedIsNotified, Ready
  <2> QED BY <2>1, <2>2
<1> QED
  BY <1>1, <1>2, <1>3, <1>4, <1>5, <1>6, <1>7
     DEF TypeOK, OperatedIsRecorded, IdleIsClean, TimerIsRunning

(* What the node reports: a browser new to the hub is announced, and one   *)
(* it forgets is not there for anybody to wait for.                        *)
LEMMA NodeInv ==
    ASSUME IInv, (\E changed \in BOOLEAN : NodeReports(changed)) \/ NodeDestroys \/ remove_machine
    PROVE  IInv'
<1> USE DEF IInv
<1>1. UNCHANGED <<viewers, timer, task, recon, poll, wanted>>
  BY DEF NodeReports, NodeDestroys, remove_machine, timing, polling
<1>2. /\ controller' \in Device \cup {Agent} /\ handoff' \in BOOLEAN /\ live' \in BOOLEAN
      /\ activity' \in BOOLEAN /\ operated' \in BOOLEAN
  BY DEF NodeReports, NodeDestroys, remove_machine, Vanish, upsert_agent_browser, TypeOK
<1>3. raced' \in BOOLEAN /\ dirty' \in BOOLEAN
  BY DEF NodeReports, NodeDestroys, remove_machine, Watched, Reading, send_event, TypeOK
<1>4. operated' => activity' /\ live'
  BY DEF NodeReports, NodeDestroys, remove_machine, Vanish, upsert_agent_browser,
         OperatedIsRecorded
<1>5. ParkedIsNotified' /\ IdleIsClean'
  <2>1. CASE live' /\ live
    <3>1. UNCHANGED <<controller, handoff>> /\ (poll # "off" /\ dirty => dirty')
      BY <2>1 DEF NodeReports, NodeDestroys, remove_machine, Vanish, upsert_agent_browser, send_event
    <3>2. poll = "off" => ~dirty'
      BY DEF NodeReports, NodeDestroys, remove_machine, send_event, IdleIsClean
    <3> QED BY <1>1, <2>1, <3>1, <3>2 DEF ParkedIsNotified, IdleIsClean, Ready
  <2>2. CASE live' /\ ~live
    <3>1. (poll # "off" => dirty') /\ (poll = "off" => ~dirty')
      BY <2>2 DEF NodeReports, NodeDestroys, remove_machine, Vanish, send_event
    <3> QED BY <1>1, <3>1 DEF ParkedIsNotified, IdleIsClean
  <2>3. CASE ~live'
    <3>1. poll = "off" => ~dirty'
      BY DEF NodeReports, NodeDestroys, remove_machine, send_event, IdleIsClean
    <3> QED BY <1>1, <2>3, <3>1 DEF ParkedIsNotified, IdleIsClean
  <2> QED BY <2>1, <2>2, <2>3
<1> QED
  BY <1>1, <1>2, <1>3, <1>4, <1>5 DEF TypeOK, OperatedIsRecorded, TimerIsRunning

(* Viewers come and go, the controller operates the page or stops. *)
LEMMA ViewerInv ==
    ASSUME IInv,
           \/ \E d \in Device, r \in Reconciler :
                attach_agent_browser_viewer(d, r) \/ drop_viewer(d, r)
           \/ \E d \in Device, operating \in BOOLEAN : agent_browser_input(d, operating)
           \/ IdleWindowPasses
    PROVE  IInv'
<1> USE DEF IInv
<1>1. UNCHANGED <<live, controller, handoff, timer, task, poll, wanted, dirty>>
  BY DEF attach_agent_browser_viewer, drop_viewer, agent_browser_input, IdleWindowPasses,
         Reconcile, ctrl, timing, polling
<1>2. activity' \in BOOLEAN /\ operated' \in BOOLEAN
  BY DEF attach_agent_browser_viewer, drop_viewer, agent_browser_input, IdleWindowPasses, ctrl,
         TypeOK
<1>5. operated' => activity' /\ live'
  BY DEF attach_agent_browser_viewer, drop_viewer, agent_browser_input, IdleWindowPasses, ctrl,
         OperatedIsRecorded
<1>3. raced' \in BOOLEAN
  BY DEF attach_agent_browser_viewer, drop_viewer, agent_browser_input, IdleWindowPasses,
         Watched, Reading, TypeOK
<1>4. /\ viewers' \in [Device -> 0..MaxViewers]
      /\ recon' \in [Reconciler -> [device : Device \cup {NoDevice}, step : Step]]
  <2>1. /\ viewers \in [Device -> 0..MaxViewers]
        /\ recon \in [Reconciler -> [device : Device \cup {NoDevice}, step : Step]]
    BY DEF TypeOK
  <2>2. ASSUME NEW r \in Reconciler, Reconcile(r)
        PROVE  recon' \in [Reconciler -> [device : Device \cup {NoDevice}, step : Step]]
    <3> DEFINE v == [recon[r] EXCEPT !.step = "read"]
    <3>1. v \in [device : Device \cup {NoDevice}, step : Step] /\ recon' = [recon EXCEPT ![r] = v]
      BY <2>1, <2>2 DEF Reconcile, Step
    <3> HIDE DEF v
    <3> QED BY <2>1, <3>1
  <2>3. ASSUME NEW d \in Device, NEW r \in Reconciler,
               attach_agent_browser_viewer(d, r) \/ drop_viewer(d, r)
        PROVE  /\ viewers' \in [Device -> 0..MaxViewers]
               /\ recon' \in [Reconciler -> [device : Device \cup {NoDevice}, step : Step]]
    <3>1. viewers' \in [Device -> 0..MaxViewers]
      BY <2>1, <2>3 DEF attach_agent_browser_viewer, drop_viewer
    <3>2. Reconcile(r)
      BY <2>3 DEF attach_agent_browser_viewer, drop_viewer
    <3> QED BY <2>2, <3>1, <3>2
  <2>4. ASSUME \/ \E d \in Device, operating \in BOOLEAN : agent_browser_input(d, operating)
               \/ IdleWindowPasses
        PROVE  UNCHANGED <<viewers, recon>>
    BY <2>4 DEF agent_browser_input, IdleWindowPasses, timing
  <2> QED BY <2>1, <2>3, <2>4
<1> QED
  BY <1>1, <1>2, <1>3, <1>4, <1>5
     DEF TypeOK, OperatedIsRecorded, ParkedIsNotified, Ready, IdleIsClean, TimerIsRunning

(* A reader of the control state looks and updates the timer. *)
LEMMA ReconcileInv ==
    ASSUME IInv, NEW r \in Reconciler,
           ReadController(r) \/ ReadViewers(r) \/ reconcile_control_timer(r)
    PROVE  IInv'
<1> USE DEF IInv
<1>1. UNCHANGED <<live, controller, handoff, activity, viewers, poll, wanted, dirty, operated, raced>>
  BY DEF ReadController, ReadViewers, reconcile_control_timer, ctrl, polling
<1>2. recon' \in [Reconciler -> [device : Device \cup {NoDevice}, step : Step]]
  BY DEF ReadController, ReadViewers, reconcile_control_timer, NoRecon, TypeOK, Step
<1>3. /\ timer' \in Task \cup {NoTask}
      /\ task' \in [Task -> [device : Device \cup {NoDevice}, phase : Phase]]
      /\ TimerIsRunning'
  <2>1. CASE ReadController(r) \/ ReadViewers(r)
    BY <2>1 DEF ReadController, ReadViewers, TypeOK, TimerIsRunning
  <2>2. CASE reconcile_control_timer(r)
    <3>1. Aborted(timer) \in [Task -> [device : Device \cup {NoDevice}, phase : Phase]]
      BY DEF Aborted, NoneTask, TypeOK, Phase
    <3>2. recon[r].device \in Device \cup {NoDevice}
      BY DEF TypeOK
    <3>3. CASE recon[r].device = NoDevice
      BY <2>2, <3>1, <3>3 DEF reconcile_control_timer, UpdateTimer, TimerIsRunning
    <3>4. CASE recon[r].device # NoDevice /\ UNCHANGED <<timer, task>>
      BY <3>4 DEF TypeOK, TimerIsRunning
    <3>5. CASE recon[r].device # NoDevice /\ ~UNCHANGED <<timer, task>>
      <4>1. PICK t \in Task :
              /\ timer' = t
              /\ task' = [Aborted(timer) EXCEPT ![t] =
                            [device |-> recon[r].device, phase |-> "sleep"]]
        BY <2>2, <3>5 DEF reconcile_control_timer, UpdateTimer
      <4> QED BY <3>1, <3>2, <4>1 DEF TimerIsRunning, Phase
    <3> QED BY <3>3, <3>4, <3>5
  <2> QED BY <2>1, <2>2
<1> QED
  BY <1>1, <1>2, <1>3 DEF TypeOK, OperatedIsRecorded, ParkedIsNotified, Ready, IdleIsClean

(* The end of a grace period: what it releases is announced, and the entry *)
(* it leaves is not its own.                                               *)
LEMMA ExpireInv ==
    ASSUME IInv, NEW t \in Task, ExpireCheck(t) \/ ExpireRelease(t) \/ ExpireFinish(t)
    PROVE  IInv'
<1> USE DEF IInv
<1>1. UNCHANGED <<live, viewers, recon, poll, wanted>>
  BY DEF ExpireCheck, ExpireRelease, ExpireFinish, apply_agent_browser_control, ctrl, polling
<1>2. /\ controller' \in Device \cup {Agent} /\ handoff' \in BOOLEAN
      /\ activity' \in BOOLEAN /\ operated' \in BOOLEAN
  BY DEF ExpireCheck, ExpireRelease, ExpireFinish, apply_agent_browser_control, Release, ctrl,
         TypeOK
<1>7. operated' => activity' /\ live'
  BY DEF ExpireCheck, ExpireRelease, ExpireFinish, apply_agent_browser_control, Release, ctrl,
         OperatedIsRecorded
<1>3. raced' \in BOOLEAN /\ dirty' \in BOOLEAN
  BY DEF ExpireCheck, ExpireRelease, ExpireFinish, apply_agent_browser_control, Watched, Reading,
         send_event, TypeOK
<1>4. ParkedIsNotified' /\ IdleIsClean'
  <2>1. /\ poll # "off" /\ (dirty \/ controller' # controller \/ handoff' # handoff) => dirty'
        /\ poll = "off" => ~dirty'
    <3>1. CASE live /\ ExpireRelease(t)
      BY <3>1 DEF ExpireRelease, apply_agent_browser_control, send_event
    <3>2. CASE ~(live /\ ExpireRelease(t))
      <4>1. UNCHANGED <<controller, handoff, dirty>>
        BY <3>2 DEF ExpireCheck, ExpireRelease, ExpireFinish, apply_agent_browser_control, ctrl
      <4> QED BY <4>1 DEF IdleIsClean, TypeOK
    <3> QED BY <3>1, <3>2
  <2>2. CASE controller' # controller \/ handoff' # handoff
    BY <1>1, <2>1, <2>2 DEF ParkedIsNotified, IdleIsClean
  <2>3. CASE controller' = controller /\ handoff' = handoff
    BY <1>1, <2>1, <2>3 DEF ParkedIsNotified, IdleIsClean, Ready
  <2> QED BY <2>2, <2>3
<1>5. task' \in [Task -> [device : Device \cup {NoDevice}, phase : Phase]]
  BY DEF ExpireCheck, ExpireRelease, ExpireFinish, NoneTask, TypeOK, Phase
<1>6. timer' \in Task \cup {NoTask} /\ TimerIsRunning'
  BY DEF ExpireCheck, ExpireRelease, ExpireFinish, TimerDevice, TimerIsRunning, TypeOK
<1> QED
  BY <1>1, <1>2, <1>3, <1>4, <1>5, <1>6, <1>7 DEF TypeOK, OperatedIsRecorded

(* A request parks only on a condition that does not hold, and its waking  *)
(* takes the notification with it.                                         *)
LEMMA PollInv ==
    ASSUME IInv, (\E w \in {"agent", "resolved"} : wait_control(w)) \/ CheckControl \/ WakeUp \/ PollTimeout
    PROVE  IInv'
<1> USE DEF IInv
<1>1. UNCHANGED <<live, controller, handoff, activity, viewers, timer, task, recon, operated, raced>>
  BY DEF wait_control, CheckControl, WakeUp, PollTimeout, ctrl, timing
<1>2. /\ poll' \in {"off", "check", "parked"} /\ wanted' \in {"agent", "resolved"}
      /\ dirty' \in BOOLEAN
  BY DEF wait_control, CheckControl, WakeUp, PollTimeout, PollEnds, TypeOK
<1>3. poll' = "parked" => ~(live' /\ Ready')
  BY <1>1 DEF wait_control, CheckControl, WakeUp, PollTimeout, PollEnds, Ready
<1>4. IdleIsClean'
  BY DEF wait_control, CheckControl, WakeUp, PollTimeout, PollEnds, IdleIsClean
<1> QED
  BY <1>1, <1>2, <1>3, <1>4 DEF TypeOK, OperatedIsRecorded, ParkedIsNotified, TimerIsRunning

LEMMA StepInv == IInv /\ [Next]_vars => IInv'
<1> SUFFICES ASSUME IInv, [Next]_vars PROVE IInv'
  OBVIOUS
<1>1. CASE Next
  BY <1>1, ControlInv, NodeInv, ViewerInv, ReconcileInv, ExpireInv, PollInv DEF Next
<1>2. CASE UNCHANGED vars
  BY <1>2 DEF vars, ctrl, timing, polling, IInv, TypeOK, OperatedIsRecorded, ParkedIsNotified,
              Ready, IdleIsClean, TimerIsRunning
<1> QED BY <1>1, <1>2

LEMMA SpecInv == Spec => []IInv
BY InitInv, StepInv, PTL DEF Spec

-----------------------------------------------------------------------------
(* Every variable keeps its type. *)
THEOREM ControlTypes == Spec => []TypeOK
<1>1. IInv => TypeOK
  BY DEF IInv
<1> QED BY <1>1, SpecInv, PTL

(* No wakeup is lost: however takes, releases, expiries and the node's     *)
(* reports interleave with the agent's request, a request parked for a     *)
(* condition that holds has a notification it has not looked at.           *)
THEOREM WakeupsAreKept == Spec => []ParkedIsNotified
<1>1. IInv => ParkedIsNotified
  BY DEF IInv
<1> QED BY <1>1, SpecInv, PTL

(* A grace period that the hub counts on is one that runs: the entry kept  *)
(* in agent_browser_timers never refers to a task that has ended.          *)
THEOREM TimersRun == Spec => []TimerIsRunning
<1>1. IInv => TimerIsRunning
  BY DEF IInv
<1> QED BY <1>1, SpecInv, PTL

(* A person who operated the page within the window keeps it against an    *)
(* agent's reclaim that is not forced and against the node's reports.      *)
THEOREM ActivePersonKeeps == Spec => ActivePersonKeepsControl
<1>1. IInv /\ [Next]_vars =>
        [operated /\ (\/ \E r \in Reconciler : reclaim(r, FALSE)
                      \/ \E changed \in BOOLEAN : NodeReports(changed))
            => controller' = controller]_vars
  BY DEF IInv, OperatedIsRecorded, reclaim, Idle, NodeReports, upsert_agent_browser
<1> QED BY <1>1, SpecInv, PTL DEF Spec, ActivePersonKeepsControl

-----------------------------------------------------------------------------
(* Web previews. *)

Underway == {"waiting", "reading"}

(* What a stream of the registry remembers of its lease and connection.    *)
Tickets == [lease : LeaseIds, conn : Nat, waits : BOOLEAN]

(* A machine may have a number of streams, and "no entry" is not an entry. *)
PreviewConstants == MaxPerMachine \in Nat /\ NoStream \notin Tickets

(* Every variable keeps its type; the registry is finite. *)
PreviewTypes ==
    /\ lease \in [LeaseIds -> {"none", "live", "expired", "revoked"}]
    /\ conns \in Nat /\ conn \in Nat \cup {NoStream}
    /\ table \subseteq Streams /\ IsFiniteSet(table)
    /\ cancelled \subseteq Streams /\ commands \subseteq Streams
    /\ request \in [Streams -> {"none", "allocate", "refused", "failed", "complete", "broken", "left"} \cup Underway]
    /\ node \in [Streams -> {"none", "connecting", "dialling", "serving", "ended"}]
    /\ wire \in [Streams -> Seq({"chunk", "eof", "lost"})]
    /\ read \in [Streams -> Nat] /\ body \in [Streams -> Nat]

(* A request has an entry from the moment it is forwarded. *)
Ticketed ==
    /\ DOMAIN entry = Streams
    /\ \A s \in Streams : IF request[s] = "none" THEN entry[s] = NoStream ELSE entry[s] \in Tickets

(* A stream that nobody cancelled is of the connection the node has now    *)
(* and of a lease that was not revoked.                                    *)
TicketsAreCurrent ==
    \A s \in Streams : request[s] # "none" /\ s \notin cancelled =>
        /\ conn # NoStream /\ entry[s].conn = conn
        /\ lease[entry[s].lease] # "revoked"

(* The node hears of a stream after its slot is taken, and once. *)
NodeFollows ==
    \A s \in Streams : /\ request[s] \in {"none", "allocate"} => node[s] = "none" /\ s \notin commands
                       /\ s \in commands => node[s] = "none"

(* Nothing follows the end of a stream on its socket. *)
EndsComeLast ==
    \A s \in Streams : \A i \in 1..Len(wire[s]) :
        wire[s][i] = "chunk" \/ (i = Len(wire[s]) /\ node[s] = "ended")

(* A chunk is read from the service once, and is then on the socket or in  *)
(* the response.                                                           *)
Chunks(w) == IF Len(w) > 0 /\ w[Len(w)] # "chunk" THEN Len(w) - 1 ELSE Len(w)
ChunksAreCounted == \A s \in Streams : body[s] + Chunks(wire[s]) <= read[s]

(* The half of TruncatedIsNoSuccess that is about the end of a response. *)
WholeWhenComplete ==
    \A s \in Streams : request[s] = "complete" => framing[s] = "close" \/ body[s] = BodyLength

PreviewInv ==
    /\ PreviewTypes /\ SlotsAreReturned /\ Ticketed /\ TicketsAreCurrent
    /\ NodeFollows /\ EndsComeLast /\ ChunksAreCounted /\ WholeWhenComplete

-----------------------------------------------------------------------------
(* A request that ends gives back its slot, whatever it ends with. *)
LEMMA DropReturnsSlot ==
    ASSUME PreviewConstants, PreviewTypes, SlotsAreReturned,
           NEW s \in Streams, Drop(s), NEW how, how \notin Underway,
           request' = [request EXCEPT ![s] = how]
    PROVE  /\ table' \subseteq Streams /\ IsFiniteSet(table') /\ cancelled' \subseteq Streams
           /\ SlotsAreReturned'
<1>1. /\ IsFiniteSet(table \ {s})
      /\ Cardinality(table \ {s}) = IF s \in table THEN Cardinality(table) - 1 ELSE Cardinality(table)
  BY FS_RemoveElement DEF PreviewTypes
<1>2. Cardinality(table) \in Nat
  BY FS_CardinalityType DEF PreviewTypes
<1>3. Cardinality(table') <= MaxPerMachine
  BY <1>1, <1>2 DEF SlotsAreReturned, Drop, PreviewConstants
<1>4. table' = {t \in Streams : request'[t] \in {"waiting", "reading"}}
  BY DEF SlotsAreReturned, Drop, PreviewTypes, Underway
<1> QED BY <1>1, <1>3, <1>4 DEF PreviewTypes, Drop, SlotsAreReturned

(* What a socket carries after an entry is put on it or taken off it. *)
LEMMA AppendKeeps ==
    ASSUME NEW w \in Seq({"chunk", "eof", "lost"}), NEW e \in {"chunk", "eof", "lost"},
           \A i \in 1..Len(w) : w[i] = "chunk"
    PROVE  /\ Append(w, e) \in Seq({"chunk", "eof", "lost"})
           /\ \A i \in 1..Len(Append(w, e)) : Append(w, e)[i] = "chunk" \/ i = Len(Append(w, e))
           /\ e = "chunk" => \A i \in 1..Len(Append(w, e)) : Append(w, e)[i] = "chunk"
           /\ Chunks(Append(w, e)) = Chunks(w) + (IF e = "chunk" THEN 1 ELSE 0)
<1>1. Append(w, e) \in Seq({"chunk", "eof", "lost"}) /\ Len(Append(w, e)) = Len(w) + 1
  OBVIOUS
<1>2. \A i \in 1..Len(w) : Append(w, e)[i] = "chunk"
  OBVIOUS
<1>3. Append(w, e)[Len(w) + 1] = e
  OBVIOUS
<1>4. Len(w) > 0 => w[Len(w)] = "chunk"
  OBVIOUS
<1>5. Chunks(w) = Len(w)
  BY <1>4 DEF Chunks
<1>6. Chunks(Append(w, e)) = IF e # "chunk" THEN Len(w) ELSE Len(w) + 1
  BY <1>1, <1>3 DEF Chunks
<1>7. Len(w) \in Nat
  OBVIOUS
<1> QED BY <1>1, <1>2, <1>3, <1>5, <1>6, <1>7

LEMMA TailKeeps ==
    ASSUME NEW w \in Seq({"chunk", "eof", "lost"}), w # <<>>,
           \A i \in 1..Len(w) : w[i] = "chunk" \/ i = Len(w)
    PROVE  /\ Tail(w) \in Seq({"chunk", "eof", "lost"})
           /\ Len(Tail(w)) = Len(w) - 1 /\ \A i \in 1..Len(Tail(w)) : Tail(w)[i] = w[i + 1]
           /\ Chunks(w) = Chunks(Tail(w)) + (IF Head(w) = "chunk" THEN 1 ELSE 0)
<1> DEFINE t == Tail(w)
           n == Len(w)
           m == Len(t)
<1>1. t \in Seq({"chunk", "eof", "lost"}) /\ n \in Nat /\ n > 0 /\ m = n - 1
  OBVIOUS
<1>2. \A i \in 1..m : t[i] = w[i + 1]
  OBVIOUS
<1>3. Head(w) = w[1]
  OBVIOUS
<1>4. \A i \in 1..n : w[i] = "chunk" \/ i = n
  OBVIOUS
<1>5. Chunks(w) = IF n > 0 /\ w[n] # "chunk" THEN n - 1 ELSE n
  BY DEF Chunks
<1>6. Chunks(t) = IF m > 0 /\ t[m] # "chunk" THEN m - 1 ELSE m
  BY DEF Chunks
<1>7. m > 0 => t[m] = w[n]
  <2> HIDE DEF t, n, m
  <2>1. m > 0 => m \in 1..m /\ m + 1 = n
    BY <1>1
  <2> QED BY <1>2, <2>1
<1>8. m > 0 => w[1] = "chunk"
  <2> HIDE DEF t, n, m
  <2>1. m > 0 => 1 \in 1..n /\ 1 # n
    BY <1>1
  <2> QED BY <1>4, <2>1
<1>9. Chunks(w) = Chunks(t) + (IF Head(w) = "chunk" THEN 1 ELSE 0)
  <2> HIDE DEF t, n, m
  <2>1. m = 0 \/ m > 0
    BY <1>1
  <2>2. CASE m = 0
    BY <1>1, <1>3, <1>5, <1>6, <2>2
  <2>3. CASE m > 0
    BY <1>1, <1>3, <1>5, <1>6, <1>7, <1>8, <2>3
  <2> QED BY <2>1, <2>2, <2>3
<1> QED BY <1>1, <1>2, <1>9

-----------------------------------------------------------------------------
LEMMA PreviewInitInv == ASSUME PreviewConstants, PreviewInit PROVE PreviewInv
<1> USE DEF PreviewInit
<1>1. PreviewTypes
  BY FS_EmptySet DEF PreviewTypes
<1>2. SlotsAreReturned
  BY FS_EmptySet DEF SlotsAreReturned, PreviewConstants
<1>3. Ticketed /\ TicketsAreCurrent /\ NodeFollows /\ EndsComeLast /\ WholeWhenComplete
  BY DEF Ticketed, TicketsAreCurrent, NodeFollows, EndsComeLast, WholeWhenComplete
<1>4. ChunksAreCounted
  BY DEF ChunksAreCounted, Chunks
<1> QED BY <1>1, <1>2, <1>3, <1>4 DEF PreviewInv

(* A lease that is made, redeemed or runs out, and a node that comes back, *)
(* leave every stream as it is: those of an old connection are cancelled.  *)
LEMMA LeaseInv ==
    ASSUME PreviewConstants, PreviewInv,
           NodeConnects \/ \E l \in LeaseIds : create(l) \/ redeem(l) \/ Expire(l)
    PROVE  PreviewInv'
<1> USE DEF PreviewInv, NodeConnects, create, redeem, Expire, leaseVars, connVars
<1>1. UNCHANGED <<table, entry, cancelled, request, commands, node, wire, read, body, framing>>
  OBVIOUS
<1>2. /\ lease' \in [LeaseIds -> {"none", "live", "expired", "revoked"}]
      /\ conns' \in Nat /\ conn' \in Nat \cup {NoStream}
  <2>1. CASE NodeConnects
    BY <2>1 DEF PreviewTypes
  <2>2. ASSUME NEW l \in LeaseIds, create(l) \/ redeem(l) \/ Expire(l)
        PROVE  /\ lease' \in [LeaseIds -> {"none", "live", "expired", "revoked"}]
               /\ conns' \in Nat /\ conn' \in Nat \cup {NoStream}
    BY <2>2 DEF PreviewTypes
  <2> QED BY <2>1, <2>2
<1>3. PreviewTypes'
  BY <1>1, <1>2 DEF PreviewTypes
<1>4. TicketsAreCurrent'
  BY DEF TicketsAreCurrent, PreviewTypes, Ticketed, Tickets
<1> QED BY <1>1, <1>3, <1>4 DEF SlotsAreReturned, Ticketed, NodeFollows, EndsComeLast,
         ChunksAreCounted, WholeWhenComplete

(* The end of a lease by hand and the end of the connection cancel every   *)
(* stream they are the end of.                                             *)
LEMMA RevokeInv ==
    ASSUME PreviewConstants, PreviewInv, NEW l \in LeaseIds, Revoke(l)
    PROVE  PreviewInv'
<1> USE DEF PreviewInv, Revoke, revoke, OfLease, connVars
<1>1. UNCHANGED <<conn, conns, table, entry, request, commands, node, wire, read, body, framing>>
  OBVIOUS
<1>2. PreviewTypes'
  BY <1>1 DEF PreviewTypes
<1>3. TicketsAreCurrent'
  <2> SUFFICES ASSUME NEW s \in Streams, request[s] # "none", s \notin cancelled'
               PROVE  /\ conn # NoStream /\ entry[s].conn = conn
                      /\ lease'[entry[s].lease] # "revoked"
    BY <1>1 DEF TicketsAreCurrent
  <2>1. entry[s] \in Tickets /\ s \notin cancelled
    BY DEF Ticketed
  <2>2. entry[s].lease \in LeaseIds /\ entry[s].lease # l
    BY <2>1 DEF Tickets, PreviewConstants
  <2>3. lease'[entry[s].lease] = lease[entry[s].lease]
    BY <2>2 DEF PreviewTypes
  <2> QED BY <2>1, <2>3 DEF TicketsAreCurrent
<1> QED BY <1>1, <1>2, <1>3 DEF SlotsAreReturned, Ticketed, NodeFollows, EndsComeLast,
         ChunksAreCounted, WholeWhenComplete

LEMMA NodeDisconnectsInv ==
    ASSUME PreviewConstants, PreviewInv, NodeDisconnects
    PROVE  PreviewInv'
<1> USE DEF PreviewInv, NodeDisconnects, OnConn, leaseVars
<1>1. UNCHANGED <<lease, conns, table, entry, request, wire, read, body, framing>>
  OBVIOUS
<1>2. PreviewTypes'
  BY DEF PreviewTypes
<1>3. TicketsAreCurrent'
  <2> SUFFICES ASSUME NEW s \in Streams, request[s] # "none", s \notin cancelled'
               PROVE  FALSE
    BY <1>1 DEF TicketsAreCurrent
  <2> QED BY DEF TicketsAreCurrent, Ticketed, PreviewConstants
<1>4. NodeFollows' /\ EndsComeLast'
  BY DEF NodeFollows, EndsComeLast, PreviewTypes
<1> QED BY <1>1, <1>2, <1>3, <1>4 DEF SlotsAreReturned, Ticketed, ChunksAreCounted, WholeWhenComplete

-----------------------------------------------------------------------------
(* A request: what it is forwarded with is true at that moment. *)
LEMMA ForwardInv ==
    ASSUME PreviewConstants, PreviewInv, NEW s \in Streams, NEW l \in LeaseIds, forward(s, l)
    PROVE  PreviewInv'
<1> USE DEF PreviewInv, forward, leaseVars, connVars
<1>1. UNCHANGED <<lease, conn, conns, table, cancelled, commands, node, wire, read, body, framing>>
  OBVIOUS
<1>2. PreviewTypes' /\ SlotsAreReturned'
  BY DEF PreviewTypes, SlotsAreReturned
<1>3. Ticketed' /\ TicketsAreCurrent'
  BY DEF Ticketed, TicketsAreCurrent, Tickets, PreviewTypes
<1>4. NodeFollows' /\ WholeWhenComplete'
  BY DEF NodeFollows, WholeWhenComplete, PreviewTypes
<1> QED BY <1>1, <1>2, <1>3, <1>4 DEF EndsComeLast, ChunksAreCounted

(* A slot is taken while there is room. *)
LEMMA AllocateInv ==
    ASSUME PreviewConstants, PreviewInv, NEW s \in Streams, allocate(s)
    PROVE  PreviewInv'
<1> USE DEF PreviewInv, allocate, leaseVars, connVars
<1>1. UNCHANGED <<lease, conn, conns, entry, cancelled, node, wire, read, body, framing>>
  OBVIOUS
<1>2. IsFiniteSet(table') /\ Cardinality(table') <= MaxPerMachine
  <2>1. /\ IsFiniteSet(table \cup {s})
        /\ Cardinality(table \cup {s}) = IF s \in table THEN Cardinality(table) ELSE Cardinality(table) + 1
    BY FS_AddElement DEF PreviewTypes
  <2>2. Cardinality(table) \in Nat
    BY FS_CardinalityType DEF PreviewTypes
  <2>3. CASE HasRoom /\ table' = table \cup {s}
    BY <2>1, <2>2, <2>3 DEF HasRoom, PreviewConstants
  <2>4. CASE table' = table
    BY <2>4 DEF PreviewTypes, SlotsAreReturned
  <2> QED BY <2>3, <2>4
<1>3. PreviewTypes'
  <2>1. PICK to \in {"waiting", "refused"} : request' = [request EXCEPT ![s] = to]
    OBVIOUS
  <2>2. table' \subseteq Streams /\ commands' \subseteq Streams
    BY DEF PreviewTypes
  <2> HIDE DEF allocate
  <2> QED BY <1>1, <1>2, <2>1, <2>2 DEF PreviewTypes, Underway
<1>4. SlotsAreReturned'
  BY <1>2 DEF SlotsAreReturned, PreviewTypes
<1>5. Ticketed' /\ TicketsAreCurrent'
  BY DEF Ticketed, TicketsAreCurrent, PreviewTypes
<1>6. NodeFollows' /\ WholeWhenComplete'
  BY DEF NodeFollows, WholeWhenComplete, PreviewTypes
<1> QED BY <1>1, <1>3, <1>4, <1>5, <1>6 DEF EndsComeLast, ChunksAreCounted

(* A request that fails, is cut, or whose browser leaves. *)
LEMMA GivenUpInv ==
    ASSUME PreviewConstants, PreviewInv, NEW s \in Streams, OpenFails(s) \/ Cut(s) \/ BrowserLeaves(s)
    PROVE  PreviewInv'
<1> USE DEF PreviewInv, OpenFails, Cut, BrowserLeaves, Finish, leaseVars, connVars
<1>1. UNCHANGED <<lease, conn, conns, entry, commands, node, wire, read, body, framing>>
  OBVIOUS
<1>2. PICK how \in {"failed", "broken", "left"} :
         Drop(s) /\ request[s] \in Underway /\ request' = [request EXCEPT ![s] = how]
  BY DEF Underway
<1>3. how \notin Underway
  BY DEF Underway
<1> HIDE DEF OpenFails, Cut, BrowserLeaves, Finish
<1>4. /\ table' \subseteq Streams /\ IsFiniteSet(table') /\ cancelled' \subseteq Streams
      /\ SlotsAreReturned'
  BY <1>2, <1>3, DropReturnsSlot
<1>5. PreviewTypes'
  BY <1>1, <1>2, <1>4 DEF PreviewTypes
<1>6. Ticketed' /\ TicketsAreCurrent'
  BY <1>1, <1>2 DEF Ticketed, TicketsAreCurrent, PreviewTypes, Drop, Underway
<1>7. NodeFollows' /\ WholeWhenComplete'
  BY <1>1, <1>2 DEF NodeFollows, WholeWhenComplete, PreviewTypes, Underway
<1> QED BY <1>1, <1>4, <1>5, <1>6, <1>7 DEF EndsComeLast, ChunksAreCounted

-----------------------------------------------------------------------------
(* The node's side of a stream begins with a clean socket. *)
LEMMA OpenPreviewStreamInv ==
    ASSUME PreviewConstants, PreviewInv, NEW s \in Streams, OpenPreviewStream(s)
    PROVE  PreviewInv'
<1> USE DEF PreviewInv, OpenPreviewStream, leaseVars, connVars
<1>1. UNCHANGED <<lease, conn, conns, table, entry, cancelled, request, wire, read, body, framing>>
  OBVIOUS
<1>2. PICK to \in {"connecting", "ended"} : node' = [node EXCEPT ![s] = to]
  OBVIOUS
<1>3. s \in commands /\ commands' = commands \ {s}
  OBVIOUS
<1> HIDE DEF OpenPreviewStream
<1>4. PreviewTypes'
  BY <1>1, <1>2, <1>3 DEF PreviewTypes
<1>5. NodeFollows'
  BY <1>1, <1>2, <1>3 DEF NodeFollows, PreviewTypes
<1>6. EndsComeLast'
  BY <1>1, <1>2, <1>3 DEF EndsComeLast, NodeFollows, PreviewTypes
<1> QED BY <1>1, <1>4, <1>5, <1>6 DEF SlotsAreReturned, Ticketed, TicketsAreCurrent,
         ChunksAreCounted, WholeWhenComplete

LEMMA AcceptInv ==
    ASSUME PreviewConstants, PreviewInv, NEW s \in Streams, accept(s)
    PROVE  PreviewInv'
<1> USE DEF PreviewInv, accept, leaseVars, connVars
<1>1. UNCHANGED <<lease, conn, conns, table, cancelled, request, commands, wire, read, body, framing>>
  OBVIOUS
<1>2. PICK to \in {"dialling", "ended"} : node' = [node EXCEPT ![s] = to]
  OBVIOUS
<1>3. node[s] = "connecting"
  OBVIOUS
<1>4. entry' = entry \/ (entry' = [entry EXCEPT ![s].waits = FALSE] /\ s \in table)
  BY DEF Claimable
<1> HIDE DEF accept
<1>5. PreviewTypes'
  BY <1>1, <1>2 DEF PreviewTypes
<1>6. NodeFollows' /\ EndsComeLast'
  BY <1>1, <1>2, <1>3 DEF NodeFollows, EndsComeLast, PreviewTypes
<1>7. Ticketed' /\ TicketsAreCurrent'
  <2>1. CASE entry' = entry
    BY <1>1, <2>1 DEF Ticketed, TicketsAreCurrent
  <2>2. CASE entry' = [entry EXCEPT ![s].waits = FALSE] /\ s \in table
    <3>1. request[s] # "none" /\ entry[s] \in Tickets
      BY <2>2 DEF SlotsAreReturned, Ticketed
    <3>2. /\ entry'[s] \in Tickets /\ entry'[s].lease = entry[s].lease /\ entry'[s].conn = entry[s].conn
          /\ DOMAIN entry' = Streams /\ \A t \in Streams \ {s} : entry'[t] = entry[t]
      BY <2>2, <3>1 DEF Ticketed, Tickets
    <3>3. Ticketed'
      BY <1>1, <3>1, <3>2 DEF Ticketed, Tickets
    <3>4. TicketsAreCurrent'
      BY <1>1, <3>2 DEF TicketsAreCurrent
    <3> QED BY <3>3, <3>4
  <2> QED BY <1>4, <2>1, <2>2
<1> QED BY <1>1, <1>5, <1>6, <1>7 DEF SlotsAreReturned, ChunksAreCounted, WholeWhenComplete

(* The local port answers, or the request fails and gives back its slot. *)
LEMMA ConnectInv ==
    ASSUME PreviewConstants, PreviewInv, NEW s \in Streams, connect(s)
    PROVE  PreviewInv'
<1> USE DEF PreviewInv, connect, leaseVars, connVars
<1>1. UNCHANGED <<lease, conn, conns, entry, commands, wire, read, body, framing>>
  OBVIOUS
<1>2. PICK to \in {"serving", "ended"} : node' = [node EXCEPT ![s] = to]
  OBVIOUS
<1>3. node[s] = "dialling"
  OBVIOUS
<1>4. \/ UNCHANGED <<table, cancelled, request>>
      \/ UNCHANGED <<table, cancelled>> /\ request[s] = "waiting" /\ request' = [request EXCEPT ![s] = "reading"]
      \/ Drop(s) /\ request[s] = "waiting" /\ request' = [request EXCEPT ![s] = "failed"]
  BY DEF PreviewTypes
<1> HIDE DEF connect
<1>5. /\ table' \subseteq Streams /\ IsFiniteSet(table') /\ cancelled' \subseteq Streams
      /\ SlotsAreReturned'
  <2>1. CASE UNCHANGED <<table, cancelled, request>>
    BY <2>1 DEF PreviewTypes, SlotsAreReturned
  <2>2. CASE UNCHANGED <<table, cancelled>> /\ request[s] = "waiting" /\ request' = [request EXCEPT ![s] = "reading"]
    BY <2>2 DEF PreviewTypes, SlotsAreReturned
  <2>3. CASE Drop(s) /\ request[s] = "waiting" /\ request' = [request EXCEPT ![s] = "failed"]
    <3>1. "failed" \notin Underway
      BY DEF Underway
    <3> QED BY <2>3, <3>1, DropReturnsSlot
  <2> QED BY <1>4, <2>1, <2>2, <2>3
<1>6. PreviewTypes'
  BY <1>1, <1>2, <1>4, <1>5 DEF PreviewTypes, Underway
<1>7. Ticketed' /\ TicketsAreCurrent'
  BY <1>1, <1>4 DEF Ticketed, TicketsAreCurrent, PreviewTypes, Drop
<1>8. NodeFollows' /\ WholeWhenComplete'
  BY <1>1, <1>2, <1>3, <1>4 DEF NodeFollows, WholeWhenComplete, PreviewTypes
<1>9. EndsComeLast'
  BY <1>1, <1>2, <1>3 DEF EndsComeLast, PreviewTypes
<1> QED BY <1>1, <1>5, <1>6, <1>7, <1>8, <1>9 DEF ChunksAreCounted

-----------------------------------------------------------------------------
(* Whatever the bridge puts on the socket goes behind chunks. *)
LEMMA SendInv ==
    ASSUME PreviewConstants, PreviewInv, NEW s \in Streams, bridge_send(s) \/ SocketFails(s)
    PROVE  PreviewInv'
<1> USE DEF PreviewInv, bridge_send, SocketFails, leaseVars, connVars
<1>1. UNCHANGED <<lease, conn, conns, table, entry, cancelled, request, commands, body, framing>>
  OBVIOUS
<1>2. node[s] = "serving"
  OBVIOUS
<1>3. PICK e \in {"chunk", "eof", "lost"} :
         /\ wire' = [wire EXCEPT ![s] = Append(@, e)]
         /\ read' = [read EXCEPT ![s] = @ + (IF e = "chunk" THEN 1 ELSE 0)]
         /\ node' = IF e = "chunk" THEN node ELSE [node EXCEPT ![s] = "ended"]
  <2>1. read = [read EXCEPT ![s] = @ + 0]
    BY DEF PreviewTypes
  <2>2. CASE bridge_send(s) /\ read[s] < BodyLength
    BY <2>2
  <2>3. CASE bridge_send(s) /\ ~(read[s] < BodyLength)
    BY <2>1, <2>3
  <2>4. CASE SocketFails(s)
    BY <2>1, <2>4
  <2> QED BY <2>2, <2>3, <2>4
<1> HIDE DEF bridge_send, SocketFails
<1>4. wire[s] \in Seq({"chunk", "eof", "lost"}) /\ \A i \in 1..Len(wire[s]) : wire[s][i] = "chunk"
  BY <1>2 DEF PreviewTypes, EndsComeLast
<1> DEFINE w == Append(wire[s], e)
<1>5. /\ w \in Seq({"chunk", "eof", "lost"})
      /\ \A i \in 1..Len(w) : w[i] = "chunk" \/ i = Len(w)
      /\ e = "chunk" => \A i \in 1..Len(w) : w[i] = "chunk"
      /\ Chunks(w) = Chunks(wire[s]) + (IF e = "chunk" THEN 1 ELSE 0)
  BY <1>4, AppendKeeps
<1>6. wire' = [wire EXCEPT ![s] = w]
  BY <1>3
<1> HIDE DEF w
<1>7. PreviewTypes'
  BY <1>1, <1>3, <1>5, <1>6 DEF PreviewTypes
<1>8. NodeFollows'
  BY <1>1, <1>2, <1>3 DEF NodeFollows, PreviewTypes
<1>9. EndsComeLast'
  <2>1. /\ wire'[s] = w /\ (e # "chunk" => node'[s] = "ended")
        /\ \A t \in Streams \ {s} : wire'[t] = wire[t] /\ node'[t] = node[t]
    BY <1>3, <1>6 DEF PreviewTypes
  <2>2. \A i \in 1..Len(wire'[s]) : wire'[s][i] = "chunk" \/ (i = Len(wire'[s]) /\ node'[s] = "ended")
    BY <1>5, <2>1
  <2> QED BY <2>1, <2>2 DEF EndsComeLast
<1>10. ChunksAreCounted'
  <2>1. Chunks(wire[s]) \in Int
    BY <1>4 DEF Chunks
  <2> SUFFICES ASSUME NEW t \in Streams PROVE body[t] + Chunks(wire'[t]) <= read'[t]
    BY <1>1 DEF ChunksAreCounted
  <2>2. CASE t = s
    <3>1. wire'[s] = w /\ read'[s] = read[s] + (IF e = "chunk" THEN 1 ELSE 0)
      BY <1>3, <1>6 DEF PreviewTypes
    <3> QED BY <1>5, <2>1, <2>2, <3>1 DEF ChunksAreCounted, PreviewTypes
  <2>3. CASE t # s
    BY <1>3, <2>3 DEF ChunksAreCounted, PreviewTypes
  <2> QED BY <2>2, <2>3
<1> QED BY <1>1, <1>7, <1>8, <1>9, <1>10 DEF SlotsAreReturned, Ticketed, TicketsAreCurrent,
         WholeWhenComplete

(* What the hub takes off the socket is the next chunk, or the end: then   *)
(* the response is complete only when all of it is there.                  *)
LEMMA ReceiveInv ==
    ASSUME PreviewConstants, PreviewInv, NEW s \in Streams, bridge_receive(s)
    PROVE  PreviewInv'
<1> USE DEF PreviewInv, bridge_receive, Finish, leaseVars, connVars
<1>1. UNCHANGED <<lease, conn, conns, entry, commands, node, read, framing>>
  OBVIOUS
<1>2. request[s] = "reading" /\ wire[s] # <<>>
  OBVIOUS
<1> DEFINE w == wire[s]
           t == Tail(w)
<1>3. w \in Seq({"chunk", "eof", "lost"}) /\ \A i \in 1..Len(w) : w[i] = "chunk" \/ (i = Len(w) /\ node[s] = "ended")
  BY DEF PreviewTypes, EndsComeLast
<1>4. /\ t \in Seq({"chunk", "eof", "lost"})
      /\ Len(t) = Len(w) - 1 /\ \A i \in 1..Len(t) : t[i] = w[i + 1]
      /\ Chunks(w) = Chunks(t) + (IF Head(w) = "chunk" THEN 1 ELSE 0)
  BY <1>2, <1>3, TailKeeps
<1>5. Len(w) \in Nat /\ Len(t) \in Nat /\ wire' = [wire EXCEPT ![s] = t]
  BY <1>3, <1>4
<1>6. body' = [body EXCEPT ![s] = @ + (IF Head(w) = "chunk" THEN 1 ELSE 0)]
  <2>1. body = [body EXCEPT ![s] = @ + 0]
    BY DEF PreviewTypes
  <2> QED BY <2>1
<1>7. \/ UNCHANGED <<request, table, cancelled>>
      \/ /\ Drop(s) /\ body' = body
         /\ \/ request' = [request EXCEPT ![s] = "complete"] /\ IsComplete(s)
            \/ request' = [request EXCEPT ![s] = "broken"]
  OBVIOUS
<1> HIDE DEF bridge_receive, Finish, w, t
<1>8. /\ table' \subseteq Streams /\ IsFiniteSet(table') /\ cancelled' \subseteq Streams
      /\ SlotsAreReturned'
  <2>1. CASE UNCHANGED <<request, table, cancelled>>
    BY <2>1 DEF PreviewTypes, SlotsAreReturned
  <2>2. ASSUME NEW how \in {"complete", "broken"}, Drop(s), request' = [request EXCEPT ![s] = how]
        PROVE  /\ table' \subseteq Streams /\ IsFiniteSet(table') /\ cancelled' \subseteq Streams
               /\ SlotsAreReturned'
    <3>1. how \notin Underway
      BY DEF Underway
    <3> QED BY <2>2, <3>1, DropReturnsSlot
  <2> QED BY <1>7, <2>1, <2>2
<1>9. PreviewTypes'
  <2>1. /\ wire' \in [Streams -> Seq({"chunk", "eof", "lost"})]
        /\ body' \in [Streams -> Nat]
    BY <1>4, <1>5, <1>6 DEF PreviewTypes
  <2>2. request' \in [Streams -> {"none", "allocate", "refused", "failed", "complete", "broken", "left"} \cup Underway]
    BY <1>7 DEF PreviewTypes
  <2> QED BY <1>1, <1>8, <2>1, <2>2 DEF PreviewTypes
<1>10. Ticketed' /\ TicketsAreCurrent'
  BY <1>1, <1>2, <1>7 DEF Ticketed, TicketsAreCurrent, PreviewTypes, Drop
<1>11. NodeFollows'
  BY <1>1, <1>2, <1>7 DEF NodeFollows, PreviewTypes
<1>12. WholeWhenComplete'
  <2>1. CASE UNCHANGED <<request, table, cancelled>>
    BY <1>1, <1>2, <1>6, <2>1 DEF WholeWhenComplete, PreviewTypes
  <2>2. CASE body' = body /\ request' = [request EXCEPT ![s] = "complete"] /\ IsComplete(s)
    BY <1>1, <2>2 DEF WholeWhenComplete, PreviewTypes, IsComplete
  <2>3. CASE body' = body /\ request' = [request EXCEPT ![s] = "broken"]
    BY <1>1, <2>3 DEF WholeWhenComplete, PreviewTypes
  <2> QED BY <1>7, <2>1, <2>2, <2>3
<1>13. EndsComeLast'
  <2>1. \A i \in 1..Len(t) : t[i] = "chunk" \/ (i = Len(t) /\ node[s] = "ended")
    <3> SUFFICES ASSUME NEW i \in 1..Len(t) PROVE t[i] = "chunk" \/ (i = Len(t) /\ node[s] = "ended")
      OBVIOUS
    <3>1. i + 1 \in 1..Len(w) /\ t[i] = w[i + 1] /\ (i + 1 = Len(w) => i = Len(t))
      BY <1>4, <1>5
    <3> QED BY <1>3, <3>1
  <2> QED BY <1>1, <1>5, <2>1 DEF EndsComeLast, PreviewTypes
<1>14. ChunksAreCounted'
  <2>1. Chunks(t) \in Int
    BY <1>5 DEF Chunks
  <2> SUFFICES ASSUME NEW u \in Streams PROVE body'[u] + Chunks(wire'[u]) <= read[u]
    BY <1>1 DEF ChunksAreCounted
  <2>2. CASE u = s
    <3>1. wire'[s] = t /\ body'[s] = body[s] + (IF Head(w) = "chunk" THEN 1 ELSE 0)
      BY <1>5, <1>6 DEF PreviewTypes
    <3>2. body[s] + Chunks(w) <= read[s]
      BY DEF ChunksAreCounted, w
    <3> QED BY <1>4, <2>1, <2>2, <3>1, <3>2 DEF PreviewTypes
  <2>3. CASE u # s
    BY <1>5, <1>6, <2>3 DEF ChunksAreCounted, PreviewTypes
  <2> QED BY <2>2, <2>3
<1> QED BY <1>8, <1>9, <1>10, <1>11, <1>12, <1>13, <1>14

-----------------------------------------------------------------------------
LEMMA PreviewStepInv ==
    ASSUME PreviewConstants
    PROVE  PreviewInv /\ [PreviewNext]_previewVars => PreviewInv'
<1> SUFFICES ASSUME PreviewInv, [PreviewNext]_previewVars PROVE PreviewInv'
  OBVIOUS
<1>1. CASE NodeDisconnects
  BY <1>1, NodeDisconnectsInv
<1>2. CASE NodeConnects \/ \E l \in LeaseIds : create(l) \/ redeem(l) \/ Expire(l)
  BY <1>2, LeaseInv
<1>3. ASSUME NEW l \in LeaseIds, Revoke(l) PROVE PreviewInv'
  BY <1>3, RevokeInv
<1>4. ASSUME NEW l \in LeaseIds, NEW s \in Streams, forward(s, l) PROVE PreviewInv'
  BY <1>4, ForwardInv
<1>5. ASSUME NEW s \in Streams, allocate(s) PROVE PreviewInv'
  BY <1>5, AllocateInv
<1>6. ASSUME NEW s \in Streams, OpenFails(s) \/ Cut(s) \/ BrowserLeaves(s) PROVE PreviewInv'
  BY <1>6, GivenUpInv
<1>7. ASSUME NEW s \in Streams, OpenPreviewStream(s) PROVE PreviewInv'
  BY <1>7, OpenPreviewStreamInv
<1>8. ASSUME NEW s \in Streams, accept(s) PROVE PreviewInv'
  BY <1>8, AcceptInv
<1>9. ASSUME NEW s \in Streams, connect(s) PROVE PreviewInv'
  BY <1>9, ConnectInv
<1>10. ASSUME NEW s \in Streams, bridge_send(s) \/ SocketFails(s) PROVE PreviewInv'
  BY <1>10, SendInv
<1>11. ASSUME NEW s \in Streams, bridge_receive(s) PROVE PreviewInv'
  BY <1>11, ReceiveInv
<1>12. CASE UNCHANGED previewVars
  BY <1>12 DEF previewVars, leaseVars, connVars, PreviewInv, PreviewTypes, SlotsAreReturned, Ticketed,
               TicketsAreCurrent, NodeFollows, EndsComeLast, ChunksAreCounted, WholeWhenComplete
<1> QED BY <1>1, <1>2, <1>3, <1>4, <1>5, <1>6, <1>7, <1>8, <1>9, <1>10, <1>11, <1>12 DEF PreviewNext

LEMMA PreviewSpecInv == ASSUME PreviewConstants PROVE PreviewSpec => []PreviewInv
BY PreviewInitInv, PreviewStepInv, PTL DEF PreviewSpec

(* A preview stream gives back its slot however its request ends, so the   *)
(* registry never holds more than a machine may have; and a cut response   *)
(* of a known length never passes for a whole one.                         *)
THEOREM PreviewSound ==
    ASSUME PreviewConstants PROVE PreviewSpec => []PreviewIsSound
<1>1. PreviewInv => PreviewIsSound
  <2> SUFFICES ASSUME PreviewInv PROVE PreviewIsSound
    OBVIOUS
  <2>1. \A s \in Streams : body[s] <= read[s]
    <3> SUFFICES ASSUME NEW s \in Streams PROVE body[s] <= read[s]
      OBVIOUS
    <3>1. Chunks(wire[s]) \in Nat
      <4>1. Len(wire[s]) \in Nat
        BY DEF PreviewInv, PreviewTypes
      <4> QED BY <4>1 DEF Chunks
    <3>2. body[s] \in Nat /\ read[s] \in Nat /\ body[s] + Chunks(wire[s]) <= read[s]
      BY DEF PreviewInv, PreviewTypes, ChunksAreCounted
    <3> QED BY <3>1, <3>2
  <2> QED BY <2>1 DEF PreviewInv, PreviewIsSound, TruncatedIsNoSuccess, WholeWhenComplete
<1> QED BY <1>1, PreviewSpecInv, PTL

(* The safety half of RevokedStreamsEnd: whichever of revoke, disconnect,  *)
(* forward and allocate comes first, a stream whose lease was revoked or   *)
(* whose connection is gone has its token cancelled, which is what its     *)
(* request is woken by.                                                    *)
DoomedAreCancelled == \A s \in Streams : Doomed(s) => s \in cancelled
THEOREM RevokedAreCancelled ==
    ASSUME PreviewConstants PROVE PreviewSpec => []DoomedAreCancelled
<1>1. PreviewInv => DoomedAreCancelled
  BY DEF PreviewInv, Ticketed, TicketsAreCurrent, Doomed, DoomedAreCancelled
<1> QED BY <1>1, PreviewSpecInv, PTL
=============================================================================
