--------------------------- MODULE BrowserControl ---------------------------
(***************************************************************************)
(* Who operates an agent browser: the control fields the hub keeps for one *)
(* browser of one machine (crates/hub/src/machine_manager.rs), the timer   *)
(* that takes control from a person whose device has gone, the agent's     *)
(* reclaim, and the long poll with which an agent waits for its turn       *)
(* (crates/hub/src/routes/agent_browser.rs).  Pages and frames are in      *)
(* Screencast; here a browser is its control.                              *)
(*                                                                         *)
(* One action is one critical section of the hub's locks.  The timer's     *)
(* owner reads the controller, then the viewers, then updates the timer,   *)
(* under three different locks, hence in three steps; so does the task     *)
(* that runs when the grace period is over.                                *)
(***************************************************************************)
EXTENDS Naturals

CONSTANTS
    Device,      \* device ids of the people who may take control
    Agent,       \* the controller of a browser no person controls
    NoDevice,    \* no device
    Task,        \* bound: spawned grace-period tasks at a time
    NoTask,      \* no timer entry
    Reconciler,  \* bound: reconcile_control_timer calls at a time
    MaxViewers   \* bound: viewer sockets of a device

ASSUME NamesDiffer == Agent \notin Device /\ NoDevice \notin Device /\ Agent # NoDevice
ASSUME NoTaskAssumption == NoTask \notin Task
ASSUME MaxViewersAssumption == MaxViewers \in Nat

VARIABLES
    live,        \* the hub lists the browser
    controller,  \* Agent, or the controlling device
    handoff,     \* the agent asked a person for help
    activity,    \* agent_browser_activity has an entry younger than reclaim_idle
    viewers,     \* device -> its viewer sockets (agent_browser_viewers)
    timer,       \* the task agent_browser_timers refers to, or NoTask
    task,        \* grace-period tasks: whom they are about and how far they are
    recon,       \* reconcile_control_timer calls: how far, and for whom
    poll,        \* a wait_control request: off, check or parked
    wanted,      \* what it waits for: agent or resolved
    dirty,       \* agent_browser_changes changed since the poll last looked
    operated,    \* history: the controller operated the page within the window
    raced        \* history: control or viewers changed under a reader of them

ctrl == <<live, controller, handoff, activity>>
timing == <<timer, task, recon>>
polling == <<poll, wanted>>
vars == <<live, controller, handoff, activity, viewers, timer, task,
          recon, poll, wanted, dirty, operated, raced>>

Phase == {"free", "sleep", "checked", "finish"}
Step == {"free", "read", "seen", "decided"}

TypeOK ==
    /\ live \in BOOLEAN /\ handoff \in BOOLEAN 
    /\ activity \in BOOLEAN /\ dirty \in BOOLEAN /\ operated \in BOOLEAN /\ raced \in BOOLEAN
    /\ controller \in Device \cup {Agent}
    /\ viewers \in [Device -> 0..MaxViewers]
    /\ timer \in Task \cup {NoTask}
    /\ task \in [Task -> [device : Device \cup {NoDevice}, phase : Phase]]
    /\ recon \in [Reconciler -> [device : Device \cup {NoDevice}, step : Step]]
    /\ poll \in {"off", "check", "parked"} /\ wanted \in {"agent", "resolved"}

NoneTask == [device |-> NoDevice, phase |-> "free"]
NoRecon == [device |-> NoDevice, step |-> "free"]

Init ==
    /\ live = FALSE /\ controller = Agent /\ handoff = FALSE
    /\ activity = FALSE
    /\ viewers = [d \in Device |-> 0]
    /\ timer = NoTask /\ task = [t \in Task |-> NoneTask]
    /\ recon = [r \in Reconciler |-> NoRecon]
    /\ poll = "off" /\ wanted = "agent" /\ dirty = FALSE
    /\ operated = FALSE /\ raced = FALSE

-----------------------------------------------------------------------------
(* A reader of the control state that has not acted on what it read. *)
Reading ==
    \/ \E r \in Reconciler : recon[r].step \in {"seen", "decided"}
    \/ \E t \in Task : task[t].phase \in {"checked", "finish"}

Watched == raced' = (raced \/ Reading)

(* change_agent_browser_control and reclaim end in a reconcile of their own.*)
Reconcile(r) ==
    /\ recon[r].step = "free"
    /\ recon' = [recon EXCEPT ![r].step = "read"]
    /\ UNCHANGED <<timer, task>>

(* Mutant of send_event: AgentBrowserUpdated does not move the channel. *)
LifeEventsOnly(changed) ==
    dirty' = (poll # "off" /\ (dirty \/ (changed /\ live' # live)))

(* send_event: an event about an agent browser moves the watch channel,    *)
(* which nobody looks at while no request is waiting.                      *)
send_event(changed) == dirty' = (poll # "off" /\ (dirty \/ changed))

(* Mutant of Take: a repeated take by the controller forgets its activity. *)
TakeForgets(d) ==
    /\ controller' = d /\ activity' = FALSE
    /\ operated' = (operated /\ controller = d)
    /\ UNCHANGED handoff

(* Taking is last-writer-wins; only a change of device forgets activity. *)
Take(d) ==
    /\ controller' = d
    /\ activity' = (activity /\ controller = d)
    /\ operated' = (operated /\ controller = d)
    /\ UNCHANGED handoff

Release ==
    /\ controller' = Agent /\ handoff' = FALSE /\ activity' = FALSE /\ operated' = FALSE

Handoff ==
    /\ handoff' = TRUE
    /\ UNCHANGED <<controller, activity, operated>>

(* apply_agent_browser_control under the machines lock; `changed` also     *)
(* counts a handoff repeated with another reason.                          *)
apply_agent_browser_control(change) ==
    /\ live /\ change /\ UNCHANGED <<live, viewers>>
    /\ send_event(<<controller', handoff'>> # <<controller, handoff>>)
    /\ Watched

(* The HTTP handlers change_control and request_handoff. *)
change_control(r) ==
    /\ apply_agent_browser_control((\E d \in Device : Take(d)) \/ Release)
    /\ Reconcile(r) /\ UNCHANGED polling

request_handoff(r) ==
    apply_agent_browser_control(Handoff) /\ Reconcile(r) /\ UNCHANGED polling

(* reclaim is refused while the controller operated the page recently. *)
Idle(force) == force \/ ~activity

(* reclaim_agent_browser_control: check and switch under one lock. *)
reclaim(r, force) ==
    /\ live /\ UNCHANGED <<live, viewers, polling>>
    /\ \/ /\ controller = Agent
          /\ handoff' = FALSE /\ UNCHANGED <<controller, activity, operated>>
       \/ /\ controller # Agent /\ Idle(force)
          /\ controller' = Agent /\ handoff' = FALSE
          /\ activity' = FALSE /\ operated' = FALSE
    /\ send_event(<<controller', handoff'>> # <<controller, handoff>>)
    /\ Watched /\ Reconcile(r)

(* agent_browser_input: only the controller's input goes to the node, and  *)
(* all of it but hovering is recorded under the machines lock.             *)
agent_browser_input(d, operating) ==
    /\ live /\ controller = d /\ viewers[d] > 0
    /\ activity' = (activity \/ operating) /\ operated' = (operated \/ operating)
    /\ UNCHANGED <<live, controller, handoff, viewers, timing, polling, dirty, raced>>

(* reclaim_idle passes with no input from the controller. *)
IdleWindowPasses ==
    /\ activity /\ activity' = FALSE /\ operated' = FALSE
    /\ UNCHANGED <<live, controller, handoff, viewers, timing, polling, dirty, raced>>

-----------------------------------------------------------------------------
(* The node's reports. *)

(* A report keeps the control of a browser the hub knows; a browser new to *)
(* this connection starts with the agent, as the node reports it.          *)
upsert_agent_browser ==
    /\ live' = TRUE
    /\ \/ live /\ UNCHANGED <<controller, handoff, activity>>
       \/ ~live /\ controller' = Agent /\ handoff' = FALSE
          /\ UNCHANGED activity

(* AgentBrowserCreated, AgentBrowserUpdated, or one of the full list; a    *)
(* report that changes nothing at all is not announced.                    *)
NodeReports(changed) ==
    /\ upsert_agent_browser
    /\ send_event(changed \/ ~live)
    /\ UNCHANGED <<viewers, timing, polling, operated, raced>>

Vanish ==
    /\ live /\ live' = FALSE /\ activity' = FALSE /\ operated' = FALSE
    /\ controller' = Agent /\ handoff' = FALSE

(* AgentBrowserDestroyed, a full list without it (replace_agent_browsers), *)
(* or the end of the connection (drop_agent_browsers): the timer is left.  *)
NodeDestroys ==
    Vanish /\ send_event(TRUE) /\ Watched /\ UNCHANGED <<viewers, timing, polling>>

(* remove_machine takes the connection out without announcing browsers or  *)
(* forgetting the activity recorded for them.                              *)
remove_machine ==
    /\ live /\ live' = FALSE /\ controller' = Agent /\ handoff' = FALSE
    /\ operated' = FALSE /\ Watched
    /\ UNCHANGED <<activity, viewers, timing, polling, dirty>>

-----------------------------------------------------------------------------
(* Viewer sockets. *)

(* A socket that named its device is counted, then reconciles. *)
attach_agent_browser_viewer(d, r) ==
    /\ live /\ viewers[d] < MaxViewers
    /\ viewers' = [viewers EXCEPT ![d] = @ + 1]
    /\ Watched /\ Reconcile(r)
    /\ UNCHANGED <<ctrl, polling, dirty, operated>>

(* AgentBrowserViewer::drop, however the socket ended. *)
drop_viewer(d, r) ==
    /\ viewers[d] > 0
    /\ viewers' = [viewers EXCEPT ![d] = @ - 1]
    /\ Watched /\ Reconcile(r)
    /\ UNCHANGED <<ctrl, polling, dirty, operated>>

-----------------------------------------------------------------------------
(* reconcile_control_timer. *)

(* The controller, read under the machines lock. *)
ReadController(r) ==
    /\ recon[r].step = "read"
    /\ recon' = [recon EXCEPT ![r] = [step |-> "seen",
            device |-> IF live /\ controller \in Device THEN controller ELSE NoDevice]]
    /\ UNCHANGED <<ctrl, viewers, timer, task, polling, dirty, operated, raced>>

(* Its viewers: somebody who is watching is not absent. *)
ReadViewers(r) ==
    /\ recon[r].step = "seen"
    /\ LET d == recon[r].device
       IN  recon' = [recon EXCEPT ![r] = [step |-> "decided",
               device |-> IF d # NoDevice /\ viewers[d] = 0 THEN d ELSE NoDevice]]
    /\ UNCHANGED <<ctrl, viewers, timer, task, polling, dirty, operated, raced>>

TimerDevice == IF timer = NoTask THEN NoDevice ELSE task[timer].device

(* handle.abort(): a task past its last await runs to its end. *)
Aborted(t) ==
    IF t # NoTask /\ task[t].phase \in {"sleep", "checked"}
    THEN [task EXCEPT ![t] = NoneTask] ELSE task

(* Mutant of UpdateTimer: a timer that is there is kept, whoever it is for.*)
UpdateTimerAny(r) ==
    LET d == recon[r].device IN
    \/ d = NoDevice /\ timer' = NoTask /\ task' = Aborted(timer)
    \/ d # NoDevice /\ timer # NoTask /\ UNCHANGED <<timer, task>>
    \/ d # NoDevice /\ timer = NoTask
       /\ \E t \in Task : /\ task[t].phase = "free" /\ timer' = t
                          /\ task' = [task EXCEPT ![t] = [device |-> d, phase |-> "sleep"]]

(* The timers lock: cancel, keep a timer for the same device, or restart. *)
UpdateTimer(r) ==
    LET d == recon[r].device IN
    \/ d = NoDevice /\ timer' = NoTask /\ task' = Aborted(timer)
    \/ d # NoDevice /\ TimerDevice = d /\ UNCHANGED <<timer, task>>
    \/ /\ d # NoDevice /\ TimerDevice # d
       /\ \E t \in Task : /\ Aborted(timer)[t].phase = "free" /\ timer' = t
                          /\ task' = [Aborted(timer) EXCEPT ![t] =
                                        [device |-> d, phase |-> "sleep"]]

reconcile_control_timer(r) ==
    /\ recon[r].step = "decided" /\ UpdateTimer(r)
    /\ recon' = [recon EXCEPT ![r] = NoRecon]
    /\ UNCHANGED <<ctrl, viewers, polling, dirty, operated, raced>>

-----------------------------------------------------------------------------
(* expire_control, the end of the grace period. *)

StillAbsent(d) == live /\ controller = d /\ viewers[d] = 0

ExpireCheck(t) ==
    /\ task[t].phase = "sleep"
    /\ task' = [task EXCEPT ![t].phase =
            IF StillAbsent(task[t].device) THEN "checked" ELSE "finish"]
    /\ UNCHANGED <<ctrl, viewers, timer, recon, polling, dirty, operated, raced>>

(* The release does not look at the controller again. *)
ExpireRelease(t) ==
    /\ task[t].phase = "checked"
    /\ \/ apply_agent_browser_control(Release)
       \/ ~live /\ UNCHANGED <<ctrl, viewers, dirty, operated, raced>>
    /\ task' = [task EXCEPT ![t].phase = "finish"]
    /\ UNCHANGED <<timer, recon, polling>>

(* Its entry is removed when the entry is for the same device. *)
ExpireFinish(t) ==
    /\ task[t].phase = "finish"
    /\ timer' = IF TimerDevice = task[t].device THEN NoTask ELSE timer
    /\ task' = [task EXCEPT ![t] = NoneTask]
    /\ UNCHANGED <<ctrl, viewers, recon, polling, dirty, operated, raced>>

-----------------------------------------------------------------------------
(* wait_agent_browser_control. *)

Ready == controller = Agent /\ (wanted = "resolved" => ~handoff)

PollEnds == poll' = "off" /\ wanted' = "agent" /\ dirty' = FALSE

(* The poll subscribes before it looks for the first time. *)
wait_control(w) ==
    /\ poll = "off" /\ live /\ wanted' = w
    /\ poll' = "check" /\ dirty' = FALSE
    /\ UNCHANGED <<ctrl, viewers, timing, operated, raced>>

CheckControl ==
    /\ poll = "check"
    /\ \/ (~live \/ Ready) /\ PollEnds
       \/ live /\ ~Ready /\ poll' = "parked" /\ UNCHANGED <<wanted, dirty>>
    /\ UNCHANGED <<ctrl, viewers, timing, operated, raced>>

WakeUp ==
    /\ poll = "parked" /\ dirty /\ dirty' = FALSE /\ poll' = "check"
    /\ UNCHANGED <<ctrl, viewers, timing, wanted, operated, raced>>

PollTimeout ==
    /\ poll = "parked" /\ PollEnds
    /\ UNCHANGED <<ctrl, viewers, timing, operated, raced>>

-----------------------------------------------------------------------------
Next ==
    \/ \E r \in Reconciler :
         \/ change_control(r) \/ request_handoff(r)
         \/ \E force \in BOOLEAN : reclaim(r, force)
         \/ \E d \in Device : attach_agent_browser_viewer(d, r) \/ drop_viewer(d, r)
         \/ ReadController(r) \/ ReadViewers(r) \/ reconcile_control_timer(r)
    \/ \E d \in Device, operating \in BOOLEAN : agent_browser_input(d, operating)
    \/ IdleWindowPasses
    \/ \E changed \in BOOLEAN : NodeReports(changed)
    \/ NodeDestroys \/ remove_machine
    \/ \E t \in Task : ExpireCheck(t) \/ ExpireRelease(t) \/ ExpireFinish(t)
    \/ \E w \in {"agent", "resolved"} : wait_control(w)
    \/ CheckControl \/ WakeUp \/ PollTimeout

(* What is left to do of a spawned reconcile, and of a grace period.  Only  *)
(* one of its steps can be the next, so that weak fairness of all of them   *)
(* is that of each.                                                         *)
ReconcileStep(r) == ReadController(r) \/ ReadViewers(r) \/ reconcile_control_timer(r)
ExpireStep(t) == ExpireCheck(t) \/ ExpireRelease(t) \/ ExpireFinish(t)

(* The executor runs a task that can go on: spawned reconciles, sleeping   *)
(* grace periods and a woken request.  Nothing makes people, agents, nodes *)
(* or request timeouts act.                                                *)
Fairness ==
    /\ \A r \in Reconciler : WF_vars(ReconcileStep(r))
    /\ \A t \in Task : WF_vars(ExpireStep(t))
    /\ WF_vars(CheckControl) /\ WF_vars(WakeUp)

Spec == Init /\ [][Next]_vars /\ Fairness

-----------------------------------------------------------------------------
(* A person who operated the page within the window since taking it keeps  *)
(* it: neither an agent's reclaim that is not forced (routes/agent_browser *)
(* .rs:198) nor whatever the node reports (machine_manager.rs:1246) moves  *)
(* control, however takes, inputs, reconnects and reclaims interleave.     *)
ActivePersonKeepsControl ==
    [][operated /\ (\/ \E r \in Reconciler : reclaim(r, FALSE)
                    \/ \E changed \in BOOLEAN : NodeReports(changed))
            => controller' = controller]_vars

(* "It runs exactly while a person controls the browser and their device   *)
(* has no open viewer socket" (machine_manager.rs:1475): a person who has  *)
(* left for good is not left in control, provided control and viewers did  *)
(* not change between a reader's look at them and its use of what it saw.  *)
AbsentLosesControl ==
    \A d \in Device :
        live /\ controller = d /\ viewers[d] = 0
            ~> raced \/ ~live \/ controller # d \/ viewers[d] > 0

(* No wakeup is lost: an agent parked for a condition that now holds, and  *)
(* stays so, is answered without waiting for its request to time out.      *)
WaiterIsWoken == [](poll = "parked" /\ live /\ Ready => <>(poll = "off" \/ ~live \/ ~Ready))

(* Control never stays with nobody who could use it: a person who left     *)
(* loses it, and an agent that waits for it is told.                       *)
ControlComesBack ==
    AbsentLosesControl /\ WaiterIsWoken
=============================================================================
