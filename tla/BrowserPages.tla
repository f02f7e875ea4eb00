---------------------------- MODULE BrowserPages ----------------------------
(***************************************************************************)
(* The agent browsers of a node (machine/src/agent_browser): one Chromium, *)
(* launched for the first page and stopped with the last, a tab per page,  *)
(* the task that turns Chromium's events into changes of the tabs, pages   *)
(* that open pages, dialogs, commands that a dialog holds up, and the      *)
(* input of a person.                                                      *)
(*                                                                         *)
(* Chromium is another process: its pages open, close and show dialogs on  *)
(* their own, and what it reports waits in a queue per launch.             *)
(***************************************************************************)
EXTENDS Naturals, Sequences, FiniteSets

CONSTANTS
    Pages,          \* page targets a behaviour may create
    MaxLaunches,    \* bound: Chromium processes started
    MaxDialogs,     \* bound: dialogs a page shows
    MaxInput,       \* bound: input events of a person
    PagePlans,      \* bounds: what pages and people do in a behaviour
    NoOne           \* no launch, no holder of the state lock, no answer

VARIABLES
    pageplan,       \* the member of PagePlans this behaviour keeps to
    chromium,       \* the launch the manager has, or NoOne
    launches,       \* launches so far
    pidfile,        \* the launch the pid file names
    procs, sockets_up,  \* launches whose process lives; whose connection is open
    target,         \* per page: "none", "open" or "closed", in Chromium
    launch_of,      \* per page: the launch it belongs to
    tabs,           \* the manager's map of tabs
    announced, gone,\* per tab: its two flags
    state_lock,     \* the page whose command holds the manager's lock
    job,            \* per page: where its open, close or adoption is
    cdp,            \* per launch: what its supervisor has not read yet
    shown,          \* per page: the dialog Chromium shows (0: none)
    dialogs,        \* per page: dialogs Chromium has shown
    known,          \* per tab: the dialog it reports
    dialogs_opened, \* per tab: dialogs it has been told of
    answer,         \* per tab: an answer under way
    command,        \* per tab: a command on the page under way
    sent, typed, batch, applied \* input: all of it, waiting, taken by the dispatcher, applied

chromeVars == <<chromium, launches, pidfile, procs, sockets_up>>
tabVars == <<tabs, announced, gone>>
dialogVars == <<shown, dialogs, known, dialogs_opened, answer>>
inputVars == <<sent, typed, batch, applied>>
pageVars == <<pageplan, chromeVars, target, launch_of, tabVars, state_lock, job, cdp, dialogVars, command, inputVars>>

PagesTypeOK ==
    /\ tabs \subseteq Pages /\ gone \subseteq Pages /\ announced \subseteq Pages
    /\ chromium \in 1 .. MaxLaunches \cup {NoOne} /\ procs \subseteq 1 .. MaxLaunches
    /\ state_lock \in Pages \cup {NoOne}
    /\ \A p \in Pages : known[p] \in 0 .. MaxDialogs /\ target[p] \in {"none", "open", "closed"}

PagesInit ==
    /\ pageplan \in PagePlans
    /\ chromium = NoOne /\ launches = 0 /\ pidfile = NoOne /\ procs = {} /\ sockets_up = {}
    /\ target = [p \in Pages |-> "none"] /\ launch_of = [p \in Pages |-> NoOne]
    /\ tabs = {} /\ announced = {} /\ gone = {}
    /\ state_lock = NoOne /\ job = [p \in Pages |-> "none"]
    /\ cdp = [l \in 1 .. MaxLaunches |-> <<>>]
    /\ shown = [p \in Pages |-> 0] /\ dialogs = [p \in Pages |-> 0]
    /\ known = [p \in Pages |-> 0] /\ dialogs_opened = [p \in Pages |-> 0]
    /\ answer = [p \in Pages |-> NoOne] /\ command = [p \in Pages |-> NoOne]
    /\ sent = <<>> /\ typed = <<>> /\ batch = <<>> /\ applied = <<>>

-----------------------------------------------------------------------------
(* Chromium. *)

Reachable(p) == target[p] = "open" /\ launch_of[p] \in sockets_up
Report(l, kind, p) == cdp' = [cdp EXCEPT ![l] = Append(@, [kind |-> kind, page |-> p])]

(* The connection ends, with the process or without it. *)
ChromiumDies ==
    /\ pageplan.dies /\ \E l \in sockets_up :
          /\ sockets_up' = sockets_up \ {l}
          /\ procs' = procs \ {l} \/ UNCHANGED procs
          /\ Report(l, "closed", NoOne)
    /\ UNCHANGED <<pageplan, chromium, launches, pidfile, target, launch_of, tabVars, state_lock, job, dialogVars, command, inputVars>>

PageOpens(p, q) ==
    /\ pageplan.popups /\ Reachable(p) /\ target[q] = "none" /\ job[q] = "none"
    /\ target' = [target EXCEPT ![q] = "open"]
    /\ launch_of' = [launch_of EXCEPT ![q] = launch_of[p]]
    /\ cdp' = [cdp EXCEPT ![launch_of[p]] = Append(@, [kind |-> "created", page |-> q, opener |-> p])]
    /\ UNCHANGED <<pageplan, chromeVars, tabVars, state_lock, job, dialogVars, command, inputVars>>

PageCloses(p) ==
    /\ pageplan.closes /\ Reachable(p) /\ shown[p] = 0
    /\ target' = [target EXCEPT ![p] = "closed"] /\ Report(launch_of[p], "destroyed", p)
    /\ UNCHANGED <<pageplan, chromeVars, launch_of, tabVars, state_lock, job, dialogVars, command, inputVars>>

PageShowsDialog(p) ==
    /\ pageplan.dialogs /\ Reachable(p) /\ shown[p] = 0 /\ dialogs[p] < MaxDialogs
    /\ dialogs' = [dialogs EXCEPT ![p] = @ + 1] /\ shown' = [shown EXCEPT ![p] = dialogs[p] + 1]
    /\ Report(launch_of[p], "dialog opening", p)
    /\ UNCHANGED <<pageplan, chromeVars, target, launch_of, tabVars, state_lock, job, known, dialogs_opened, answer, command, inputVars>>

-----------------------------------------------------------------------------
(* The manager.  What runs under its lock can be overtaken only by the     *)
(* supervisor and by adoptions, which do not take it.                      *)

announce_destroyed(ps) == gone' = gone \cup ps
stop_chromium ==
    /\ procs' = procs \ {chromium} /\ sockets_up' = sockets_up \ {chromium} /\ chromium' = NoOne
    /\ pidfile' = IF chromium = NoOne THEN pidfile ELSE NoOne
    /\ IF chromium \in sockets_up THEN Report(chromium, "closed", NoOne) ELSE UNCHANGED cdp

(* Every tab is forgotten and Chromium stopped. *)
teardown == tabs' = {} /\ announce_destroyed(tabs) /\ stop_chromium

(* Another Chromium starts on the profile, and its pid is written down. *)
launch ==
    /\ launches < MaxLaunches /\ launches' = launches + 1 /\ chromium' = launches + 1 /\ pidfile' = launches + 1
    /\ procs' = (procs \ {chromium}) \cup {launches + 1}
    /\ sockets_up' = (sockets_up \ {chromium}) \cup {launches + 1}

(* A Chromium that died is cleared away with its tabs, and another started. *)
Dead == chromium # NoOne /\ chromium \notin sockets_up
ForgetDead == IF Dead THEN tabs' = {} /\ announce_destroyed(tabs) ELSE UNCHANGED <<tabs, gone>>
ensure_running ==
    /\ ForgetDead
    /\ \/ chromium \in sockets_up /\ UNCHANGED chromeVars
       \/ chromium \notin sockets_up /\ launch

(* No Chromium is found, downloaded or started. *)
FindsNoChromium(p) ==
    /\ target[p] = "none" /\ job[p] = "none" /\ p \in pageplan.opens /\ state_lock = NoOne
    /\ chromium \notin sockets_up /\ job' = [job EXCEPT ![p] = "failed"]
    /\ IF Dead THEN teardown ELSE UNCHANGED <<tabs, gone, chromium, pidfile, procs, sockets_up, cdp>>
    /\ UNCHANGED <<pageplan, launches, target, launch_of, announced, state_lock, dialogVars, command, inputVars>>

open(p) ==
    /\ target[p] = "none" /\ job[p] = "none" /\ p \in pageplan.opens /\ state_lock = NoOne
    /\ ensure_running /\ state_lock' = p /\ job' = [job EXCEPT ![p] = "create"]
    /\ UNCHANGED <<pageplan, target, launch_of, announced, cdp, dialogVars, command, inputVars>>

create(p) ==
    /\ job[p] = "create" /\ state_lock' = NoOne
    /\ \/ /\ chromium \in sockets_up
          /\ target' = [target EXCEPT ![p] = "open"] /\ launch_of' = [launch_of EXCEPT ![p] = chromium]
          /\ tabs' = tabs \cup {p} /\ job' = [job EXCEPT ![p] = "load"]
          /\ UNCHANGED <<chromeVars, gone, cdp>>
       \/ /\ chromium \notin sockets_up /\ job' = [job EXCEPT ![p] = "failed"]
          /\ IF tabs = {} THEN teardown ELSE UNCHANGED <<chromium, pidfile, procs, sockets_up, tabs, gone, cdp>>
          /\ UNCHANGED <<launches, target, launch_of>>
    /\ UNCHANGED <<pageplan, announced, dialogVars, command, inputVars>>

(* Its address loads and its record is read, or the tab is closed again. *)
goto(p) ==
    /\ job[p] = "load" /\ shown[p] = 0
    /\ job' = [job EXCEPT ![p] = IF Reachable(p) THEN "announce" ELSE "close"]
    /\ UNCHANGED <<pageplan, chromeVars, target, launch_of, tabVars, state_lock, cdp, dialogVars, command, inputVars>>

GotoFails(p) ==
    /\ job[p] = "load" /\ job' = [job EXCEPT ![p] = "close"]
    /\ UNCHANGED <<pageplan, chromeVars, target, launch_of, tabVars, state_lock, cdp, dialogVars, command, inputVars>>

(* The two flags are read and written one after the other. *)
announce_created(p) ==
    \/ /\ job[p] = "announce" /\ job' = [job EXCEPT ![p] = IF p \in gone THEN "done" ELSE "created"]
       /\ UNCHANGED <<pageplan, chromeVars, target, launch_of, tabVars, state_lock, cdp, dialogVars, command, inputVars>>
    \/ /\ job[p] = "created" /\ job' = [job EXCEPT ![p] = "done"] /\ announced' = announced \cup {p}
       /\ UNCHANGED <<pageplan, chromeVars, target, launch_of, tabs, gone, state_lock, cdp, dialogVars, command, inputVars>>

close(p) ==
    /\ state_lock = NoOne /\ p \in tabs /\ job[p] \in {"close", "done"}
    /\ tabs' = tabs \ {p} /\ announce_destroyed({p})
    /\ state_lock' = p /\ job' = [job EXCEPT ![p] = "close target"]
    /\ UNCHANGED <<pageplan, chromeVars, target, launch_of, announced, cdp, dialogVars, command, inputVars>>

close_target(p) ==
    /\ job[p] = "close target"
    /\ IF Reachable(p)
       THEN target' = [target EXCEPT ![p] = "closed"] /\ Report(launch_of[p], "destroyed", p)
       ELSE UNCHANGED <<target, cdp>>
    /\ IF tabs = {} THEN state_lock' = p /\ job' = [job EXCEPT ![p] = "stop"]
       ELSE state_lock' = NoOne /\ job' = [job EXCEPT ![p] = "done"]
    /\ UNCHANGED <<pageplan, chromeVars, launch_of, tabVars, dialogVars, command, inputVars>>

(* The last one is gone: a popup adopted meanwhile goes with Chromium. *)
StopWithLast(p) ==
    /\ job[p] = "stop" /\ teardown /\ state_lock' = NoOne /\ job' = [job EXCEPT ![p] = "done"]
    /\ UNCHANGED <<pageplan, launches, target, launch_of, announced, dialogVars, command, inputVars>>

(* A command finds that Chromium is gone and clears everything away. *)
tab(p) ==
    /\ state_lock = NoOne /\ p \in tabs /\ launch_of[p] \notin sockets_up
    /\ teardown
    /\ UNCHANGED <<pageplan, launches, target, launch_of, announced, state_lock, job, dialogVars, command, inputVars>>

shutdown ==
    /\ pageplan.dies /\ state_lock = NoOne /\ chromium # NoOne /\ teardown
    /\ UNCHANGED <<pageplan, launches, target, launch_of, announced, state_lock, job, dialogVars, command, inputVars>>

(* Mutant of kill_stale: the Chromium of the node's last run is left alone. *)
StaleLeft == procs' = procs

kill_stale == procs' = procs \ {pidfile}

(* The node dies and starts again: its tasks are gone, its Chromium not. *)
NodeRestarts ==
    /\ pageplan.dies /\ (chromium # NoOne \/ pidfile # NoOne)
    /\ kill_stale /\ pidfile' = NoOne /\ chromium' = NoOne /\ sockets_up' = {}
    /\ tabs' = {} /\ announced' = {} /\ gone' = {} /\ state_lock' = NoOne
    /\ job' = [p \in Pages |-> IF job[p] = "none" THEN "none" ELSE "failed"]
    /\ cdp' = [l \in 1 .. MaxLaunches |-> <<>>]
    /\ known' = [p \in Pages |-> 0] /\ dialogs_opened' = [p \in Pages |-> 0]
    /\ answer' = [p \in Pages |-> NoOne] /\ command' = [p \in Pages |-> NoOne]
    /\ sent' = <<>> /\ typed' = <<>> /\ batch' = <<>> /\ applied' = <<>>
    /\ UNCHANGED <<pageplan, launches, target, launch_of, shown, dialogs>>

-----------------------------------------------------------------------------
(* The supervisor of a launch. *)

DialogClosed(p) == known' = [known EXCEPT ![p] = 0] /\ UNCHANGED dialogs_opened
dialog_opened(p) ==
    /\ dialogs_opened' = [dialogs_opened EXCEPT ![p] = @ + 1]
    /\ known' = [known EXCEPT ![p] = dialogs_opened[p] + 1]

supervise_event(l) ==
    /\ cdp[l] # <<>> /\ cdp' = [cdp EXCEPT ![l] = Tail(@)]
    /\ LET ev == Head(cdp[l])  p == ev.page IN
       \/ /\ ev.kind = "created"
          /\ job' = IF ev.opener \in tabs THEN [job EXCEPT ![p] = "adopt"] ELSE job
          /\ UNCHANGED <<tabVars, known, dialogs_opened>>
       \/ /\ ev.kind = "destroyed"
          /\ IF p \in tabs THEN tabs' = tabs \ {p} /\ announce_destroyed({p}) ELSE UNCHANGED <<tabs, gone>>
          /\ UNCHANGED <<announced, job, known, dialogs_opened>>
       \/ /\ ev.kind = "closed" /\ tabs' = {} /\ announce_destroyed(tabs)
          /\ UNCHANGED <<announced, job, known, dialogs_opened>>
       \/ /\ ev.kind = "dialog opening" /\ IF p \in tabs THEN dialog_opened(p) ELSE UNCHANGED <<known, dialogs_opened>>
          /\ UNCHANGED <<tabVars, job>>
       \/ /\ ev.kind = "dialog closed" /\ IF p \in tabs THEN DialogClosed(p) ELSE UNCHANGED <<known, dialogs_opened>>
          /\ UNCHANGED <<tabVars, job>>
    /\ UNCHANGED <<pageplan, chromeVars, target, launch_of, state_lock, shown, dialogs, answer, command, inputVars>>

(* A page that a tab opened becomes a tab, without the manager's lock. *)
adopt_popup(p) ==
    \/ /\ job[p] = "adopt"
       /\ \/ Reachable(p) /\ tabs' = tabs \cup {p} /\ job' = [job EXCEPT ![p] = "adopted"]
          \/ job' = [job EXCEPT ![p] = "failed"] /\ UNCHANGED tabs
       /\ UNCHANGED <<pageplan, chromeVars, target, launch_of, announced, gone, state_lock, cdp, dialogVars, command, inputVars>>
    \/ /\ job[p] = "adopted" /\ job' = [job EXCEPT ![p] = IF Reachable(p) THEN "announce" ELSE "done"]
       /\ UNCHANGED <<pageplan, chromeVars, target, launch_of, tabVars, state_lock, cdp, dialogVars, command, inputVars>>

-----------------------------------------------------------------------------
(* Dialogs, and the commands they hold up. *)

answer_dialog(p) ==
    /\ p \in tabs /\ known[p] # 0 /\ answer[p] = NoOne
    /\ answer' = [answer EXCEPT ![p] = [opened |-> dialogs_opened[p], handled |-> FALSE]]
    /\ UNCHANGED <<pageplan, chromeVars, target, launch_of, tabVars, state_lock, job, cdp, shown, dialogs, known, dialogs_opened, command, inputVars>>

(* Chromium takes it, whichever dialog it shows by now, or refuses. *)
HandleDialog(p) ==
    /\ answer[p] # NoOne /\ ~answer[p].handled
    /\ IF Reachable(p) /\ shown[p] # 0
       THEN /\ shown' = [shown EXCEPT ![p] = 0] /\ answer' = [answer EXCEPT ![p].handled = TRUE]
            /\ Report(launch_of[p], "dialog closed", p)
       ELSE answer' = [answer EXCEPT ![p] = NoOne] /\ UNCHANGED <<shown, cdp>>
    /\ UNCHANGED <<pageplan, chromeVars, target, launch_of, tabVars, state_lock, job, dialogs, known, dialogs_opened, command, inputVars>>

(* Mutant of ClearAnswered: whichever dialog is known by now is cleared. *)
ClearAny(p) ==
    /\ answer[p] # NoOne /\ answer[p].handled /\ answer' = [answer EXCEPT ![p] = NoOne]
    /\ known' = [known EXCEPT ![p] = 0]
    /\ UNCHANGED <<pageplan, chromeVars, target, launch_of, tabVars, state_lock, job, cdp, shown, dialogs, dialogs_opened, command, inputVars>>

(* A dialog opened since is not the one that was answered. *)
ClearAnswered(p) ==
    /\ answer[p] # NoOne /\ answer[p].handled /\ answer' = [answer EXCEPT ![p] = NoOne]
    /\ known' = [known EXCEPT ![p] = IF dialogs_opened[p] = answer[p].opened THEN 0 ELSE @]
    /\ UNCHANGED <<pageplan, chromeVars, target, launch_of, tabVars, state_lock, job, cdp, shown, dialogs, dialogs_opened, command, inputVars>>

(* page_tab refuses while a dialog is known; until_dialog then watches for *)
(* one that opens from here on.                                            *)
act(p) ==
    /\ pageplan.dialogs /\ p \in tabs /\ job[p] = "done" /\ command[p] = NoOne /\ known[p] = 0
    /\ launch_of[p] \in sockets_up
    /\ command' = [command EXCEPT ![p] = [seen |-> dialogs_opened[p]]]
    /\ UNCHANGED <<pageplan, chromeVars, target, launch_of, tabVars, state_lock, job, cdp, dialogVars, inputVars>>

(* Chromium answers no call that acts on or reads a page with a dialog. *)
Answers(p) == shown[p] = 0

(* It ends: done, or overtaken by a dialog. *)
until_dialog(p) ==
    /\ command[p] # NoOne /\ (Answers(p) \/ dialogs_opened[p] > command[p].seen)
    /\ command' = [command EXCEPT ![p] = NoOne]
    /\ UNCHANGED <<pageplan, chromeVars, target, launch_of, tabVars, state_lock, job, cdp, dialogVars, inputVars>>

-----------------------------------------------------------------------------
(* A person's input.  An event is a move of the pointer or not. *)

Places == {"here", "there"}
Events == [move : {TRUE}, at : Places] \cup {[move |-> FALSE, at |-> "click"]}

input(e) ==
    /\ pageplan.input /\ Len(sent) < MaxInput /\ tabs # {}
    /\ sent' = Append(sent, e) /\ typed' = Append(typed, e)
    /\ UNCHANGED <<pageplan, chromeVars, target, launch_of, tabVars, state_lock, job, cdp, dialogVars, command, batch, applied>>

IsLastOfMoves(s, i) == ~s[i].move \/ i = Len(s) \/ ~s[i + 1].move
IsLastMove(s, i) == ~s[i].move \/ \A j \in (i + 1) .. Len(s) : ~s[j].move
Where(s, Test(_, _)) == {i \in DOMAIN s : Test(s, i)}
Nth(S, n) == CHOOSE i \in S : Cardinality({j \in S : j < i}) = n - 1
Keep(s, S) == [n \in 1 .. Cardinality(S) |-> s[Nth(S, n)]]

(* Mutant of coalesce: of all the moves waiting only the last is kept. *)
CoalesceAll(s) == Keep(s, Where(s, IsLastMove))

(* Of moves that follow each other only the last is kept. *)
coalesce(s) == Keep(s, Where(s, IsLastOfMoves))

(* The dispatcher takes all that waits, and applies it in order. *)
dispatch_input ==
    \/ /\ batch = <<>> /\ typed # <<>>
       /\ \E n \in 1 .. Len(typed) : batch' = coalesce(SubSeq(typed, 1, n)) /\ typed' = SubSeq(typed, n + 1, Len(typed))
       /\ UNCHANGED applied
    \/ /\ batch # <<>> /\ applied' = Append(applied, Head(batch)) /\ batch' = Tail(batch) /\ UNCHANGED typed
DispatchInput ==
    /\ dispatch_input
    /\ UNCHANGED <<pageplan, chromeVars, target, launch_of, tabVars, state_lock, job, cdp, dialogVars, command, sent>>

-----------------------------------------------------------------------------

PagesNext ==
    \/ ChromiumDies \/ shutdown \/ NodeRestarts \/ DispatchInput
    \/ \E p, q \in Pages : PageOpens(p, q)
    \/ \E p \in Pages :
          \/ PageCloses(p) \/ PageShowsDialog(p) \/ open(p) \/ FindsNoChromium(p) \/ create(p) \/ goto(p) \/ GotoFails(p)
          \/ announce_created(p) \/ close(p) \/ close_target(p) \/ StopWithLast(p) \/ tab(p)
          \/ adopt_popup(p) \/ answer_dialog(p) \/ HandleDialog(p) \/ ClearAnswered(p)
          \/ act(p) \/ until_dialog(p)
    \/ \E l \in 1 .. MaxLaunches : supervise_event(l)
    \/ \E e \in Events : input(e)

PagesSpec == PagesInit /\ [][PagesNext]_pageVars

-----------------------------------------------------------------------------

(* With nothing under way, the dialog a tab reports is the one its page    *)
(* shows: one that is answered is cleared, one that opened while an older  *)
(* one was answered is not.  (A dialog that a popup showed before it       *)
(* became a tab was never reported to it.)                                 *)
DialogIsKnown ==
    \A p \in tabs : Reachable(p) /\ cdp[launch_of[p]] = <<>> /\ answer[p] = NoOne =>
        /\ known[p] # 0 => shown[p] # 0
        /\ dialogs_opened[p] = dialogs[p] /\ shown[p] # 0 => known[p] # 0

(* Two Chromiums never share the profile: the one before is stopped, or,   *)
(* when the node died, killed by its pid file, before another starts.      *)
OneChromium == Cardinality(procs) <= 1

(* Input reaches the page in the order it was made, and every click lands  *)
(* where the pointer was: only moves that another move follows are left    *)
(* out, however the dispatcher's batches fall.                             *)
LastMove(s, i) == LET before == {j \in 1 .. i - 1 : s[j].move} IN
    IF before = {} THEN "nowhere" ELSE s[CHOOSE j \in before : \A k \in before : k <= j].at
Clicks(s) == Where(s, LAMBDA t, i : ~t[i].move)
InputKeepsOrder ==
    LET done == applied \o batch \o typed  cs == Clicks(done)  ds == Clicks(sent) IN
    /\ Cardinality(cs) = Cardinality(ds)
    /\ \A n \in 1 .. Cardinality(cs) :
          /\ done[Nth(cs, n)] = sent[Nth(ds, n)]
          /\ LastMove(done, Nth(cs, n)) = LastMove(sent, Nth(ds, n))
    /\ LastMove(done, Len(done) + 1) = LastMove(sent, Len(sent) + 1)

(* The tabs of the agent browser are what the one Chromium shows: its      *)
(* dialogs are known, it is the only one on the profile, and it gets input *)
(* in order.                                                               *)
PagesAreSound ==
    PagesTypeOK /\ DialogIsKnown /\ OneChromium /\ InputKeepsOrder
=============================================================================
