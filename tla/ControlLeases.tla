---------------------------- MODULE ControlLeases ----------------------------
(***************************************************************************)
(* The control lease of crates/hub/src/machine_manager.rs (ModeState): who *)
(* may type on each machine of one user.  Devices hold "/ws/events"        *)
(* sockets, which are counted, and terminal sockets, which are not; a      *)
(* closed events socket is unregistered only after a grace period, and the *)
(* leases a device loses that way are stashed for its return.              *)
(*                                                                         *)
(* Every operation is one critical section of the `mode` mutex, hence one  *)
(* action.  The hub's map is keyed by user and no operation crosses users, *)
(* so one user is modelled; dropping a user's entry once its three maps    *)
(* are empty is the same state as keeping it empty.  An absent key is      *)
(* None, 0 or {}.                                                          *)
(***************************************************************************)
EXTENDS Naturals, FiniteSets

CONSTANTS
    Device,       \* device ids of the user
    Machine,      \* machine ids of the user
    None,         \* no controller
    MaxSockets    \* bound: events sockets plus grace timers of a device

ASSUME NoneAssumption == None \notin Device
ASSUME MaxSocketsAssumption == MaxSockets \in Nat

VARIABLES
    control_leases,     \* machine -> device that may type, or None
    connected_devices,  \* device -> count kept by register/unregister_device
    released_leases,    \* device -> machines stashed when it was unregistered
    sockets,            \* device -> open events sockets
    timers,             \* device -> unregister_device tasks still sleeping
    terms,              \* device -> machines it has a terminal socket to
    renounced           \* history: <<d, m>> released by d and not claimed since

leases == <<control_leases, connected_devices, released_leases>>
vars == <<control_leases, connected_devices, released_leases, sockets, timers,
          terms, renounced>>

TypeOK ==
    /\ control_leases \in [Machine -> Device \cup {None}]
    /\ connected_devices \in [Device -> Nat]
    /\ released_leases \in [Device -> SUBSET Machine]
    /\ sockets \in [Device -> Nat]
    /\ timers \in [Device -> Nat]
    /\ terms \in [Device -> SUBSET Machine]
    /\ renounced \in SUBSET (Device \X Machine)

new_mode_state ==
    /\ control_leases = [m \in Machine |-> None]
    /\ connected_devices = [d \in Device |-> 0]
    /\ released_leases = [d \in Device |-> {}]

Init ==
    /\ new_mode_state
    /\ sockets = [d \in Device |-> 0]
    /\ timers = [d \in Device |-> 0]
    /\ terms = [d \in Device |-> {}]
    /\ renounced = {}

-----------------------------------------------------------------------------
(* Mutant of Restored: the check for a current holder is dropped. *)
RestoredOverHolder(d) == released_leases[d]

(* The stash comes back for every machine nobody holds at this moment. *)
Restored(d) == {m \in released_leases[d] : control_leases[m] = None}

(* Mutant of register_device: the stash is read but not removed. *)
RegisterKeepsStash(d) ==
    /\ connected_devices' = [connected_devices EXCEPT ![d] = @ + 1]
    /\ control_leases' = [m \in Machine |->
            IF m \in Restored(d) THEN d ELSE control_leases[m]]
    /\ UNCHANGED released_leases

register_device(d) ==
    /\ connected_devices' = [connected_devices EXCEPT ![d] = @ + 1]
    /\ control_leases' = [m \in Machine |->
            IF m \in Restored(d) THEN d ELSE control_leases[m]]
    /\ released_leases' = [released_leases EXCEPT ![d] = {}]

Held(d) == {m \in Machine : control_leases[m] = d}

(* The stash a device leaves behind when its last registration goes: the   *)
(* machines it held replace an older stash, and holding none keeps it.     *)
StashOnLeave(d) == IF Held(d) = {} THEN released_leases[d] ELSE Held(d)

(* Mutant of unregister_device: the count is not looked at. *)
UnregisterIgnoresCount(d) ==
    /\ connected_devices' = [connected_devices EXCEPT ![d] = 0]
    /\ control_leases' = [m \in Machine |->
            IF m \in Held(d) THEN None ELSE control_leases[m]]
    /\ released_leases' = [released_leases EXCEPT ![d] = StashOnLeave(d)]

(* Mutant of unregister_device: the leases are stashed but not released. *)
UnregisterKeepsLeases(d) ==
    /\ connected_devices' = [connected_devices EXCEPT ![d] = IF @ > 0 THEN @ - 1 ELSE 0]
    /\ UNCHANGED <<control_leases, released_leases>>

unregister_device(d) ==
    \/ /\ connected_devices[d] > 1
       /\ connected_devices' = [connected_devices EXCEPT ![d] = @ - 1]
       /\ UNCHANGED <<control_leases, released_leases>>
    \/ /\ connected_devices[d] = 1
       /\ connected_devices' = [connected_devices EXCEPT ![d] = 0]
       /\ control_leases' = [m \in Machine |->
               IF m \in Held(d) THEN None ELSE control_leases[m]]
       /\ released_leases' = [released_leases EXCEPT ![d] = StashOnLeave(d)]
    \/ /\ connected_devices[d] = 0
       /\ UNCHANGED leases

(* Mutant of request_control: the machine's id is stored as the holder. *)
RequestStoresMachine(d, m) ==
    /\ control_leases' = [control_leases EXCEPT ![m] = m]
    /\ UNCHANGED <<connected_devices, released_leases>>

request_control(d, m) ==
    /\ control_leases' = [control_leases EXCEPT ![m] = d]
    /\ UNCHANGED <<connected_devices, released_leases>>

(* Mutant of release_control: the stash is cleared only for the holder. *)
ReleaseHolderOnly(d, m) ==
    /\ IF control_leases[m] = d
       THEN /\ control_leases' = [control_leases EXCEPT ![m] = None]
            /\ released_leases' = [released_leases EXCEPT ![d] = @ \ {m}]
       ELSE UNCHANGED <<control_leases, released_leases>>
    /\ UNCHANGED connected_devices

release_control(d, m) ==
    /\ released_leases' = [released_leases EXCEPT ![d] = @ \ {m}]
    /\ control_leases' = [control_leases EXCEPT ![m] = IF @ = d THEN None ELSE @]
    /\ UNCHANGED connected_devices

clear_machine_mode(m) ==
    /\ control_leases' = [control_leases EXCEPT ![m] = None]
    /\ released_leases' = [d \in Device |-> released_leases[d] \ {m}]
    /\ UNCHANGED connected_devices

-----------------------------------------------------------------------------
(* An events socket opens and registers the device; it bounds the sockets. *)
OpenEvents(d) ==
    /\ sockets[d] + timers[d] < MaxSockets
    /\ register_device(d)
    /\ sockets' = [sockets EXCEPT ![d] = @ + 1]
    /\ UNCHANGED <<timers, terms, renounced>>

(* The socket ends, by close, lag or a demanded resync: the unregistration *)
(* is scheduled for the end of the grace period.                           *)
CloseEvents(d) ==
    /\ sockets[d] > 0
    /\ sockets' = [sockets EXCEPT ![d] = @ - 1]
    /\ timers' = [timers EXCEPT ![d] = @ + 1]
    /\ UNCHANGED <<leases, terms, renounced>>

schedule_unregister_device(d) ==
    /\ timers[d] > 0
    /\ timers' = [timers EXCEPT ![d] = @ - 1]
    /\ unregister_device(d)
    /\ UNCHANGED <<sockets, terms, renounced>>

Claim(d, m) ==
    /\ request_control(d, m)
    /\ renounced' = renounced \ {<<d, m>>}
    /\ UNCHANGED <<sockets, timers, terms>>

(* POST /api/mode/control, and a bridge typing as its own device: no       *)
(* socket of the device is asked for.                                      *)
HttpRequestControl(d, m) == Claim(d, m)

(* Input, a paste or an upload on a terminal socket claims the lease when  *)
(* the device does not hold it; otherwise the message changes no lease.    *)
TerminalInput(d, m) ==
    /\ m \in terms[d]
    /\ control_leases[m] # d
    /\ Claim(d, m)

(* POST /api/mode/release and its beacon. *)
HttpReleaseControl(d, m) ==
    /\ release_control(d, m)
    /\ renounced' = renounced \cup {<<d, m>>}
    /\ UNCHANGED <<sockets, timers, terms>>

(* remove_machine forgets the machine's lease.  An open terminal socket    *)
(* may still claim it afterwards, so the machine id stays in play.         *)
RemoveMachine(m) ==
    /\ clear_machine_mode(m)
    /\ UNCHANGED <<sockets, timers, terms, renounced>>

OpenTerminal(d, m) ==
    /\ m \notin terms[d]
    /\ terms' = [terms EXCEPT ![d] = @ \cup {m}]
    /\ UNCHANGED <<leases, sockets, timers, renounced>>

CloseTerminal(d, m) ==
    /\ m \in terms[d]
    /\ terms' = [terms EXCEPT ![d] = @ \ {m}]
    /\ UNCHANGED <<leases, sockets, timers, renounced>>

BrowserStep ==
    \E d \in Device :
        \/ OpenEvents(d)
        \/ CloseEvents(d)
        \/ schedule_unregister_device(d)
        \/ \E m \in Machine :
              OpenTerminal(d, m) \/ CloseTerminal(d, m) \/ TerminalInput(d, m)

HttpStep ==
    \/ \E d \in Device, m \in Machine :
          HttpRequestControl(d, m) \/ HttpReleaseControl(d, m)
    \/ \E m \in Machine : RemoveMachine(m)

Next == BrowserStep \/ HttpStep

(* A sleeping grace timer always fires: it is a spawned task that only     *)
(* sleeps and then takes the mutex.  Nothing else is forced to happen.     *)
Fairness == \A d \in Device : WF_vars(schedule_unregister_device(d))

Spec == Init /\ [][Next]_vars /\ Fairness

(* The behaviours in which only browsers act, through their sockets. *)
BrowserSpec == Init /\ [][BrowserStep]_vars /\ Fairness

-----------------------------------------------------------------------------
(* A device's count in connected_devices is exactly the events sockets it  *)
(* has open plus the closed ones whose grace period still runs, so no      *)
(* order of reconnects and late timers unregisters a connected device or   *)
(* leaves a ghost registration.                                            *)
CountsSockets ==
    \A d \in Device : connected_devices[d] = sockets[d] + timers[d]

(* A device never has stashed leases while it is registered: everything    *)
(* that unregister_device stashed was handed back or given up by the next  *)
(* register_device.                                                        *)
StashOnlyWhenAway ==
    \A d \in Device : connected_devices[d] > 0 => released_leases[d] = {}

(* "An explicit release is not accidentally restored on reconnect": after  *)
(* release_control, whatever timers and reconnects follow, the device does *)
(* not hold the lease, nor can a stash give it back, until it claims anew. *)
ReleaseIsFinal ==
    \A d \in Device, m \in Machine :
        <<d, m>> \in renounced =>
            control_leases[m] # d /\ m \notin released_leases[d]

(* A lease changes hands only by a claim: whoever comes to hold a lease    *)
(* that another device held was not handed it by a reconnect or a timer,   *)
(* which only fill empty leases and empty held ones.                       *)
NoStealWithoutClaim ==
    [][\A m \in Machine :
          (/\ control_leases[m] # None
           /\ control_leases'[m] # control_leases[m]
           /\ control_leases'[m] # None)
          => /\ connected_devices' = connected_devices
             /\ released_leases' = released_leases]_vars

(* A registered device all of whose events sockets have closed loses the   *)
(* leases it holds, or comes back, once the grace period is over.          *)
GraceReleases ==
    \A d \in Device, m \in Machine :
        (control_leases[m] = d /\ sockets[d] = 0 /\ connected_devices[d] > 0)
            ~> (control_leases[m] # d \/ sockets[d] > 0)

(* docs/facts.md, section 7: "On device disconnect the lease is released   *)
(* after a grace period and stashed".  A device with no socket of any kind *)
(* left does not keep a lease for ever.                                    *)
DisconnectReleases ==
    \A d \in Device, m \in Machine :
        (control_leases[m] = d /\ sockets[d] = 0 /\ terms[d] = {})
            ~> (control_leases[m] # d \/ sockets[d] > 0 \/ terms[d] # {})

(* The lease book is right in every state: typed, counting exactly the     *)
(* open and lingering events sockets, holding a stash only for devices     *)
(* that are away, and giving nothing back that was released (mode.rs).     *)
LeasesAreSound ==
    TypeOK /\ CountsSockets /\ StashOnlyWhenAway /\ ReleaseIsFinal
=============================================================================
