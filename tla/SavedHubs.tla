----------------------------- MODULE SavedHubs -----------------------------
(***************************************************************************)
(* The hubs a device is paired with (packages/desktop/src-tauri/secure.rs) *)
(* and the hubs' side of a pairing (hub/src/secure/store.rs).              *)
(*                                                                         *)
(* A device keeps three things that can only be written one at a time: the *)
(* marker (the active hub), the registry (all saved hubs) and a credential *)
(* store with a slot per pairing.  Every write may fail (a locked          *)
(* keychain, a full disk) and the app may be killed between two of them.   *)
(* A command decides under the gate what it will write; here it is a list  *)
(* of writes that are then made one step at a time.                        *)
(***************************************************************************)
EXTENDS Naturals, Sequences, FiniteSets

CONSTANTS
    Hubs,        \* hubs, by their pinned public key
    Urls,        \* addresses a hub can have
    Keys,        \* bound: device keys the device can generate
    PairCodes,   \* bound: pairing codes the hubs mint
    MaxSlot,     \* bound: pairings that get as far as a slot of their own
    MaxHubs,     \* how many hubs can be saved (16 in the code)
    MaxFaults,   \* bound: writes that fail and times the app is killed
    Nil

Slots == 0 .. MaxSlot
candidate == 0      \* the slot of the pairing that is under way
Statuses == [hub : Hubs, key : Keys, slot : 1 .. MaxSlot, url : Urls, routes : SUBSET Urls]

(* What a slot keeps, an open session, a write that is to be made, and a   *)
(* command that is under way (see Write, Begin and secure_pair below).     *)
Credentials == [hub : Hubs, key : Keys, code : PairCodes \cup {Nil}]
Sessions == [hub : Hubs, key : Keys]
Values == {Nil} \cup Statuses \cup Credentials \cup Sessions \cup (SUBSET Statuses)
Writes == [on : {"registry", "slot", "marker", "drop", "client"}, slot : Slots \cup {Nil},
           val : Values, fails : {"stop", "undo", "go on", "skip"}]
Commands == [does : {"pair"}, at : {"sent", "acked"}, key : Keys, code : PairCodes]
            \cup [does : {"saving", "switch route", "switch hub", "remove", "rename", "forget"},
                  todo : Seq(Writes), undo : Seq(Writes)]

(* Nil is none of the values it stands for the lack of, and the key of     *)
(* another device is none of this one's.                                   *)
ASSUME SavedAssumption ==
    /\ Nil \notin Hubs /\ Nil \notin Keys /\ Nil \notin Nat
    /\ Nil \notin Statuses /\ Nil \notin Credentials /\ Nil \notin Commands
    /\ "other" \notin Keys /\ Nil # "revoked"
    /\ MaxSlot \in Nat /\ MaxFaults \in Nat

VARIABLES
    marker,      \* secure-connection.json: the active status, or Nil
    registry,    \* secure-hubs.json: a set of statuses, one per hub
    keychain,    \* per slot: the credential in the operating system's store, or Nil
    client,      \* the open session [hub, key], or Nil
    connecting,  \* a request that opens a session, holding its lock: a status, or Nil
    checking,    \* a connection check, holding the gate for reading, or Nil
    cmd,         \* the command that holds the gate for writing, or Nil
    unused,      \* keys and slots not yet made
    minted,      \* per code: [hub, state, bound] at its hub
    device,      \* per key: the hub it is an active device of, "revoked", or Nil
    forgot,      \* history: hubs whose key the device has begun to erase
    given_up,    \* history: codes the device has replaced or erased
    faults

savedVars == <<marker, registry, keychain, client, connecting, checking, cmd, unused, minted, device,
               forgot, given_up, faults>>

SavedTypeOK ==
    /\ marker \in Statuses \cup {Nil} /\ registry \subseteq Statuses
    /\ \A s \in Slots : keychain[s] # Nil => keychain[s].hub \in Hubs /\ keychain[s].key \in Keys
    /\ client # Nil => client.hub \in Hubs
    /\ forgot \subseteq Hubs /\ given_up \subseteq PairCodes /\ faults \in 0 .. MaxFaults

SavedInit ==
    /\ marker = Nil /\ registry = {} /\ client = Nil
    /\ connecting = Nil /\ checking = Nil /\ cmd = Nil
    /\ keychain = [s \in Slots |-> Nil]
    /\ unused = [keys |-> Keys, slot |-> 1]
    /\ minted \in [PairCodes -> {[hub |-> h, state |-> "live", bound |-> Nil] : h \in Hubs}]
    /\ device = [k \in Keys |-> Nil]
    /\ forgot = {} /\ given_up = {} /\ faults = 0

(* The saved hubs as every reader sees them: the active one overrides. *)
load_hubs == IF marker = Nil THEN registry
             ELSE {h \in registry : h.hub # marker.hub} \cup {marker}
normalize(routes, current) == routes \cup {current}
find_hub(h) == {s \in load_hubs : s.hub = h}

-----------------------------------------------------------------------------
(* Commands.  A write says where, what, and what its failure means: "stop" *)
(* returns the error, "undo" closes the new session and erases the new     *)
(* slot, "go on" ignores it, "skip" also leaves out the next write.        *)

Write(on, val, fails) == [on |-> on, slot |-> Nil, val |-> val, fails |-> fails]
Store(slot, val, fails) == [on |-> "slot", slot |-> slot, val |-> val, fails |-> fails]
Erase(slot, fails) == Store(slot, Nil, fails)
Drop(slot, fails) == [on |-> "drop", slot |-> slot, val |-> Nil, fails |-> fails]  \* for good
Begin(does, writes) == [does |-> does, todo |-> writes, undo |-> <<>>]

(* The gate: one command that writes, or checks and requests that read. *)
GateFree == cmd = Nil /\ checking = Nil

(* Mutant of SessionFree: a command does not wait for a session that opens. *)
SessionMayOpen == TRUE

(* The lock of the session, which a request holds while it opens one. *)
SessionFree == connecting = Nil

(* Mutant of CandidateFor: every scan of a code makes a new device key. *)
NewCandidate(c) == unused.keys

(* The key a scan of a code uses: the one kept for that code, so that a    *)
(* pairing whose answer was lost is finished and not refused.              *)
CandidateFor(c) ==
    IF keychain[candidate] # Nil /\ keychain[candidate].code = c THEN {keychain[candidate].key} ELSE unused.keys

ApplyCandidate(k, c) ==
    LET old == keychain[candidate] IN
    /\ keychain' = [keychain EXCEPT ![candidate] = [hub |-> minted[c].hub, key |-> k, code |-> c]]
    /\ given_up' = IF old # Nil /\ old.code # c THEN given_up \cup {old.code} ELSE given_up

secure_pair(c) ==
    /\ GateFree /\ SessionFree
    /\ Cardinality(load_hubs) < MaxHubs \/ find_hub(minted[c].hub) # {}
    /\ \E k \in CandidateFor(c) :
         /\ ApplyCandidate(k, c)
         /\ unused' = [unused EXCEPT !.keys = @ \ {k}]
         /\ cmd' = [does |-> "pair", at |-> "sent", key |-> k, code |-> c]
    /\ UNCHANGED <<marker, registry, client, connecting, checking, minted, device, forgot, faults>>

(* The acknowledgement of the hub arrives; what is then written, in order. *)
PairAcknowledged ==
    /\ cmd # Nil /\ cmd.does = "pair" /\ cmd.at = "acked" /\ unused.slot <= MaxSlot
    /\ \E url \in Urls, routes \in SUBSET Urls :
         LET s == [hub |-> minted[cmd.code].hub, key |-> cmd.key, slot |-> unused.slot,
                   url |-> url, routes |-> normalize(routes, url)]
             old == find_hub(s.hub)
         IN cmd' = [does |-> "saving",
                    undo |-> <<Erase(s.slot, "go on")>>,
                    todo |-> <<Write("registry", load_hubs, "undo"),
                               Store(s.slot, [hub |-> s.hub, key |-> s.key, code |-> Nil], "undo"),
                               Write("marker", s, "undo"),
                               Write("registry", {h \in load_hubs : h.hub # s.hub} \cup {s}, "skip"),
                               Drop(IF old = {} THEN Nil ELSE (CHOOSE o \in old : TRUE).slot, "go on"),
                               Write("client", [hub |-> s.hub, key |-> s.key], "go on"),
                               Erase(candidate, "go on")>>]
    /\ unused' = [unused EXCEPT !.slot = @ + 1]
    /\ UNCHANGED <<marker, registry, keychain, client, connecting, checking, minted, device, forgot,
                   given_up, faults>>

(* The pairing is refused, or its answer is lost with the connection. *)
PairFails ==
    /\ cmd # Nil /\ cmd.does = "pair" /\ cmd' = Nil
    /\ UNCHANGED <<marker, registry, keychain, client, connecting, checking, unused, minted, device, forgot,
                   given_up, faults>>

(* A session opens for a status if its slot holds its key and the hub      *)
(* still knows the device.                                                 *)
validate_credential(s) == keychain[s.slot] # Nil /\ keychain[s.slot].hub = s.hub /\ keychain[s.slot].key = s.key
resume_at(s) == validate_credential(s) /\ device[s.key] = s.hub

secure_switch_route(url) ==
    /\ GateFree /\ SessionFree /\ marker # Nil
    /\ url \in normalize(marker.routes, marker.url) /\ resume_at(marker)
    /\ cmd' = Begin("switch route", <<Write("marker", [marker EXCEPT !.url = url], "stop"),
                                Write("client", [hub |-> marker.hub, key |-> marker.key], "go on")>>)
    /\ UNCHANGED <<marker, registry, keychain, client, connecting, checking, unused, minted, device, forgot,
                   given_up, faults>>

secure_switch_hub(h, url) ==
    /\ GateFree /\ SessionFree
    /\ \E s \in find_hub(h) :
         /\ url \in normalize(s.routes, s.url) /\ resume_at(s)
         /\ LET new == [s EXCEPT !.url = url]
            IN cmd' = Begin("switch hub", <<Write("registry", load_hubs, "stop"),
                              Write("marker", new, "stop"),
                              Write("client", [hub |-> h, key |-> s.key], "go on"),
                              Write("registry", (load_hubs \ {s}) \cup {new}, "go on")>>)
    /\ UNCHANGED <<marker, registry, keychain, client, connecting, checking, unused, minted, device, forgot,
                   given_up, faults>>

(* Mutant of secure_remove_hub: the key goes first. *)
RemoveKeyFirst(h) ==
    /\ GateFree /\ (marker # Nil => marker.hub # h)
    /\ \E s \in find_hub(h) :
         cmd' = Begin("remove", <<Drop(s.slot, "stop"), Write("registry", load_hubs \ {s}, "stop")>>)
    /\ UNCHANGED <<marker, registry, keychain, client, connecting, checking, unused, minted, device, forgot,
                   given_up, faults>>

(* The name is left out: what is written back is the merged list. *)
secure_rename_hub ==
    /\ GateFree /\ load_hubs # {} /\ cmd' = Begin("rename", <<Write("registry", load_hubs, "stop")>>)
    /\ UNCHANGED <<marker, registry, keychain, client, connecting, checking, unused, minted, device, forgot,
                   given_up, faults>>

(* Another hub than the active one.  Its key goes last. *)
secure_remove_hub(h) ==
    /\ GateFree /\ (marker # Nil => marker.hub # h)
    /\ \E s \in find_hub(h) :
         cmd' = Begin("remove", <<Write("registry", load_hubs \ {s}, "stop")>>
                                \o (IF marker = Nil THEN <<Write("marker", Nil, "stop")>> ELSE <<>>)
                                \o <<Drop(s.slot, "stop")>>)
    /\ UNCHANGED <<marker, registry, keychain, client, connecting, checking, unused, minted, device, forgot,
                   given_up, faults>>

(* The active hub.  Its key goes first, and what refers to it last, so     *)
(* that a locked keychain can be tried again.                              *)
forget_saved_connection ==
    /\ GateFree /\ SessionFree /\ client' = Nil
    /\ LET active == IF marker = Nil THEN {} ELSE {marker}
       IN /\ cmd' = Begin("forget", <<Drop(IF active = {} THEN Nil ELSE marker.slot, "stop"),
                           Drop(candidate, "stop"),
                           Write("registry", load_hubs \ active, "stop"),
                           Write("marker", Nil, "stop")>>)
          /\ forgot' = forgot \cup {s.hub : s \in active}
    /\ UNCHANGED <<marker, registry, keychain, connecting, checking, unused, minted, device, given_up, faults>>

-----------------------------------------------------------------------------
(* One write of the running command. *)

Apply(w) ==
    /\ marker' = IF w.on = "marker" THEN w.val ELSE marker
    /\ registry' = IF w.on = "registry" THEN w.val ELSE registry
    /\ client' = IF w.on = "client" THEN w.val ELSE client
    /\ keychain' = IF w.slot \in Slots THEN [keychain EXCEPT ![w.slot] = w.val] ELSE keychain
    /\ forgot' = IF w.on = "marker" /\ w.val # Nil THEN forgot \ {w.val.hub} ELSE forgot
    /\ given_up' = IF w.on = "drop" /\ w.slot \in Slots /\ keychain[w.slot] # Nil
                   THEN given_up \cup {c \in PairCodes : minted[c].bound = keychain[w.slot].key \/ keychain[w.slot].code = c}
                   ELSE given_up

Continue(todo) == IF todo = <<>> THEN Nil ELSE [cmd EXCEPT !.todo = todo]
Writing == cmd # Nil /\ cmd.does # "pair"

atomic_json ==
    /\ Writing /\ Apply(Head(cmd.todo)) /\ cmd' = Continue(Tail(cmd.todo))
    /\ UNCHANGED <<connecting, checking, unused, minted, device, faults>>

WriteFails ==
    /\ Writing /\ faults < MaxFaults /\ faults' = faults + 1
    /\ Head(cmd.todo).on # "client" /\ (Head(cmd.todo).on \in {"slot", "drop"} => Head(cmd.todo).slot # Nil)
    /\ LET fails == Head(cmd.todo).fails
           rest == Tail(cmd.todo)
       IN cmd' = Continue(CASE fails = "stop" -> <<>>
                         [] fails = "undo" -> cmd.undo
                         [] fails = "go on" -> rest
                         [] fails = "skip" -> Tail(rest))
    /\ UNCHANGED <<marker, registry, keychain, client, connecting, checking, unused, minted, device,
                   forgot, given_up>>

(* A request opens a session to the active hub; reads do not ask for the   *)
(* gate, so that a stalled one never traps anyone on a dead address.       *)
connected ==
    /\ SessionFree /\ client = Nil /\ marker # Nil /\ validate_credential(marker)
    /\ (cmd # Nil => cmd.does \in {"remove", "rename"})
    /\ connecting' = marker
    /\ UNCHANGED <<marker, registry, keychain, client, checking, cmd, unused, minted, device, forgot,
                   given_up, faults>>

OpenSession ==
    /\ connecting # Nil /\ connecting' = Nil
    /\ \/ device[connecting.key] = connecting.hub
          /\ client' = [hub |-> connecting.hub, key |-> connecting.key]
       \/ UNCHANGED client
    /\ UNCHANGED <<marker, registry, keychain, checking, cmd, unused, minted, device, forgot, given_up, faults>>

(* A check tries every known address of a hub and asks the hub for more;   *)
(* what it learns is written to the registry and, if the hub is active, to *)
(* the marker.  Addresses that answered are kept.                          *)
merge_routes(advertised, s, verified) == normalize(advertised \cup (s.routes \cap verified), s.url)

secure_routes(h) ==
    /\ cmd = Nil /\ checking = Nil
    /\ \E s \in find_hub(h) : keychain[s.slot] # Nil /\ checking' = [at |-> "checking", status |-> s]
    /\ UNCHANGED <<marker, registry, keychain, client, connecting, cmd, unused, minted, device, forgot,
                   given_up, faults>>

RoutesChecked ==
    /\ checking # Nil /\ checking.at = "checking" /\ resume_at(checking.status)
    /\ \E advertised, verified \in SUBSET Urls :
         LET s == checking.status
             new == [s EXCEPT !.routes = merge_routes(advertised, s, verified)]
         IN /\ registry' = {h \in load_hubs : h.hub # s.hub} \cup {new}
            /\ checking' = IF marker # Nil /\ marker.hub = s.hub THEN [at |-> "marker", status |-> new] ELSE Nil
    /\ UNCHANGED <<marker, keychain, client, connecting, cmd, unused, minted, device, forgot, given_up, faults>>

RoutesSaved ==
    /\ checking # Nil /\ checking' = Nil
    /\ marker' = IF checking.at = "marker" THEN checking.status ELSE marker
    /\ UNCHANGED <<registry, keychain, client, connecting, cmd, unused, minted, device, forgot, given_up, faults>>

CloseClient ==
    /\ client # Nil /\ client' = Nil
    /\ UNCHANGED <<marker, registry, keychain, connecting, checking, cmd, unused, minted, device, forgot,
                   given_up, faults>>

AppKilled ==
    /\ faults < MaxFaults /\ faults' = faults + 1 /\ (cmd # Nil \/ checking # Nil)
    /\ client' = Nil /\ connecting' = Nil /\ checking' = Nil /\ cmd' = Nil
    /\ UNCHANGED <<marker, registry, keychain, unused, minted, device, forgot, given_up>>

-----------------------------------------------------------------------------
(* The hubs. *)

(* A code is good for one device key; only that key may use it again, as   *)
(* long as the code lives and the device is not revoked.                   *)
pair(c, k) ==
    /\ minted[c].state = "live"
    /\ \/ minted[c].bound = k /\ device[k] = minted[c].hub /\ UNCHANGED <<minted, device>>
       \/ /\ minted[c].bound = Nil /\ device[k] = Nil
          /\ minted' = [minted EXCEPT ![c].bound = k]
          /\ device' = [device EXCEPT ![k] = minted[c].hub]

HubPairs ==
    /\ cmd # Nil /\ cmd.does = "pair" /\ cmd.at = "sent"
    /\ pair(cmd.code, cmd.key) /\ cmd' = [cmd EXCEPT !.at = "acked"]
    /\ UNCHANGED <<marker, registry, keychain, client, connecting, checking, unused, forgot, given_up, faults>>

OtherDevicePairs(c) ==
    /\ minted[c].state = "live" /\ minted[c].bound = Nil /\ minted' = [minted EXCEPT ![c].bound = "other"]
    /\ UNCHANGED <<marker, registry, keychain, client, connecting, checking, cmd, unused, device, forgot,
                   given_up, faults>>

CodeExpires(c) ==
    /\ minted[c].state = "live" /\ minted' = [minted EXCEPT ![c].state = "expired"]
    /\ UNCHANGED <<marker, registry, keychain, client, connecting, checking, cmd, unused, device, forgot,
                   given_up, faults>>

revoke(k) ==
    /\ device[k] \in Hubs /\ device' = [device EXCEPT ![k] = "revoked"]
    /\ UNCHANGED <<marker, registry, keychain, client, connecting, checking, cmd, unused, minted, forgot,
                   given_up, faults>>

SavedNext ==
    \/ \E c \in PairCodes : secure_pair(c) \/ OtherDevicePairs(c) \/ CodeExpires(c)
    \/ \E k \in Keys : revoke(k)
    \/ HubPairs \/ PairAcknowledged \/ PairFails
    \/ \E u \in Urls : secure_switch_route(u) \/ \E h \in Hubs : secure_switch_hub(h, u)
    \/ \E h \in Hubs : secure_remove_hub(h) \/ secure_routes(h)
    \/ secure_rename_hub \/ forget_saved_connection \/ atomic_json \/ WriteFails
    \/ connected \/ OpenSession \/ RoutesChecked \/ RoutesSaved \/ CloseClient \/ AppKilled

SavedSpec == SavedInit /\ [][SavedNext]_savedVars

-----------------------------------------------------------------------------
(* Properties *)

(* Whatever writes fail and wherever the app is killed, every saved hub    *)
(* still has the key that belongs to it, unless the person has asked to    *)
(* forget it (secure_pair, secure_remove_hub, forget_saved_connection).    *)
SavedHubsHaveKeys ==
    \A s \in load_hubs : s.hub \notin forgot => validate_credential(s)

(* The open session is the active hub's whenever no command is between its *)
(* writes: a request that opens one while the person switches, pairs or    *)
(* forgets never leaves the app talking to the previous hub (connected).   *)
SessionIsActive ==
    client # Nil /\ cmd = Nil => marker # Nil /\ client.hub = marker.hub /\ client.key = marker.key

(* A pairing whose answer was lost can be finished by scanning the same    *)
(* code again: while a code is bound to a key of this device, the device   *)
(* still has that key, unless it was given up: the device has turned to    *)
(* another code, or removed or forgot the hub (secure_pair, pair).         *)
LostAnswerIsRetried ==
    \A c \in PairCodes \ given_up :
        minted[c].bound \in Keys =>
            \E s \in Slots : keychain[s] # Nil /\ keychain[s].key = minted[c].bound

(* The hubs a person saved stay usable: with their keys, with the session  *)
(* of the active one, and with the key a lost answer is retried with.      *)
SavedHubsAreSound ==
    SavedTypeOK /\ SavedHubsHaveKeys /\ SessionIsActive /\ LostAnswerIsRetried
=============================================================================
