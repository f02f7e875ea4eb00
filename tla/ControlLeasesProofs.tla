------------------------- MODULE ControlLeasesProofs -------------------------
(* Proofs about the control lease, for any sets of devices and machines    *)
(* and any bound on the sockets, and about the secure channel, for any     *)
(* requests and sockets, any sizes of messages and any limits.             *)
EXTENDS ControlLeases, SecureChannel, TLAPS, FiniteSetTheorems, WellFoundedInduction

(* The inductive invariant.  ReleaseIsFinal alone is not inductive: a late *)
(* grace timer could only be known not to stash or restore a renounced     *)
(* lease from what is held and stashed now, and StashOnlyWhenAway needs    *)
(* the type of the counts.                                                 *)
Inv == TypeOK /\ CountsSockets /\ StashOnlyWhenAway /\ ReleaseIsFinal

(* What unregister_device does to a registered device, whatever the count: *)
(* it takes one registration away, it gives no lease to anyone, and what   *)
(* it stashes was held or stashed before.                                  *)
LEMMA UnregisterEffect ==
    ASSUME TypeOK, NEW d \in Device, connected_devices[d] > 0, unregister_device(d)
    PROVE  /\ connected_devices' = [connected_devices EXCEPT ![d] = @ - 1]
           /\ control_leases' \in [Machine -> Device \cup {None}]
           /\ \A m \in Machine : control_leases'[m] \in {control_leases[m], None}
           /\ released_leases' \in [Device -> SUBSET Machine]
           /\ \A e \in Device : e # d => released_leases'[e] = released_leases[e]
           /\ connected_devices'[d] > 0 => released_leases' = released_leases
           /\ \A m \in released_leases'[d] :
                 m \in released_leases[d] \/ control_leases[m] = d
<1>1. CASE connected_devices[d] > 1
  BY <1>1 DEF unregister_device, TypeOK
<1>2. CASE connected_devices[d] = 1
  <2>1. /\ connected_devices' = [connected_devices EXCEPT ![d] = 0]
        /\ control_leases' = [m \in Machine |->
               IF m \in Held(d) THEN None ELSE control_leases[m]]
        /\ released_leases' = [released_leases EXCEPT ![d] = StashOnLeave(d)]
    BY <1>2 DEF unregister_device
  <2>2. StashOnLeave(d) \in SUBSET Machine
    BY DEF StashOnLeave, Held, TypeOK
  <2>3. \A m \in StashOnLeave(d) : m \in released_leases[d] \/ control_leases[m] = d
    BY DEF StashOnLeave, Held
  <2> QED  BY <1>2, <2>1, <2>2, <2>3 DEF TypeOK
<1> QED  BY <1>1, <1>2 DEF TypeOK

(* The initial state: nobody is connected, nothing is held or stashed. *)
LEMMA InitInv == Init => Inv
BY NoneAssumption
   DEF Init, new_mode_state, Inv, TypeOK, CountsSockets, StashOnlyWhenAway, ReleaseIsFinal

(* Claiming a lease, over HTTP or by typing, preserves the invariant. *)
LEMMA ClaimInv ==
    ASSUME Inv, NEW d \in Device, NEW m \in Machine, Claim(d, m)
    PROVE  Inv'
<1> USE DEF Inv, Claim, request_control
<1>1. TypeOK'
  BY DEF TypeOK
<1>2. CountsSockets'
  BY DEF CountsSockets
<1>3. StashOnlyWhenAway'
  BY DEF StashOnlyWhenAway
<1>4. ReleaseIsFinal'
  BY DEF ReleaseIsFinal, TypeOK
<1> QED  BY <1>1, <1>2, <1>3, <1>4

(* Opening an events socket registers the device and empties its stash. *)
LEMMA OpenEventsInv ==
    ASSUME Inv, NEW d \in Device, OpenEvents(d)
    PROVE  Inv'
<1> USE DEF Inv, OpenEvents, register_device
<1>1. TypeOK'
  BY DEF TypeOK
<1>2. CountsSockets'
  BY DEF CountsSockets, TypeOK
<1>3. StashOnlyWhenAway'
  BY DEF StashOnlyWhenAway, TypeOK
<1>4. ReleaseIsFinal'
  BY DEF ReleaseIsFinal, TypeOK, Restored
<1> QED  BY <1>1, <1>2, <1>3, <1>4

(* The end of a grace period: the count stands for the firing timer, so    *)
(* the device is registered and UnregisterEffect applies.                  *)
LEMMA UnregisterInv ==
    ASSUME Inv, NEW d \in Device, schedule_unregister_device(d)
    PROVE  Inv'
<1> USE DEF Inv, schedule_unregister_device
<1>0. connected_devices[d] > 0
  BY DEF CountsSockets, TypeOK
<1>e. /\ connected_devices' = [connected_devices EXCEPT ![d] = @ - 1]
      /\ control_leases' \in [Machine -> Device \cup {None}]
      /\ \A m \in Machine : control_leases'[m] \in {control_leases[m], None}
      /\ released_leases' \in [Device -> SUBSET Machine]
      /\ \A e \in Device : e # d => released_leases'[e] = released_leases[e]
      /\ connected_devices'[d] > 0 => released_leases' = released_leases
      /\ \A m \in released_leases'[d] :
            m \in released_leases[d] \/ control_leases[m] = d
  BY <1>0, UnregisterEffect
<1>1. TypeOK'
  BY <1>0, <1>e DEF TypeOK
<1>2. CountsSockets'
  BY <1>0, <1>e DEF CountsSockets, TypeOK
<1>3. StashOnlyWhenAway'
  BY <1>0, <1>e DEF StashOnlyWhenAway, TypeOK
<1>4. ReleaseIsFinal'
  BY <1>e, NoneAssumption DEF ReleaseIsFinal, TypeOK
<1> QED  BY <1>1, <1>2, <1>3, <1>4

(* An explicit release takes the lease and the stashed lease away. *)
LEMMA ReleaseInv ==
    ASSUME Inv, NEW d \in Device, NEW m \in Machine, HttpReleaseControl(d, m)
    PROVE  Inv'
<1> USE DEF Inv, HttpReleaseControl, release_control
<1>1. TypeOK'
  BY DEF TypeOK
<1>2. CountsSockets'
  BY DEF CountsSockets
<1>3. StashOnlyWhenAway'
  BY DEF StashOnlyWhenAway, TypeOK
<1>4. ReleaseIsFinal'
  BY NoneAssumption DEF ReleaseIsFinal, TypeOK
<1> QED  BY <1>1, <1>2, <1>3, <1>4

(* Forgetting a machine only takes leases and stashes away. *)
LEMMA RemoveMachineInv ==
    ASSUME Inv, NEW m \in Machine, RemoveMachine(m)
    PROVE  Inv'
<1> USE DEF Inv, RemoveMachine, clear_machine_mode
<1>1. TypeOK'
  BY DEF TypeOK
<1>2. CountsSockets'
  BY DEF CountsSockets
<1>3. StashOnlyWhenAway'
  BY DEF StashOnlyWhenAway, TypeOK
<1>4. ReleaseIsFinal'
  BY NoneAssumption DEF ReleaseIsFinal, TypeOK
<1> QED  BY <1>1, <1>2, <1>3, <1>4

(* Every step preserves the invariant. *)
LEMMA NextInv == Inv /\ [Next]_vars => Inv'
<1> SUFFICES ASSUME Inv, [Next]_vars PROVE Inv'
  OBVIOUS
<1>1. ASSUME NEW d \in Device, CloseEvents(d) PROVE Inv'
  BY <1>1 DEF Inv, CloseEvents, leases, TypeOK, CountsSockets, StashOnlyWhenAway,
              ReleaseIsFinal
<1>2. ASSUME NEW d \in Device, NEW m \in Machine, OpenTerminal(d, m) \/ CloseTerminal(d, m)
      PROVE Inv'
  BY <1>2 DEF Inv, OpenTerminal, CloseTerminal, leases, TypeOK, CountsSockets,
              StashOnlyWhenAway, ReleaseIsFinal
<1>3. ASSUME NEW d \in Device, NEW m \in Machine,
             TerminalInput(d, m) \/ HttpRequestControl(d, m)
      PROVE Inv'
  BY <1>3, ClaimInv DEF TerminalInput, HttpRequestControl
<1>4. CASE UNCHANGED vars
  BY <1>4 DEF vars, Inv, TypeOK, CountsSockets, StashOnlyWhenAway, ReleaseIsFinal
<1>5. CASE BrowserStep
  BY <1>5, <1>1, <1>2, <1>3, OpenEventsInv, UnregisterInv DEF BrowserStep
<1>6. CASE HttpStep
  BY <1>6, <1>3, ReleaseInv, RemoveMachineInv DEF HttpStep
<1> QED  BY <1>4, <1>5, <1>6 DEF Next

(* The invariant holds of every behaviour of the lease. *)
LEMMA SpecInv == Spec => []Inv
BY InitInv, NextInv, PTL DEF Spec

(* Type correctness of ModeState and the socket bookkeeping around it. *)
THEOREM LeaseTypes == Spec => []TypeOK
<1>1. Inv => TypeOK
  BY DEF Inv
<1> QED  BY <1>1, SpecInv, PTL

(* register_device and unregister_device balance: in every reachable state *)
(* the count of a device is its open events sockets plus its grace timers. *)
THEOREM CountsAreSockets == Spec => []CountsSockets
<1>1. Inv => CountsSockets
  BY DEF Inv
<1> QED  BY <1>1, SpecInv, PTL

(* A registered device never has stashed leases. *)
THEOREM StashedOnlyAway == Spec => []StashOnlyWhenAway
<1>1. Inv => StashOnlyWhenAway
  BY DEF Inv
<1> QED  BY <1>1, SpecInv, PTL

(* release_control is final: no reconnect or timer undoes it. *)
THEOREM ReleasesAreFinal == Spec => []ReleaseIsFinal
<1>1. Inv => ReleaseIsFinal
  BY DEF Inv
<1> QED  BY <1>1, SpecInv, PTL

(* No step but a claim passes a held lease to another device. *)
THEOREM StealsAreClaims == Spec => NoStealWithoutClaim
<1> DEFINE Moved(m) == /\ control_leases[m] # None
                       /\ control_leases'[m] # control_leases[m]
                       /\ control_leases'[m] # None
           Quiet == /\ connected_devices' = connected_devices
                    /\ released_leases' = released_leases
<1>1. Inv /\ [Next]_vars => [\A m \in Machine : Moved(m) => Quiet]_vars
  <2> SUFFICES ASSUME Inv, Next, NEW m \in Machine, Moved(m) PROVE Quiet
    BY DEF vars
  <2>1. ASSUME NEW d \in Device, OpenEvents(d) PROVE FALSE
    BY <2>1 DEF OpenEvents, register_device, Restored
  <2>2. ASSUME NEW d \in Device, schedule_unregister_device(d) PROVE FALSE
    <3>1. connected_devices[d] > 0
      BY <2>2 DEF Inv, CountsSockets, TypeOK, schedule_unregister_device
    <3> QED  BY <2>2, <3>1, UnregisterEffect DEF Inv, schedule_unregister_device
  <2>3. ASSUME NEW d \in Device, NEW n \in Machine, HttpReleaseControl(d, n) PROVE FALSE
    BY <2>3 DEF HttpReleaseControl, release_control, Inv, TypeOK
  <2>4. ASSUME NEW n \in Machine, RemoveMachine(n) PROVE FALSE
    BY <2>4 DEF RemoveMachine, clear_machine_mode, Inv, TypeOK
  <2>5. ASSUME NEW d \in Device, NEW n \in Machine,
               \/ CloseEvents(d) \/ OpenTerminal(d, n) \/ CloseTerminal(d, n)
               \/ TerminalInput(d, n) \/ HttpRequestControl(d, n)
        PROVE Quiet
    BY <2>5 DEF CloseEvents, OpenTerminal, CloseTerminal, TerminalInput,
                HttpRequestControl, Claim, request_control, leases
  <2> QED  BY <2>1, <2>2, <2>3, <2>4, <2>5 DEF Next, BrowserStep, HttpStep
<1> QED  BY <1>1, SpecInv, PTL DEF Spec, NoStealWithoutClaim

(* All of it at once, for any devices and machines: a device counts the    *)
(* sockets it has, its stashed leases wait for it only while it is away,   *)
(* and one whose user released control while it was away gets it back from *)
(* nobody but the user.                                                    *)
THEOREM LeasesSound == Spec => []LeasesAreSound
<1>1. Inv => LeasesAreSound
  BY DEF Inv, LeasesAreSound
<1> QED  BY <1>1, SpecInv, PTL

-----------------------------------------------------------------------------
(* The secure channel. *)

(* What may be on its way: a queued message has no id yet, a record is a    *)
(* fragment of one, and what is under way of a large one has more to come.  *)
OfItsKind(m) ==
    /\ m.kind = "http" => m.key \in Requests
    /\ m.kind \in {"open", "text", "close"} => m.key \in Socks
    /\ m.kind = "open" => m.n = 0 /\ m.size = 1
    /\ m.kind = "text" => m.n > 0
Queued(m) == m \in Messages /\ OfItsKind(m) /\ m.id = 0 /\ m.offset = 0
Sent(r) == r \in Messages /\ OfItsKind(r) /\ r.id > 0 /\ r.offset \in 1 .. r.size
UnderWay(b) == b # Nobody => Sent(b) /\ b.offset < b.size
Large(r) == r.size > 1

OnTheLine(w, b, q) ==
    /\ w \in Seq(Messages) /\ q \in Seq(Messages) /\ UnderWay(b)
    /\ \A i \in DOMAIN w : Sent(w[i])
    /\ \A i \in DOMAIN q : Queued(q[i])
ChannelTypes ==
    /\ mix \in SecureMixes
    /\ queue \in [Sides -> Seq(Messages)] /\ net \in [Sides -> Seq(Messages)]
    /\ bulk \in [Sides -> Messages \cup {Nobody}]
    /\ control \in [Sides -> Nat] /\ streak \in [Sides -> 0 .. MaxStreak]
    /\ next_id \in [Sides -> Nat \ {0}]
    /\ chan \in [Sides -> [last_started : Nat, pending : SUBSET [id : Nat, got : Nat], failed : BOOLEAN]]
CallTypes ==
    /\ call \in [Calls -> {"idle", "inserted", "checked", "waiting", "answered", "failed", "ended"}]
    /\ entries \subseteq Calls /\ closed \in BOOLEAN /\ drained \in BOOLEAN
    /\ texts \in [Sides -> [Socks -> Nat]] /\ got \in [Sides -> [Socks -> Seq(Nat)]]
    /\ behind \in [Socks -> Seq(Nat)] /\ open_sockets \subseteq Socks /\ tasks \subseteq Requests
    /\ serving \in {"no", "authenticated", "yes", "gone"}

(* A side is on until it has stopped for good. *)
On(side) == IF side = "app" THEN ~closed ELSE serving # "gone"

(* Fragments of large messages follow one another: s comes after r, or     *)
(* after what the receiver has, p, of the message under way.               *)
Follows(r, s) ==
    IF s.offset = 1 THEN r.offset = r.size
    ELSE s.id = r.id /\ s.offset = r.offset + 1 /\ s.size = r.size
Resumes(p, s) == IF s.offset = 1 THEN p = {} ELSE p = {[id |-> s.id, got |-> s.offset - 1]}
Same(b, r) == b.id = r.id /\ b.offset = r.offset /\ b.size = r.size

Starts(w, p) ==
    \A j \in DOMAIN w : /\ Large(w[j])
                        /\ \A i \in DOMAIN w : i < j => ~Large(w[i])
                        => Resumes(p, w[j])
Continues(w) ==
    \A i, j \in DOMAIN w :
        /\ i < j /\ Large(w[i]) /\ Large(w[j])
        /\ \A l \in DOMAIN w : i < l /\ l < j => ~Large(w[l])
        => Follows(w[i], w[j])
Stands(w, b, p) ==
    /\ (\A i \in DOMAIN w : ~Large(w[i])) =>
          p = IF b = Nobody THEN {} ELSE {[id |-> b.id, got |-> b.offset]}
    /\ \A i \in DOMAIN w :
          Large(w[i]) /\ (\A l \in DOMAIN w : i < l => ~Large(w[l])) =>
             IF b = Nobody THEN w[i].offset = w[i].size ELSE Same(b, w[i])
IdsAscend(w, last, next) ==
    /\ last < next
    /\ \A j \in DOMAIN w : w[j].offset = 1 => last < w[j].id /\ w[j].id < next
    /\ \A i, j \in DOMAIN w : i < j /\ w[i].offset = 1 /\ w[j].offset = 1 => w[i].id < w[j].id
(* From the writer of a side, which is on or not, to a receiver. *)
Fragments(w, b, next, c, on) ==
    /\ Starts(w, c.pending) /\ Continues(w) /\ IdsAscend(w, c.last_started, next)
    /\ on => Stands(w, b, c.pending)
(* The open of a socket and its texts stay in order, from the records to   *)
(* the message under way to the queue.                                     *)
OfASocket(m, o) == m.key = o.key /\ m.kind \in {"open", "text"} /\ o.kind \in {"open", "text"}
Before(r, s) == OfASocket(r, s) => r.n <= s.n /\ (r.offset = r.size => r.n < s.n)
WellBefore(m, o) == OfASocket(m, o) => m.n < o.n
InOrder(w, b, q) ==
    /\ \A i, j \in DOMAIN w : i < j => Before(w[i], w[j])
    /\ \A i \in DOMAIN w : b # Nobody => Before(w[i], b)
    /\ \A i \in DOMAIN w, j \in DOMAIN q : WellBefore(w[i], q[j])
    /\ \A j \in DOMAIN q : b # Nobody => WellBefore(b, q[j])
    /\ \A i, j \in DOMAIN q : i < j => WellBefore(q[i], q[j])

(* What a side has on its way. *)
LineSound(side) ==
    /\ OnTheLine(net[side], bulk[side], queue[side])
    /\ InOrder(net[side], bulk[side], queue[side])
    /\ On(Other(side)) =>
          Fragments(net[side], bulk[side], next_id[side], chan[Other(side)], On(side))

(* No text of socket k is missing between the d delivered and the t sent,  *)
(* and none is on its way twice.                                           *)
TextOf(m, k) == m.kind = "text" /\ m.key = k
Arrives(r, k, n) == TextOf(r, k) /\ r.n = n /\ r.offset = r.size
Numbered(w, b, q, k, t) ==
    /\ \A i \in DOMAIN w : TextOf(w[i], k) => w[i].n <= t
    /\ b # Nobody /\ TextOf(b, k) => b.n <= t
    /\ \A i \in DOMAIN q : TextOf(q[i], k) => q[i].n <= t
NotYet(w, b, q, k, d) ==
    /\ \A i \in DOMAIN w : TextOf(w[i], k) => d < w[i].n
    /\ b # Nobody /\ TextOf(b, k) => d < b.n
    /\ \A i \in DOMAIN q : TextOf(q[i], k) => d < q[i].n
NoneSkipped(w, k, d) ==
    \A j \in DOMAIN w, n \in Nat : TextOf(w[j], k) /\ d < n /\ n < w[j].n =>
        \E i \in DOMAIN w : i < j /\ Arrives(w[i], k, n)
NoneLost(w, b, q, k, d, t) ==
    \A n \in Nat : d < n /\ n <= t =>
        \/ \E i \in DOMAIN w : Arrives(w[i], k, n)
        \/ b # Nobody /\ TextOf(b, k) /\ b.n = n
        \/ \E i \in DOMAIN q : TextOf(q[i], k) /\ q[i].n = n
NoGap(w, b, q, k, d, t, on) ==
    /\ NotYet(w, b, q, k, d) /\ NoneSkipped(w, k, d)
    /\ on => NoneLost(w, b, q, k, d, t)

OpenOf(m, k) == m.kind = "open" /\ m.key = k
OpenOnTheWay(k) ==
    \/ \E i \in DOMAIN net["app"] : OpenOf(net["app"][i], k)
    \/ \E i \in DOMAIN queue["app"] : OpenOf(queue["app"][i], k)
Early(k) == call[k] \in {"idle", "inserted", "checked"}
Opened ==
    \A k \in Socks :
        /\ Early(k) => texts["app"][k] = 0 /\ ~OpenOnTheWay(k) /\ k \notin open_sockets
        /\ call[k] = "idle" => texts["hub"][k] = 0
        /\ k \in open_sockets => ~OpenOnTheWay(k)

(* A text of k that arrives is delivered; what is delivered so far. *)
Accepts(side, k) ==
    IF side = "app" THEN k \in open_sockets \/ Early(k) \/ OpenOnTheWay(k)
    ELSE k \in entries \/ call[k] = "idle"
Delivered(side, k) ==
    IF side = "app" THEN Len(got["hub"][k]) + Len(behind[k]) ELSE Len(got["app"][k])
StreamSound(side, k) ==
    /\ Delivered(side, k) <= texts[side][k]
    /\ Numbered(net[side], bulk[side], queue[side], k, texts[side][k])
    /\ On(Other(side)) /\ Accepts(side, k) =>
          NoGap(net[side], bulk[side], queue[side], k, Delivered(side, k), texts[side][k], On(side))
Taken ==
    \A k \in Socks : \A i \in DOMAIN behind[k] : behind[k][i] = Len(got["hub"][k]) + i

(* A call that waits has its entry, until the maps are emptied. *)
Waits ==
    /\ drained => closed
    /\ \A c \in Calls : IF drained THEN call[c] # "waiting" /\ (c \in entries => call[c] = "inserted")
                        ELSE call[c] \in {"inserted", "checked", "waiting"} => c \in entries

(* The inductive invariant of the channel. *)
ChannelInv ==
    /\ ChannelTypes /\ CallTypes /\ Waits /\ Opened /\ Taken
    /\ \A side \in Sides : LineSound(side)
    /\ \A side \in Sides, k \in Socks : StreamSound(side, k)
    /\ SocketsKeepOrder /\ HonestRecordsDecode

(* Sequences: what is appended comes last and the rest keeps its place,     *)
(* what is taken out at i leaves the others in their order.                *)
Grown(w, w2, r) ==
    /\ Len(w) \in Nat /\ DOMAIN w = 1 .. Len(w) /\ DOMAIN w2 = 1 .. (Len(w) + 1)
    /\ \A i \in DOMAIN w : w2[i] = w[i]
    /\ w2[Len(w) + 1] = r
Thinned(q, q2, i) ==
    /\ Len(q) \in Nat /\ DOMAIN q = 1 .. Len(q) /\ DOMAIN q2 = 1 .. (Len(q) - 1)
    /\ i \in DOMAIN q
    /\ \A j \in DOMAIN q2 : q2[j] = IF j < i THEN q[j] ELSE q[j + 1]

(* What is appended.                                                       *)
LEMMA AppendGrows ==
    ASSUME NEW S, NEW w \in Seq(S), NEW r \in S
    PROVE  Append(w, r) \in Seq(S) /\ Grown(w, Append(w, r), r)
BY DEF Grown

(* The first element is taken out.                                         *)
LEMMA TailThins ==
    ASSUME NEW S, NEW w \in Seq(S), w # <<>>
    PROVE  Tail(w) \in Seq(S) /\ Thinned(w, Tail(w), 1) /\ Head(w) = w[1]
BY DEF Thinned

(* Element i is taken out (Without).                                       *)
LEMMA WithoutThins ==
    ASSUME NEW S, NEW q \in Seq(S), NEW i \in 1 .. Len(q)
    PROVE  Without(q, i) \in Seq(S) /\ Thinned(q, Without(q, i), i)
<1> DEFINE a == SubSeq(q, 1, i - 1)
           b == SubSeq(q, i + 1, Len(q))
<1>1. /\ a \in Seq(S) /\ Len(a) = i - 1
      /\ \A j \in 1 .. (i - 1) : a[j] = q[j]
  OBVIOUS
<1>2. /\ b \in Seq(S) /\ Len(b) = Len(q) - i
      /\ \A j \in 1 .. (Len(q) - i) : b[j] = q[i + j]
  OBVIOUS
<1>3. Len(q) \in Nat /\ DOMAIN q = 1 .. Len(q)
  OBVIOUS
<1> HIDE DEF a, b
<1>a. /\ a \o b \in Seq(S) /\ Len(a \o b) = Len(a) + Len(b)
      /\ \A j \in 1 .. (Len(a) + Len(b)) : (a \o b)[j] = IF j <= Len(a) THEN a[j] ELSE b[j - Len(a)]
  <2>1. ASSUME NEW s \in Seq(S), NEW t \in Seq(S)
        PROVE  /\ s \o t \in Seq(S) /\ Len(s \o t) = Len(s) + Len(t)
               /\ \A j \in 1 .. (Len(s) + Len(t)) :
                     (s \o t)[j] = IF j <= Len(s) THEN s[j] ELSE t[j - Len(s)]
    OBVIOUS
  <2> QED  BY <1>1, <1>2, <2>1
<1>4. /\ a \o b \in Seq(S) /\ Len(a \o b) = Len(q) - 1
      /\ \A j \in 1 .. (Len(q) - 1) : (a \o b)[j] = IF j <= i - 1 THEN a[j] ELSE b[j - (i - 1)]
  <2>1. Len(a) + Len(b) = Len(q) - 1
    BY <1>1, <1>2, <1>3
  <2> QED  BY <1>a, <1>1, <2>1
<1>5. \A j \in 1 .. (Len(q) - 1) : (a \o b)[j] = IF j < i THEN q[j] ELSE q[j + 1]
  BY <1>1, <1>2, <1>3, <1>4
<1>6. DOMAIN (a \o b) = 1 .. (Len(q) - 1)
  BY <1>4
<1>7. Without(q, i) = a \o b
  BY DEF Without, a, b
<1> QED  BY <1>3, <1>4, <1>5, <1>6, <1>7 DEF Thinned

(* The next record of a writer: a small message, which leaves what is      *)
(* under way alone, or a fragment of a large one, the first when none is   *)
(* under way and else the one that comes next.                             *)
Goes(b, r, b2) ==
    \/ ~Large(r) /\ b2 = b
    \/ /\ Large(r) /\ b2 = (IF r.offset = r.size THEN Nobody ELSE r)
       /\ IF b = Nobody THEN r.offset = 1
          ELSE r.id = b.id /\ r.offset = b.offset + 1 /\ r.size = b.size
Numbers(r, next, next2) ==
    IF r.offset = 1 THEN r.id = next /\ next2 = next + 1 ELSE next2 = next

(* A record that goes out keeps the fragments on the line in order, and    *)
(* what is then under way stands where the records end.                    *)
LEMMA RecordGoes ==
    ASSUME NEW w, NEW w2, NEW r, NEW b, NEW b2, NEW next \in Nat, NEW next2, NEW c,
           Grown(w, w2, r), \A i \in DOMAIN w : Sent(w[i]), Sent(r), UnderWay(b),
           c.last_started \in Nat, Goes(b, r, b2), Numbers(r, next, next2),
           Fragments(w, b, next, c, TRUE)
    PROVE  Fragments(w2, b2, next2, c, TRUE)
<1> DEFINE n == Len(w)
           p == c.pending
           last == c.last_started
<1>1. /\ n \in Nat /\ DOMAIN w = 1 .. n /\ DOMAIN w2 = 1 .. (n + 1) /\ w2[n + 1] = r
      /\ \A i \in 1 .. n : w2[i] = w[i]
  BY DEF Grown
<1>2. /\ r.id \in Nat /\ r.size \in Nat /\ r.offset \in 1 .. r.size /\ r # Nobody
      /\ b # Nobody => b.id \in Nat /\ b.size \in Nat /\ b.offset \in Nat /\ 0 < b.offset /\ b.offset < b.size
      /\ \A i \in 1 .. n : w[i].id \in Nat /\ w[i].size \in Nat /\ w[i].offset \in 1 .. w[i].size
  <2>1. \A m : Sent(m) => /\ m.id \in Nat /\ m.size \in Nat \ {0} /\ m.offset \in Nat
                           /\ m.offset \in 1 .. m.size /\ m # Nobody
    BY NobodyAssumption DEF Sent, Messages
  <2>2. b # Nobody => Sent(b) /\ b.offset < b.size
    BY DEF UnderWay
  <2>3. \A i \in 1 .. n : Sent(w[i])
    BY <1>1
  <2> HIDE DEF n
  <2>4. b # Nobody => b.id \in Nat /\ b.size \in Nat /\ b.offset \in Nat /\ 0 < b.offset
    BY <2>1, <2>2
  <2> QED BY <2>1, <2>2, <2>3, <2>4
<1>3. Starts(w, p) /\ Continues(w) /\ IdsAscend(w, last, next) /\ Stands(w, b, p)
  BY DEF Fragments
<1>4. last \in Nat
  OBVIOUS
<1> HIDE DEF n, p, last
<1>5. Starts(w2, p)
  <2> SUFFICES ASSUME NEW j \in 1 .. (n + 1), Large(w2[j]),
                      \A i \in 1 .. (n + 1) : i < j => ~Large(w2[i])
               PROVE  Resumes(p, w2[j])
    BY <1>1 DEF Starts
  <2>1. CASE j \in 1 .. n
    BY <2>1, <1>1, <1>3 DEF Starts
  <2>2. CASE j = n + 1
    <3>1. \A i \in 1 .. n : ~Large(w[i])
      BY <2>2, <1>1
    <3>2. p = IF b = Nobody THEN {} ELSE {[id |-> b.id, got |-> b.offset]}
      BY <3>1, <1>1, <1>3 DEF Stands
    <3>3. CASE b = Nobody
      BY <2>2, <3>2, <3>3, <1>1 DEF Resumes, Goes
    <3>4. CASE b # Nobody
      <4>1. w2[j] = r /\ Large(r)
        BY <2>2, <1>1
      <4>2. r.id = b.id /\ r.offset = b.offset + 1 /\ b.offset \in Nat /\ 0 < b.offset
        BY <3>4, <4>1, <1>2 DEF Goes
      <4>3. r.offset # 1 /\ r.offset - 1 = b.offset
        BY <4>2
      <4> QED BY <3>2, <3>4, <4>1, <4>2, <4>3 DEF Resumes
    <3> QED  BY <3>3, <3>4
  <2> QED  BY <2>1, <2>2, <1>1
<1>6. Continues(w2)
  <2> SUFFICES ASSUME NEW i \in 1 .. (n + 1), NEW j \in 1 .. (n + 1), i < j, Large(w2[i]), Large(w2[j]),
                      \A l \in 1 .. (n + 1) : i < l /\ l < j => ~Large(w2[l])
               PROVE  Follows(w2[i], w2[j])
    BY <1>1 DEF Continues
  <2>0. i \in 1 .. n
    BY <1>1
  <2>1. CASE j \in 1 .. n
    BY <2>0, <2>1, <1>1, <1>3 DEF Continues
  <2>2. CASE j = n + 1
    <3>1. \A l \in 1 .. n : i < l => ~Large(w[l])
      BY <2>2, <1>1
    <3>2. IF b = Nobody THEN w[i].offset = w[i].size ELSE Same(b, w[i])
      BY <2>0, <3>1, <1>1, <1>3 DEF Stands
    <3>3. CASE b = Nobody
      BY <2>0, <2>2, <3>2, <3>3, <1>1 DEF Follows, Goes
    <3>4. CASE b # Nobody
      BY <2>0, <2>2, <3>2, <3>4, <1>1, <1>2 DEF Follows, Goes, Same
    <3> QED  BY <3>3, <3>4
  <2> QED  BY <2>1, <2>2, <1>1
<1>7. IdsAscend(w2, last, next2)
  <2>1. next2 \in Nat /\ next <= next2
    BY DEF Numbers
  <2>2. \A j \in 1 .. n : w[j].offset = 1 => last < w[j].id /\ w[j].id < next
    BY <1>1, <1>3 DEF IdsAscend
  <2>3. last < next /\ last < next2
    BY <1>3, <1>4, <2>1 DEF IdsAscend
  <2>4. \A j \in 1 .. (n + 1) : w2[j].offset = 1 => last < w2[j].id /\ w2[j].id < next2
    <3> SUFFICES ASSUME NEW j \in 1 .. (n + 1), w2[j].offset = 1
                 PROVE  last < w2[j].id /\ w2[j].id < next2
      OBVIOUS
    <3>1. CASE j \in 1 .. n
      <4>1. last < w[j].id /\ w[j].id < next /\ w2[j] = w[j]
        BY <3>1, <1>1, <2>2
      <4>2. w[j].id \in Nat
        BY <3>1, <1>2
      <4> QED BY <4>1, <4>2, <2>1
    <3>2. CASE j = n + 1
      <4>1. w2[j] = r /\ r.offset = 1
        BY <3>2, <1>1
      <4>2. r.id = next /\ next2 = next + 1
        BY <4>1 DEF Numbers
      <4> QED BY <4>1, <4>2, <2>3
    <3> QED BY <3>1, <3>2, <1>1
  <2>5. \A i, j \in 1 .. (n + 1) : i < j /\ w2[i].offset = 1 /\ w2[j].offset = 1 => w2[i].id < w2[j].id
    <3> SUFFICES ASSUME NEW i \in 1 .. (n + 1), NEW j \in 1 .. (n + 1), i < j, w2[i].offset = 1, w2[j].offset = 1
                 PROVE  w2[i].id < w2[j].id
      OBVIOUS
    <3>1. i \in 1 .. n
      BY <1>1
    <3>2. CASE j \in 1 .. n
      BY <3>1, <3>2, <1>1, <1>3 DEF IdsAscend
    <3>3. CASE j = n + 1
      BY <3>1, <3>3, <1>1, <2>2 DEF Numbers
    <3> QED  BY <3>2, <3>3, <1>1
  <2> QED  BY <1>1, <2>3, <2>4, <2>5 DEF IdsAscend
<1>8. Stands(w2, b2, p)
  <2>1. CASE ~Large(r)
    <3>1. b2 = b
      BY <2>1 DEF Goes
    <3>2. (\A i \in 1 .. (n + 1) : ~Large(w2[i])) =>
             p = IF b2 = Nobody THEN {} ELSE {[id |-> b2.id, got |-> b2.offset]}
      BY <3>1, <1>1, <1>3 DEF Stands
    <3>3. ASSUME NEW i \in 1 .. (n + 1), Large(w2[i]), \A l \in 1 .. (n + 1) : i < l => ~Large(w2[l])
          PROVE  IF b2 = Nobody THEN w2[i].offset = w2[i].size ELSE Same(b2, w2[i])
      <4>1. i \in 1 .. n
        BY <2>1, <3>3, <1>1
      <4> QED  BY <4>1, <3>1, <3>3, <1>1, <1>3 DEF Stands
    <3> QED  BY <3>2, <3>3, <1>1 DEF Stands
  <2>2. CASE Large(r)
    <3>1. b2 = IF r.offset = r.size THEN Nobody ELSE r
      BY <2>2 DEF Goes
    <3>2. ASSUME NEW i \in 1 .. (n + 1), \A l \in 1 .. (n + 1) : i < l => ~Large(w2[l])
          PROVE  i = n + 1
      BY <2>2, <3>2, <1>1
    <3>3. IF b2 = Nobody THEN r.offset = r.size ELSE Same(b2, r)
      BY <3>1, <1>2 DEF Same
    <3>4. ~\A i \in 1 .. (n + 1) : ~Large(w2[i])
      BY <2>2, <1>1
    <3> QED  BY <3>2, <3>3, <3>4, <1>1 DEF Stands
  <2> QED  BY <2>1, <2>2
<1> QED  BY <1>5, <1>6, <1>7, <1>8 DEF Fragments, p, last

(* What a receiver holds of the message under way after a record, and the  *)
(* id it saw start last.                                                   *)
Holds(p, r) ==
    IF ~Large(r) THEN p
    ELSE IF r.offset = r.size THEN {} ELSE {[id |-> r.id, got |-> r.offset]}
Reads(c, r) == [c EXCEPT !.pending = Holds(c.pending, r),
                         !.last_started = IF r.offset = 1 THEN r.id ELSE @]

(* The first record on the line can be decoded: a first fragment has a new *)
(* id and finds room, and a later one continues what the receiver has.     *)
LEMMA RecordDecodes ==
    ASSUME NEW w, 1 \in DOMAIN w, DOMAIN w \subseteq Nat \ {0}, Sent(w[1]),
           NEW c \in [last_started : Nat, pending : SUBSET [id : Nat, got : Nat], failed : BOOLEAN],
           ~c.failed, Starts(w, c.pending), NEW next, IdsAscend(w, c.last_started, next)
    PROVE  /\ decode(c, w[1]).state = Reads(c, w[1])
           /\ decode(c, w[1]).done = IF w[1].offset = w[1].size THEN {w[1]} ELSE {}
           /\ Reads(c, w[1]) \in [last_started : Nat, pending : SUBSET [id : Nat, got : Nat], failed : BOOLEAN]
           /\ ~Reads(c, w[1]).failed
<1> DEFINE r == w[1]
<1>1. /\ r.id \in Nat /\ r.size \in Nat /\ r.offset \in 1 .. r.size
  BY DEF Sent, Messages
<1>2. r.offset = 1 => c.last_started < r.id
  BY DEF IdsAscend
<1>3. Large(r) => Resumes(c.pending, r)
  BY DEF Starts
<1>4. \A m \in DOMAIN w : 0 < m
  OBVIOUS
<1> HIDE DEF r
<1>5. /\ Reads(c, r) \in [last_started : Nat, pending : SUBSET [id : Nat, got : Nat], failed : BOOLEAN]
      /\ ~Reads(c, r).failed
  <2>1. Holds(c.pending, r) \in SUBSET [id : Nat, got : Nat]
    BY <1>1 DEF Holds
  <2> QED  BY <1>1, <2>1 DEF Reads
<1>6. /\ decode(c, r).state = Reads(c, r)
      /\ decode(c, r).done = IF r.offset = r.size THEN {r} ELSE {}
  <2>1. CASE r.offset = 1
    <3>1. ~(r.id <= c.last_started)
      BY <1>1, <1>2, <2>1
    <3>2. CASE r.size = 1
      <4>1. decode(c, r) = [done |-> {r}, state |-> [c EXCEPT !.last_started = r.id]]
        BY <2>1, <3>1, <3>2 DEF decode
      <4>2. Reads(c, r) = [c EXCEPT !.last_started = r.id]
        <5>1. ~(r.size > 1)
          BY <3>2
        <5>2. Holds(c.pending, r) = c.pending
          BY <5>1 DEF Holds, Large
        <5> QED  BY <2>1, <5>2 DEF Reads
      <4> QED  BY <4>1, <4>2, <2>1, <3>2
    <3>3. CASE r.size # 1
      <4>1. Large(r) /\ c.pending = {}
        BY <1>1, <1>3, <2>1, <3>3 DEF Large, Resumes
      <4>2. Cardinality(c.pending) = 0
        BY <4>1, FS_EmptySet
      <4>3. ~(Cardinality(c.pending) >= MaxAssemblies)
        BY <4>2, LimitsAssumption
      <4>4. decode(c, r) = [done |-> {}, state |-> [c EXCEPT !.last_started = r.id,
                                                    !.pending = @ \cup {[id |-> r.id, got |-> 1]}]]
        BY <2>1, <3>1, <3>3, <4>3 DEF decode
      <4>5. Reads(c, r) = [c EXCEPT !.last_started = r.id, !.pending = @ \cup {[id |-> r.id, got |-> 1]}]
        BY <4>1, <2>1, <3>3 DEF Reads, Holds
      <4> QED  BY <4>4, <4>5, <2>1, <3>3
    <3> QED  BY <3>2, <3>3
  <2>2. CASE r.offset # 1
    <3>1. Large(r) /\ c.pending = {[id |-> r.id, got |-> r.offset - 1]}
      BY <1>1, <1>3, <2>2 DEF Large, Resumes
    <3>2. c.pending \ {[id |-> r.id, got |-> r.offset - 1]} = {}
      BY <3>1
    <3>3. CASE r.offset = r.size
      <4>1. decode(c, r) = [done |-> {r}, state |-> [c EXCEPT !.pending = {}]]
        BY <2>2, <3>1, <3>2, <3>3 DEF decode, finished
      <4>2. Reads(c, r) = [c EXCEPT !.pending = {}]
        BY <2>2, <3>1, <3>3 DEF Reads, Holds
      <4> QED  BY <4>1, <4>2, <3>3
    <3>4. CASE r.offset # r.size
      <4>1. decode(c, r) = [done |-> {}, state |-> [c EXCEPT !.pending = {[id |-> r.id, got |-> r.offset]}]]
        BY <2>2, <3>1, <3>2, <3>4 DEF decode, finished
      <4>2. Reads(c, r) = [c EXCEPT !.pending = {[id |-> r.id, got |-> r.offset]}]
        BY <2>2, <3>1, <3>4 DEF Reads, Holds
      <4> QED  BY <4>1, <4>2, <3>4
    <3> QED  BY <3>3, <3>4
  <2> QED  BY <2>1, <2>2
<1> QED  BY <1>5, <1>6 DEF r

(* The other records still follow what the receiver has then. *)
LEMMA RecordIsRead ==
    ASSUME NEW w, NEW w2, NEW b, NEW next, NEW c, NEW on,
           c \in [last_started : Nat, pending : SUBSET [id : Nat, got : Nat], failed : BOOLEAN],
           Thinned(w, w2, 1), \A i \in DOMAIN w : Sent(w[i]), UnderWay(b),
           Fragments(w, b, next, c, on)
    PROVE  Fragments(w2, b, next, Reads(c, w[1]), on)
<1> DEFINE n == Len(w)
           r == w[1]
           p == c.pending
           p2 == Holds(p, r)
           last == c.last_started
           last2 == IF r.offset = 1 THEN r.id ELSE last
<1>1. /\ n \in Nat /\ 0 < n /\ DOMAIN w = 1 .. n /\ DOMAIN w2 = 1 .. (n - 1)
      /\ \A i \in 1 .. (n - 1) : w2[i] = w[i + 1]
  BY DEF Thinned
<1>2. \A i \in 1 .. n : w[i].id \in Nat /\ w[i].size \in Nat /\ w[i].offset \in 1 .. w[i].size
  BY <1>1 DEF Sent, Messages
<1>3. /\ Starts(w, p) /\ Continues(w) /\ IdsAscend(w, last, next)
      /\ on => Stands(w, b, p)
  BY DEF Fragments
<1>4. Reads(c, w[1]).pending = p2 /\ Reads(c, w[1]).last_started = last2
  BY DEF Reads
<1>5. b # Nobody => b.id \in Nat /\ b.size \in Nat /\ b.offset \in Nat /\ b.offset < b.size
  BY DEF UnderWay, Sent, Messages
<1>6. r = w[1] /\ p2 = Holds(p, r) /\ last2 = IF r.offset = 1 THEN r.id ELSE last
  OBVIOUS
<1>7. \A i \in 1 .. (n - 1) : i + 1 \in 1 .. n
  BY <1>1
<1> HIDE DEF n, r, p, p2, last, last2
<1>8. Starts(w2, p2)
  <2> SUFFICES ASSUME NEW j \in 1 .. (n - 1), Large(w2[j]),
                      \A i \in 1 .. (n - 1) : i < j => ~Large(w2[i])
               PROVE  Resumes(p2, w2[j])
    BY <1>1 DEF Starts
  <2>0. \A i \in 1 .. n : 1 < i /\ i < j + 1 => ~Large(w[i])
    <3> SUFFICES ASSUME NEW i \in 1 .. n, 1 < i, i < j + 1 PROVE ~Large(w[i])
      OBVIOUS
    <3>1. i - 1 \in 1 .. (n - 1) /\ i - 1 < j /\ w2[i - 1] = w[i]
      BY <1>1
    <3> QED  BY <3>1
  <2>1. w2[j] = w[j + 1] /\ j + 1 \in 1 .. n /\ 1 < j + 1 /\ 1 \in 1 .. n
    BY <1>1
  <2>2. CASE ~Large(r)
    <3>1. \A i \in 1 .. n : i < j + 1 => ~Large(w[i])
      <4> SUFFICES ASSUME NEW i \in 1 .. n, i < j + 1 PROVE ~Large(w[i])
        OBVIOUS
      <4>1. i = 1 \/ 1 < i
        OBVIOUS
      <4> QED  BY <4>1, <2>0, <2>2, <1>6
    <3> QED  BY <2>1, <2>2, <3>1, <1>1, <1>3, <1>6 DEF Starts, Holds
  <2>3. CASE Large(r)
    <3>1. Follows(r, w[j + 1])
      BY <2>0, <2>1, <2>3, <1>1, <1>3, <1>6 DEF Continues
    <3> DEFINE s == w[j + 1]
    <3>2. s \in {w[i] : i \in 1 .. n} /\ s.offset \in 1 .. s.size /\ s.size \in Nat
      BY <2>1, <1>2
    <3>3. CASE s.offset = 1
      <4>1. r.offset = r.size
        BY <3>1, <3>3 DEF Follows
      <4>2. p2 = {}
        BY <4>1, <2>3, <1>6 DEF Holds
      <4> QED  BY <4>2, <3>3, <2>1 DEF Resumes
    <3>4. CASE s.offset # 1
      <4>1. s.id = r.id /\ s.offset = r.offset + 1 /\ s.size = r.size
        BY <3>1, <3>4 DEF Follows
      <4>2. r.offset \in Nat
        BY <2>1, <1>2, <1>6
      <4>3. r.offset # r.size /\ s.offset - 1 = r.offset
        BY <4>1, <4>2, <3>2
      <4>4. p2 = {[id |-> s.id, got |-> s.offset - 1]}
        BY <4>1, <4>3, <2>3, <1>6 DEF Holds
      <4> QED  BY <4>4, <3>4, <2>1 DEF Resumes
    <3> QED  BY <3>3, <3>4
  <2> QED  BY <2>2, <2>3
<1>9. Continues(w2)
  <2> SUFFICES ASSUME NEW i \in 1 .. (n - 1), NEW j \in 1 .. (n - 1), i < j, Large(w2[i]), Large(w2[j]),
                      \A l \in 1 .. (n - 1) : i < l /\ l < j => ~Large(w2[l])
               PROVE  Follows(w2[i], w2[j])
    BY <1>1 DEF Continues
  <2>1. \A l \in 1 .. n : i + 1 < l /\ l < j + 1 => ~Large(w[l])
    <3> SUFFICES ASSUME NEW l \in 1 .. n, i + 1 < l, l < j + 1 PROVE ~Large(w[l])
      OBVIOUS
    <3>1. l - 1 \in 1 .. (n - 1) /\ i < l - 1 /\ l - 1 < j /\ w2[l - 1] = w[l]
      BY <1>1
    <3> QED  BY <3>1
  <2>2. /\ i + 1 \in 1 .. n /\ j + 1 \in 1 .. n /\ i + 1 < j + 1
        /\ w2[i] = w[i + 1] /\ w2[j] = w[j + 1]
    BY <1>1
  <2> QED  BY <2>1, <2>2, <1>1, <1>3 DEF Continues
<1>10. IdsAscend(w2, last2, next)
  <2>1. /\ last < next
        /\ \A j \in 1 .. n : w[j].offset = 1 => last < w[j].id /\ w[j].id < next
        /\ \A i, j \in 1 .. n : i < j /\ w[i].offset = 1 /\ w[j].offset = 1 => w[i].id < w[j].id
    BY <1>1, <1>3 DEF IdsAscend
  <2>2. \A j \in 1 .. (n - 1) : 1 < j + 1
    BY <1>1
  <2>3. 1 \in 1 .. n
    BY <1>1
  <2>4. last2 < next
    BY <2>1, <2>3, <1>6
  <2>5. \A j \in 1 .. (n - 1) : w2[j].offset = 1 => last2 < w2[j].id /\ w2[j].id < next
    BY <2>1, <2>2, <2>3, <1>1, <1>6, <1>7
  <2>6. ASSUME NEW i \in 1 .. (n - 1), NEW j \in 1 .. (n - 1), i < j, w2[i].offset = 1, w2[j].offset = 1
        PROVE  w2[i].id < w2[j].id
    <3>1. /\ i + 1 \in 1 .. n /\ j + 1 \in 1 .. n /\ i + 1 < j + 1
          /\ w2[i] = w[i + 1] /\ w2[j] = w[j + 1]
      BY <2>6, <1>1
    <3> QED  BY <3>1, <2>1, <2>6
  <2> QED  BY <2>4, <2>5, <2>6, <1>1 DEF IdsAscend
<1>11. ASSUME on PROVE Stands(w2, b, p2)
  <2>0. Stands(w, b, p)
    BY <1>3, <1>11
  <2>1. ASSUME NEW i \in 1 .. (n - 1), Large(w2[i]), \A l \in 1 .. (n - 1) : i < l => ~Large(w2[l])
        PROVE  IF b = Nobody THEN w2[i].offset = w2[i].size ELSE Same(b, w2[i])
    <3>1. \A l \in 1 .. n : i + 1 < l => ~Large(w[l])
      <4> SUFFICES ASSUME NEW l \in 1 .. n, i + 1 < l PROVE ~Large(w[l])
        OBVIOUS
      <4>1. l - 1 \in 1 .. (n - 1) /\ i < l - 1 /\ w2[l - 1] = w[l]
        BY <1>1
      <4> QED  BY <4>1, <2>1
    <3> QED  BY <2>0, <2>1, <3>1, <1>1, <1>7 DEF Stands
  <2>2. ASSUME \A i \in 1 .. (n - 1) : ~Large(w2[i])
        PROVE  p2 = IF b = Nobody THEN {} ELSE {[id |-> b.id, got |-> b.offset]}
    <3>1. \A l \in 1 .. n : 1 < l => ~Large(w[l])
      <4> SUFFICES ASSUME NEW l \in 1 .. n, 1 < l PROVE ~Large(w[l])
        OBVIOUS
      <4>1. l - 1 \in 1 .. (n - 1) /\ w2[l - 1] = w[l]
        BY <1>1
      <4> QED  BY <4>1, <2>2
    <3>2. 1 \in 1 .. n
      BY <1>1
    <3>3. CASE ~Large(r)
      <4>1. \A i \in 1 .. n : ~Large(w[i])
        BY <3>1, <3>3, <1>1, <1>6
      <4> QED  BY <4>1, <3>3, <2>0, <1>1, <1>6 DEF Stands, Holds
    <3>4. CASE Large(r)
      <4>1. IF b = Nobody THEN r.offset = r.size ELSE Same(b, r)
        BY <3>1, <3>2, <3>4, <2>0, <1>1, <1>6 DEF Stands
      <4> QED  BY <4>1, <3>4, <1>5, <1>6 DEF Holds, Same
    <3> QED  BY <3>3, <3>4
  <2> QED  BY <2>1, <2>2, <1>1 DEF Stands
<1> QED  BY <1>4, <1>8, <1>9, <1>10, <1>11 DEF Fragments

(* Where the next record of a side comes from: a heartbeat, the queue, or  *)
(* the large message under way. From the queue goes the first of its key,  *)
(* a small one only when nothing of its key is under way and a large one   *)
(* only when nothing is.                                                   *)
Comes(r, m) == r.key = m.key /\ r.kind = m.kind /\ r.n = m.n /\ r.size = m.size
Beats(b, q, r, b2, q2) == r.kind \in {"ping", "pong"} /\ ~Large(r) /\ b2 = b /\ q2 = q
LeavesQueue(b, q, r, b2, q2, i) ==
    /\ Thinned(q, q2, i) /\ Comes(r, q[i]) /\ r.offset = 1
    /\ \A j \in DOMAIN q : j < i => q[j].key # q[i].key
    /\ IF Large(r) THEN b = Nobody /\ b2 = r ELSE b2 = b /\ (b = Nobody \/ b.key # r.key)
Resumed(b, q, r, b2, q2) ==
    /\ b # Nobody /\ q2 = q /\ Comes(r, b) /\ r.id = b.id /\ r.offset = b.offset + 1
    /\ b2 = IF r.offset = r.size THEN Nobody ELSE r
Leaves(b, q, r, b2, q2) ==
    \/ Beats(b, q, r, b2, q2)
    \/ \E i \in DOMAIN q : LeavesQueue(b, q, r, b2, q2, i)
    \/ Resumed(b, q, r, b2, q2)

(* What is read of a socket is one text after the other: a record that     *)
(* goes out keeps the order.                                               *)
LEMMA RecordKeepsOrder ==
    ASSUME NEW w, NEW w2, NEW b, NEW b2, NEW q, NEW q2, NEW r,
           Grown(w, w2, r), Sent(r), OnTheLine(w, b, q),
           Leaves(b, q, r, b2, q2), InOrder(w, b, q)
    PROVE  InOrder(w2, b2, q2)
<1> DEFINE n == Len(w)
<1>1. /\ n \in Nat /\ DOMAIN w = 1 .. n /\ DOMAIN w2 = 1 .. (n + 1) /\ w2[n + 1] = r
      /\ \A i \in 1 .. n : w2[i] = w[i]
  BY DEF Grown
<1> HIDE DEF n
<1>2. r # Nobody /\ r.size \in Nat /\ r.offset \in 1 .. r.size /\ r.n \in Nat
  BY NobodyAssumption DEF Sent, Messages
<1>3. /\ \A i, j \in 1 .. n : i < j => Before(w[i], w[j])
      /\ \A i \in 1 .. n : b # Nobody => Before(w[i], b)
      /\ \A i \in 1 .. n, j \in DOMAIN q : WellBefore(w[i], q[j])
      /\ \A j \in DOMAIN q : b # Nobody => WellBefore(b, q[j])
      /\ \A i, j \in DOMAIN q : i < j => WellBefore(q[i], q[j])
  BY <1>1 DEF InOrder
<1>4. SUFFICES /\ \A i \in 1 .. n : Before(w[i], r)
               /\ \A i \in 1 .. n : b2 # Nobody => Before(w[i], b2)
               /\ b2 # Nobody => Before(r, b2)
               /\ \A i \in 1 .. n, j \in DOMAIN q2 : WellBefore(w[i], q2[j])
               /\ \A j \in DOMAIN q2 : WellBefore(r, q2[j])
               /\ \A j \in DOMAIN q2 : b2 # Nobody => WellBefore(b2, q2[j])
               /\ \A i, j \in DOMAIN q2 : i < j => WellBefore(q2[i], q2[j])
  <2>1. \A i, j \in 1 .. (n + 1) : i < j => Before(w2[i], w2[j])
    <3> SUFFICES ASSUME NEW i \in 1 .. (n + 1), NEW j \in 1 .. (n + 1), i < j
                 PROVE  Before(w2[i], w2[j])
      OBVIOUS
    <3>1. i \in 1 .. n /\ (j \in 1 .. n \/ j = n + 1)
      BY <1>1
    <3> QED  BY <3>1, <1>1, <1>3, <1>4
  <2>2. \A i \in 1 .. (n + 1) : i \in 1 .. n \/ i = n + 1
    BY <1>1
  <2>3. \A i \in 1 .. (n + 1) : b2 # Nobody => Before(w2[i], b2)
    BY <2>2, <1>1, <1>4
  <2>4. \A i \in 1 .. (n + 1), j \in DOMAIN q2 : WellBefore(w2[i], q2[j])
    BY <2>2, <1>1, <1>4
  <2> QED  BY <2>1, <2>3, <2>4, <1>1, <1>4 DEF InOrder
<1>5. CASE Beats(b, q, r, b2, q2)
  BY <1>3, <1>5 DEF Beats, Before, WellBefore, OfASocket
<1>6. ASSUME NEW i \in DOMAIN q, LeavesQueue(b, q, r, b2, q2, i)
      PROVE  /\ \A j \in 1 .. n : Before(w[j], r)
             /\ \A j \in 1 .. n : b2 # Nobody => Before(w[j], b2)
             /\ b2 # Nobody => Before(r, b2)
             /\ \A l \in 1 .. n, j \in DOMAIN q2 : WellBefore(w[l], q2[j])
             /\ \A j \in DOMAIN q2 : WellBefore(r, q2[j])
             /\ \A j \in DOMAIN q2 : b2 # Nobody => WellBefore(b2, q2[j])
             /\ \A l, j \in DOMAIN q2 : l < j => WellBefore(q2[l], q2[j])
  <2> DEFINE m == Len(q)
  <2>1. /\ m \in Nat /\ DOMAIN q = 1 .. m /\ DOMAIN q2 = 1 .. (m - 1)
        /\ \A j \in 1 .. (m - 1) : q2[j] = IF j < i THEN q[j] ELSE q[j + 1]
    BY <1>6 DEF LeavesQueue, Thinned
  <2> HIDE DEF m
  <2>2. /\ Comes(r, q[i]) /\ r.offset = 1
        /\ \A j \in 1 .. m : j < i => q[j].key # q[i].key
        /\ IF Large(r) THEN b = Nobody /\ b2 = r ELSE b2 = b /\ (b = Nobody \/ b.key # r.key)
    BY <1>6, <2>1 DEF LeavesQueue
  <2>3. \A j \in 1 .. m : q[j].n \in Nat
    BY <2>1 DEF OnTheLine, Queued, Messages
  <2>4. \A j \in 1 .. n : Before(w[j], r)
    <3>1. \A j \in 1 .. n : WellBefore(w[j], q[i])
      BY <1>3
    <3>2. \A j \in 1 .. n : w[j].n \in Nat
      BY <1>1 DEF OnTheLine, Sent, Messages
    <3> QED  BY <3>1, <3>2, <2>2, <1>2 DEF Before, WellBefore, OfASocket, Comes
  <2>5. \A j \in 1 .. n : b2 # Nobody => Before(w[j], b2)
    BY <2>2, <2>4, <1>3
  <2>6. b2 # Nobody => Before(r, b2)
    <3>1. CASE Large(r)
      BY <3>1, <2>2, <1>2 DEF Large, Before
    <3>2. CASE ~Large(r)
      BY <3>2, <2>2 DEF Before, OfASocket
    <3> QED  BY <3>1, <3>2
  <2>7. \A j \in 1 .. (m - 1) : \E l \in 1 .. m : l # i /\ q2[j] = q[l]
    <3> SUFFICES ASSUME NEW j \in 1 .. (m - 1) PROVE \E l \in 1 .. m : l # i /\ q2[j] = q[l]
      OBVIOUS
    <3>1. CASE j < i
      BY <3>1, <2>1
    <3>2. CASE ~(j < i)
      <4>1. j + 1 \in 1 .. m /\ j + 1 # i /\ q2[j] = q[j + 1]
        BY <3>2, <2>1
      <4> QED  BY <4>1
    <3> QED  BY <3>1, <3>2
  <2>8. \A l \in 1 .. n, j \in 1 .. (m - 1) : WellBefore(w[l], q2[j])
    BY <2>1, <2>7, <1>3
  <2>9. \A l \in 1 .. m : l # i => WellBefore(r, q[l])
    <3> SUFFICES ASSUME NEW l \in 1 .. m, l # i PROVE WellBefore(r, q[l])
      OBVIOUS
    <3>1. CASE l < i
      BY <3>1, <2>2 DEF WellBefore, OfASocket, Comes
    <3>2. CASE i < l
      <4>1. WellBefore(q[i], q[l])
        BY <3>2, <2>1, <1>3
      <4> QED  BY <4>1, <2>2 DEF WellBefore, OfASocket, Comes
    <3> QED  BY <3>1, <3>2, <2>1
  <2>10. \A j \in 1 .. (m - 1) : WellBefore(r, q2[j])
    BY <2>7, <2>9
  <2>11. \A j \in 1 .. (m - 1) : b2 # Nobody => WellBefore(b2, q2[j])
    BY <2>1, <2>2, <2>7, <2>10, <1>3
  <2>12. ASSUME NEW l \in 1 .. (m - 1), NEW j \in 1 .. (m - 1), l < j PROVE WellBefore(q2[l], q2[j])
    <3> DEFINE l1 == IF l < i THEN l ELSE l + 1
               j1 == IF j < i THEN j ELSE j + 1
    <3>1. l1 \in 1 .. m /\ j1 \in 1 .. m /\ l1 < j1 /\ q2[l] = q[l1] /\ q2[j] = q[j1]
      BY <2>1, <2>12
    <3> QED  BY <3>1, <2>1, <1>3
  <2> QED  BY <2>1, <2>4, <2>5, <2>6, <2>8, <2>10, <2>11, <2>12
<1>7. CASE Resumed(b, q, r, b2, q2)
  <2>1. /\ b # Nobody /\ q2 = q /\ Comes(r, b)
        /\ b2 = IF r.offset = r.size THEN Nobody ELSE r
    BY <1>7 DEF Resumed
  <2>2. \A j \in 1 .. n : Before(w[j], r)
    BY <2>1, <1>3 DEF Before, OfASocket, Comes
  <2>3. b2 # Nobody => b2 = r /\ Before(r, r)
    BY <2>1, <1>2 DEF Before
  <2>4. \A j \in DOMAIN q : WellBefore(r, q[j])
    BY <2>1, <1>3 DEF WellBefore, OfASocket, Comes
  <2> QED  BY <2>1, <2>2, <2>3, <2>4, <1>3
<1> QED  BY <1>5, <1>6, <1>7 DEF Leaves

(* Reading the first record, and queueing a message that comes after all   *)
(* of its socket.                                                          *)
LEMMA ReadKeepsOrder ==
    ASSUME NEW w, NEW w2, NEW b, NEW q, Thinned(w, w2, 1), InOrder(w, b, q)
    PROVE  InOrder(w2, b, q)
<1> DEFINE n == Len(w)
<1>1. /\ n \in Nat /\ DOMAIN w = 1 .. n /\ DOMAIN w2 = 1 .. (n - 1)
      /\ \A i \in 1 .. (n - 1) : w2[i] = w[i + 1] /\ i + 1 \in 1 .. n
  BY DEF Thinned
<1> HIDE DEF n
<1>2. \A i, j \in 1 .. (n - 1) : i < j => i + 1 < j + 1
  BY <1>1
<1> QED  BY <1>1, <1>2 DEF InOrder

(* A message that comes after all of its socket is queued.                 *)
LEMMA QueueKeepsOrder ==
    ASSUME NEW w, NEW b, NEW q, NEW q2, NEW m, Grown(q, q2, m), InOrder(w, b, q),
           \A i \in DOMAIN w : WellBefore(w[i], m), b # Nobody => WellBefore(b, m),
           \A i \in DOMAIN q : WellBefore(q[i], m)
    PROVE  InOrder(w, b, q2)
<1> DEFINE n == Len(q)
<1>1. /\ n \in Nat /\ DOMAIN q = 1 .. n /\ DOMAIN q2 = 1 .. (n + 1) /\ q2[n + 1] = m
      /\ \A i \in 1 .. n : q2[i] = q[i]
  BY DEF Grown
<1> HIDE DEF n
<1>2. \A i \in 1 .. (n + 1) : i \in 1 .. n \/ i = n + 1
  BY <1>1
<1>3. \A i, j \in 1 .. (n + 1) : i < j => i \in 1 .. n
  BY <1>1
<1>4. \A i, j \in 1 .. (n + 1) : i < j => WellBefore(q2[i], q2[j])
  BY <1>1, <1>2, <1>3 DEF InOrder
<1>5. \A i \in DOMAIN w, j \in 1 .. (n + 1) : WellBefore(w[i], q2[j])
  BY <1>1, <1>2 DEF InOrder
<1>6. \A j \in 1 .. (n + 1) : b # Nobody => WellBefore(b, q2[j])
  BY <1>1, <1>2 DEF InOrder
<1> QED  BY <1>1, <1>4, <1>5, <1>6 DEF InOrder

(* The queue a record leaves has no message that was not there before. *)
LEMMA QueueShrinks ==
    ASSUME NEW b, NEW b2, NEW q, NEW q2, NEW r, Leaves(b, q, r, b2, q2)
    PROVE  \A j \in DOMAIN q2 : \E l \in DOMAIN q : q2[j] = q[l]
<1> DEFINE m == Len(q)
<1>1. \A j \in DOMAIN q2 : \E l \in DOMAIN q : q2[j] = q[l]
  <2>1. ASSUME NEW i \in DOMAIN q, Thinned(q, q2, i), NEW j \in DOMAIN q2
        PROVE  \E l \in DOMAIN q : q2[j] = q[l]
    <3>1. /\ m \in Nat /\ DOMAIN q = 1 .. m /\ DOMAIN q2 = 1 .. (m - 1)
          /\ \A h \in 1 .. (m - 1) : q2[h] = IF h < i THEN q[h] ELSE q[h + 1]
      BY <2>1 DEF Thinned
    <3> HIDE DEF m
    <3>2. j \in 1 .. m /\ j + 1 \in 1 .. m
      BY <3>1
    <3> QED  BY <3>1, <3>2
  <2> QED  BY <2>1 DEF Leaves, Beats, Resumed, LeavesQueue
<1> QED  BY <1>1

(* A text that goes out was under way or in the queue, and nothing else is *)
(* there that was not before.                                              *)
LEMMA RecordComesFrom ==
    ASSUME NEW b, NEW b2, NEW q, NEW q2, NEW r, NEW k, Leaves(b, q, r, b2, q2)
    PROVE  /\ TextOf(r, k) => \/ b # Nobody /\ TextOf(b, k) /\ b.n = r.n
                              \/ \E i \in DOMAIN q : TextOf(q[i], k) /\ q[i].n = r.n
           /\ b2 = b \/ b2 = r \/ b2 = Nobody
<1>2. ASSUME TextOf(r, k)
      PROVE  \/ b # Nobody /\ TextOf(b, k) /\ b.n = r.n
             \/ \E i \in DOMAIN q : TextOf(q[i], k) /\ q[i].n = r.n
  BY <1>2 DEF Leaves, Beats, LeavesQueue, Resumed, Comes, TextOf
<1>3. b2 = b \/ b2 = r \/ b2 = Nobody
  BY DEF Leaves, Beats, LeavesQueue, Resumed
<1> QED  BY <1>2, <1>3

(* No text on the way has a number that was not given out: a record that   *)
(* goes out brings none.                                                   *)
LEMMA RecordKeepsNumbers ==
    ASSUME NEW w, NEW w2, NEW b, NEW b2, NEW q, NEW q2, NEW r, NEW k, NEW t,
           Grown(w, w2, r), Leaves(b, q, r, b2, q2), Numbered(w, b, q, k, t)
    PROVE  Numbered(w2, b2, q2, k, t)
<1> DEFINE n == Len(w)
<1>1. /\ n \in Nat /\ DOMAIN w = 1 .. n /\ DOMAIN w2 = 1 .. (n + 1) /\ w2[n + 1] = r
      /\ \A i \in 1 .. n : w2[i] = w[i]
  BY DEF Grown
<1>2. \A i \in 1 .. (n + 1) : i \in 1 .. n \/ i = n + 1
  BY <1>1
<1> HIDE DEF n
<1>5. \A j \in DOMAIN q2 : \E l \in DOMAIN q : q2[j] = q[l]
  BY QueueShrinks
<1>6. TextOf(r, k) => \/ b # Nobody /\ TextOf(b, k) /\ b.n = r.n
                      \/ \E i \in DOMAIN q : TextOf(q[i], k) /\ q[i].n = r.n
  BY RecordComesFrom
<1>7. b2 = b \/ b2 = r \/ b2 = Nobody
  BY RecordComesFrom
<1>8. Numbered(w2, b2, q2, k, t)
  <2>1. TextOf(r, k) => r.n <= t
    BY <1>6 DEF Numbered
  <2>2. \A i \in 1 .. (n + 1) : TextOf(w2[i], k) => w2[i].n <= t
    BY <2>1, <1>1, <1>2 DEF Numbered
  <2>3. b2 # Nobody /\ TextOf(b2, k) => b2.n <= t
    BY <2>1, <1>7 DEF Numbered
  <2>4. \A i \in DOMAIN q2 : TextOf(q2[i], k) => q2[i].n <= t
    BY <1>5 DEF Numbered
  <2> QED  BY <2>2, <2>3, <2>4, <1>1 DEF Numbered
<1> QED  BY <1>8

(* The record that goes out next is of the next text: none of its socket   *)
(* before it is still under way or in the queue.                           *)
LEMMA RecordSkipsNone ==
    ASSUME NEW w, NEW w2, NEW b, NEW b2, NEW q, NEW q2, NEW r, NEW k, NEW d \in Nat, NEW t \in Nat,
           Grown(w, w2, r), Sent(r), OnTheLine(w, b, q), Leaves(b, q, r, b2, q2),
           InOrder(w, b, q), Numbered(w, b, q, k, t), NoGap(w, b, q, k, d, t, TRUE)
    PROVE  NoGap(w2, b2, q2, k, d, t, TRUE)
<1> DEFINE n == Len(w)
           m == Len(q)
<1>1. /\ n \in Nat /\ DOMAIN w = 1 .. n /\ DOMAIN w2 = 1 .. (n + 1) /\ w2[n + 1] = r
      /\ \A i \in 1 .. n : w2[i] = w[i]
  BY DEF Grown
<1>2. \A i \in 1 .. (n + 1) : i \in 1 .. n \/ i = n + 1
  BY <1>1
<1>3. n + 1 \in 1 .. (n + 1) /\ \A i \in 1 .. n : i \in 1 .. (n + 1) /\ i < n + 1
  BY <1>1
<1> HIDE DEF n
<1>4. r # Nobody /\ r.n \in Nat /\ r.size \in Nat /\ r.offset \in 1 .. r.size
  BY NobodyAssumption DEF Sent, Messages
<1>5. \A j \in DOMAIN q2 : \E l \in DOMAIN q : q2[j] = q[l]
  BY QueueShrinks
<1>6. TextOf(r, k) => \/ b # Nobody /\ TextOf(b, k) /\ b.n = r.n
                      \/ \E i \in DOMAIN q : TextOf(q[i], k) /\ q[i].n = r.n
  BY RecordComesFrom
<1>7. b2 = b \/ b2 = r \/ b2 = Nobody
  BY RecordComesFrom
<1>9. NotYet(w2, b2, q2, k, d)
  <2>0. NotYet(w, b, q, k, d)
    BY DEF NoGap
  <2>1. TextOf(r, k) => d < r.n
    BY <2>0, <1>6 DEF NotYet
  <2>2. \A i \in 1 .. (n + 1) : TextOf(w2[i], k) => d < w2[i].n
    BY <2>0, <2>1, <1>1, <1>2 DEF NotYet
  <2>3. b2 # Nobody /\ TextOf(b2, k) => d < b2.n
    BY <2>0, <2>1, <1>7 DEF NotYet
  <2>4. \A i \in DOMAIN q2 : TextOf(q2[i], k) => d < q2[i].n
    BY <2>0, <1>5 DEF NotYet
  <2> QED  BY <2>2, <2>3, <2>4, <1>1 DEF NotYet
<1>10. NoneLost(w, b, q, k, d, t)
  BY DEF NoGap
<1>11. NoneSkipped(w2, k, d)
  <2> SUFFICES ASSUME NEW j \in 1 .. (n + 1), NEW x \in Nat, TextOf(w2[j], k), d < x, x < w2[j].n
               PROVE  \E i \in 1 .. (n + 1) : i < j /\ Arrives(w2[i], k, x)
    BY <1>1 DEF NoneSkipped
  <2>1. CASE j \in 1 .. n
    <3>1. \E i \in 1 .. n : i < j /\ Arrives(w[i], k, x)
      BY <2>1, <1>1 DEF NoGap, NoneSkipped
    <3> QED  BY <3>1, <1>1, <1>3
  <2>2. CASE j = n + 1
    <3>1. TextOf(r, k) /\ x < r.n
      BY <2>2, <1>1
    <3>2. r.n <= t
      BY <3>1, <1>6 DEF Numbered
    <3>3. \/ \E i \in 1 .. n : Arrives(w[i], k, x)
          \/ b # Nobody /\ TextOf(b, k) /\ b.n = x
          \/ \E i \in DOMAIN q : TextOf(q[i], k) /\ q[i].n = x
      BY <3>1, <3>2, <1>1, <1>4, <1>10 DEF NoneLost
    <3>4. ASSUME b # Nobody, TextOf(b, k), b.n = x PROVE FALSE
      BY <3>1, <3>4, <1>4 DEF Leaves, Beats, LeavesQueue, Resumed, Comes, TextOf, Large
    <3>5. ASSUME NEW h \in DOMAIN q, TextOf(q[h], k), q[h].n = x PROVE FALSE
      <4>1. CASE Beats(b, q, r, b2, q2)
        BY <3>1, <4>1 DEF Beats, TextOf
      <4>2. CASE Resumed(b, q, r, b2, q2)
        <5>1. WellBefore(b, q[h])
          BY <4>2 DEF Resumed, InOrder
        <5>2. r.n < q[h].n
          BY <3>1, <3>5, <4>2, <5>1 DEF Resumed, Comes, TextOf, WellBefore, OfASocket
        <5> QED  BY <3>1, <3>5, <5>2, <1>4
      <4>3. ASSUME NEW i \in DOMAIN q, LeavesQueue(b, q, r, b2, q2, i) PROVE FALSE
        <5>1. TextOf(q[i], k) /\ q[i].n = r.n
          BY <3>1, <4>3 DEF LeavesQueue, Comes, TextOf
        <5>2. ~(h < i)
          BY <3>5, <4>3, <5>1 DEF LeavesQueue, TextOf
        <5>3. i \in Nat /\ h \in Nat
          BY <4>3 DEF LeavesQueue, Thinned
        <5>4. h # i
          BY <3>1, <3>5, <5>1, <1>4
        <5>5. WellBefore(q[i], q[h])
          BY <5>2, <5>3, <5>4 DEF InOrder
        <5>6. r.n < q[h].n
          BY <3>5, <5>1, <5>5 DEF TextOf, WellBefore, OfASocket
        <5> QED  BY <3>1, <3>5, <5>6, <1>4
      <4> QED  BY <4>1, <4>2, <4>3 DEF Leaves
    <3>6. PICK i \in 1 .. n : Arrives(w[i], k, x)
      BY <3>3, <3>4, <3>5
    <3> QED  BY <3>6, <2>2, <1>1, <1>3
  <2> QED  BY <2>1, <2>2, <1>2
<1>12. NoneLost(w2, b2, q2, k, d, t)
  <2> SUFFICES ASSUME NEW x \in Nat, d < x, x <= t
               PROVE  \/ \E i \in 1 .. (n + 1) : Arrives(w2[i], k, x)
                      \/ b2 # Nobody /\ TextOf(b2, k) /\ b2.n = x
                      \/ \E i \in DOMAIN q2 : TextOf(q2[i], k) /\ q2[i].n = x
    BY <1>1 DEF NoneLost
  <2>1. CASE \E i \in 1 .. n : Arrives(w[i], k, x)
    BY <2>1, <1>1, <1>3
  <2>2. ASSUME TextOf(r, k), r.n = x, r.offset = r.size
        PROVE  \E i \in 1 .. (n + 1) : Arrives(w2[i], k, x)
    BY <2>2, <1>1, <1>3 DEF Arrives
  <2>3. CASE b # Nobody /\ TextOf(b, k) /\ b.n = x
    BY <2>2, <2>3, <1>4 DEF Leaves, Beats, LeavesQueue, Resumed, Comes, TextOf, Large
  <2>4. ASSUME NEW h \in DOMAIN q, TextOf(q[h], k), q[h].n = x
        PROVE  \/ \E i \in 1 .. (n + 1) : Arrives(w2[i], k, x)
               \/ b2 # Nobody /\ TextOf(b2, k) /\ b2.n = x
               \/ \E i \in DOMAIN q2 : TextOf(q2[i], k) /\ q2[i].n = x
    <3>1. CASE q2 = q
      BY <2>4, <3>1
    <3>2. ASSUME NEW i \in DOMAIN q, LeavesQueue(b, q, r, b2, q2, i), h = i
          PROVE  \/ \E j \in 1 .. (n + 1) : Arrives(w2[j], k, x)
                 \/ b2 # Nobody /\ TextOf(b2, k) /\ b2.n = x
      <4>1. TextOf(r, k) /\ r.n = x /\ r.offset = 1
        BY <2>4, <3>2 DEF LeavesQueue, Comes, TextOf
      <4>2. CASE Large(r)
        BY <3>2, <4>1, <4>2, <1>4 DEF LeavesQueue
      <4>3. CASE ~Large(r)
        <5>1. r.offset = r.size
          BY <4>1, <4>3, <1>4 DEF Large
        <5> QED  BY <4>1, <5>1, <2>2
      <4> QED  BY <4>2, <4>3
    <3>3. ASSUME NEW i \in DOMAIN q, LeavesQueue(b, q, r, b2, q2, i), h # i
          PROVE  \E j \in DOMAIN q2 : TextOf(q2[j], k) /\ q2[j].n = x
      <4>1. /\ m \in Nat /\ DOMAIN q = 1 .. m /\ DOMAIN q2 = 1 .. (m - 1)
            /\ \A j \in 1 .. (m - 1) : q2[j] = IF j < i THEN q[j] ELSE q[j + 1]
        BY <3>3 DEF LeavesQueue, Thinned
      <4> HIDE DEF m
      <4>2. CASE h < i
        <5>1. h \in 1 .. (m - 1) /\ q2[h] = q[h]
          BY <4>1, <4>2
        <5> QED  BY <5>1, <4>1, <2>4
      <4>3. CASE i < h
        <5>1. h - 1 \in 1 .. (m - 1) /\ q2[h - 1] = q[h]
          BY <4>1, <4>3
        <5> QED  BY <5>1, <4>1, <2>4
      <4> QED  BY <3>3, <4>1, <4>2, <4>3
    <3> QED  BY <3>1, <3>2, <3>3 DEF Leaves, Beats, Resumed
  <2>5. \/ \E i \in 1 .. n : Arrives(w[i], k, x)
        \/ b # Nobody /\ TextOf(b, k) /\ b.n = x
        \/ \E i \in DOMAIN q : TextOf(q[i], k) /\ q[i].n = x
    BY <1>1, <1>10 DEF NoneLost
  <2> QED  BY <2>1, <2>3, <2>4, <2>5
<1> QED  BY <1>9, <1>11, <1>12 DEF NoGap

(* The text that arrives is the next one, and after it none is missing.    *)
LEMMA NextTextArrives ==
    ASSUME NEW w, NEW w2, NEW b, NEW q, NEW k, NEW d \in Nat, NEW t \in Nat, NEW on,
           Thinned(w, w2, 1), OnTheLine(w, b, q), InOrder(w, b, q), NoGap(w, b, q, k, d, t, on)
    PROVE  IF TextOf(w[1], k) /\ w[1].offset = w[1].size
           THEN w[1].n = d + 1 /\ NoGap(w2, b, q, k, d + 1, t, on)
           ELSE NoGap(w2, b, q, k, d, t, on)
<1> DEFINE n == Len(w)
           r == w[1]
<1>1. /\ n \in Nat /\ 0 < n /\ DOMAIN w = 1 .. n /\ DOMAIN w2 = 1 .. (n - 1)
      /\ \A i \in 1 .. (n - 1) : w2[i] = w[i + 1] /\ i + 1 \in 1 .. n
  BY DEF Thinned
<1>2. 1 \in 1 .. n /\ r = w[1]
  BY <1>1
<1>3. \A i \in 1 .. n : w[i].n \in Nat
  BY <1>1 DEF OnTheLine, Sent, Messages
<1>4. /\ b # Nobody => b.n \in Nat
      /\ \A i \in DOMAIN q : q[i].n \in Nat
  BY DEF OnTheLine, UnderWay, Sent, Queued, Messages
<1>5. NotYet(w, b, q, k, d) /\ NoneSkipped(w, k, d) /\ (on => NoneLost(w, b, q, k, d, t))
  BY DEF NoGap
<1>6. \A i \in 1 .. n : i = 1 \/ (i - 1 \in 1 .. (n - 1) /\ w2[i - 1] = w[i])
  BY <1>1
<1> HIDE DEF n, r
<1>7. CASE TextOf(r, k) /\ r.offset = r.size
  <2>1. r.n = d + 1
    <3>1. d < r.n /\ r.n \in Nat
      BY <1>1, <1>2, <1>3, <1>5, <1>7 DEF NotYet
    <3>2. ASSUME d + 1 < r.n PROVE FALSE
      <4>1. \E i \in 1 .. n : i < 1 /\ Arrives(w[i], k, d + 1)
        BY <3>2, <1>1, <1>2, <1>5, <1>7 DEF NoneSkipped
      <4> QED  BY <4>1, <1>1
    <3> QED  BY <3>1, <3>2
  <2>2. NotYet(w2, b, q, k, d + 1)
    <3>1. ASSUME NEW i \in 1 .. (n - 1), TextOf(w2[i], k) PROVE d + 1 < w2[i].n
      <4>1. Before(r, w[i + 1])
        BY <1>1, <1>2 DEF InOrder
      <4> QED  BY <4>1, <3>1, <2>1, <1>1, <1>7 DEF Before, OfASocket, TextOf
    <3>2. b # Nobody /\ TextOf(b, k) => d + 1 < b.n
      <4>1. b # Nobody => Before(r, b)
        BY <1>1, <1>2 DEF InOrder
      <4> QED  BY <4>1, <2>1, <1>7 DEF Before, OfASocket, TextOf
    <3>3. ASSUME NEW i \in DOMAIN q, TextOf(q[i], k) PROVE d + 1 < q[i].n
      <4>1. WellBefore(r, q[i])
        BY <1>1, <1>2 DEF InOrder
      <4> QED  BY <4>1, <3>3, <2>1, <1>7 DEF WellBefore, OfASocket, TextOf
    <3> QED  BY <3>1, <3>2, <3>3, <1>1 DEF NotYet
  <2>3. NoneSkipped(w2, k, d + 1)
    <3> SUFFICES ASSUME NEW j \in 1 .. (n - 1), NEW x \in Nat, TextOf(w2[j], k), d + 1 < x, x < w2[j].n
                 PROVE  \E i \in 1 .. (n - 1) : i < j /\ Arrives(w2[i], k, x)
      BY <1>1 DEF NoneSkipped
    <3>1. \E i \in 1 .. n : i < j + 1 /\ Arrives(w[i], k, x)
      <4>1. j + 1 \in 1 .. n /\ TextOf(w[j + 1], k) /\ d < x /\ x < w[j + 1].n
        BY <1>1
      <4> QED  BY <4>1, <1>1, <1>5 DEF NoneSkipped
    <3>2. PICK i \in 1 .. n : i < j + 1 /\ Arrives(w[i], k, x)
      BY <3>1
    <3>3. i # 1
      BY <3>2, <2>1, <1>2 DEF Arrives
    <3>4. i - 1 \in 1 .. (n - 1) /\ i - 1 < j /\ w2[i - 1] = w[i]
      BY <3>2, <3>3, <1>1, <1>6
    <3> QED  BY <3>2, <3>4
  <2>4. ASSUME on PROVE NoneLost(w2, b, q, k, d + 1, t)
    <3> SUFFICES ASSUME NEW x \in Nat, d + 1 < x, x <= t
                 PROVE  \/ \E i \in 1 .. (n - 1) : Arrives(w2[i], k, x)
                        \/ b # Nobody /\ TextOf(b, k) /\ b.n = x
                        \/ \E i \in DOMAIN q : TextOf(q[i], k) /\ q[i].n = x
      BY <1>1 DEF NoneLost
    <3>1. \/ \E i \in 1 .. n : Arrives(w[i], k, x)
          \/ b # Nobody /\ TextOf(b, k) /\ b.n = x
          \/ \E i \in DOMAIN q : TextOf(q[i], k) /\ q[i].n = x
      <4>1. d < x
        OBVIOUS
      <4> QED  BY <4>1, <2>4, <1>1, <1>5 DEF NoneLost
    <3>2. ASSUME NEW i \in 1 .. n, Arrives(w[i], k, x)
          PROVE  \E j \in 1 .. (n - 1) : Arrives(w2[j], k, x)
      <4>1. i # 1
        BY <3>2, <2>1, <1>2 DEF Arrives
      <4> QED  BY <4>1, <3>2, <1>6
    <3> QED  BY <3>1, <3>2
  <2> QED  BY <2>1, <2>2, <2>3, <2>4, <1>2, <1>7 DEF NoGap
<1>8. CASE ~(TextOf(r, k) /\ r.offset = r.size)
  <2>1. NotYet(w2, b, q, k, d)
    BY <1>1, <1>5 DEF NotYet
  <2>2. NoneSkipped(w2, k, d)
    <3> SUFFICES ASSUME NEW j \in 1 .. (n - 1), NEW x \in Nat, TextOf(w2[j], k), d < x, x < w2[j].n
                 PROVE  \E i \in 1 .. (n - 1) : i < j /\ Arrives(w2[i], k, x)
      BY <1>1 DEF NoneSkipped
    <3>1. \E i \in 1 .. n : i < j + 1 /\ Arrives(w[i], k, x)
      <4>1. j + 1 \in 1 .. n /\ TextOf(w[j + 1], k) /\ d < x /\ x < w[j + 1].n
        BY <1>1
      <4> QED  BY <4>1, <1>1, <1>5 DEF NoneSkipped
    <3>2. PICK i \in 1 .. n : i < j + 1 /\ Arrives(w[i], k, x)
      BY <3>1
    <3>3. i # 1
      BY <3>2, <1>2, <1>8 DEF Arrives
    <3>4. i - 1 \in 1 .. (n - 1) /\ i - 1 < j /\ w2[i - 1] = w[i]
      BY <3>2, <3>3, <1>1, <1>6
    <3> QED  BY <3>2, <3>4
  <2>3. ASSUME on PROVE NoneLost(w2, b, q, k, d, t)
    <3> SUFFICES ASSUME NEW x \in Nat, d < x, x <= t
                 PROVE  \/ \E i \in 1 .. (n - 1) : Arrives(w2[i], k, x)
                        \/ b # Nobody /\ TextOf(b, k) /\ b.n = x
                        \/ \E i \in DOMAIN q : TextOf(q[i], k) /\ q[i].n = x
      BY <1>1 DEF NoneLost
    <3>1. \/ \E i \in 1 .. n : Arrives(w[i], k, x)
          \/ b # Nobody /\ TextOf(b, k) /\ b.n = x
          \/ \E i \in DOMAIN q : TextOf(q[i], k) /\ q[i].n = x
      BY <2>3, <1>1, <1>5 DEF NoneLost
    <3>2. ASSUME NEW i \in 1 .. n, Arrives(w[i], k, x)
          PROVE  \E j \in 1 .. (n - 1) : Arrives(w2[j], k, x)
      <4>1. i # 1
        BY <3>2, <1>2, <1>8 DEF Arrives
      <4> QED  BY <4>1, <3>2, <1>6
    <3> QED  BY <3>1, <3>2
  <2> QED  BY <2>1, <2>2, <2>3, <1>2, <1>8 DEF NoGap
<1> QED  BY <1>2, <1>7, <1>8

(* Nor does a read bring one.                                              *)
LEMMA ReadKeepsNumbers ==
    ASSUME NEW w, NEW w2, NEW b, NEW q, NEW k, NEW t, Thinned(w, w2, 1), Numbered(w, b, q, k, t)
    PROVE  Numbered(w2, b, q, k, t)
<1>1. \A i \in DOMAIN w2 : \E j \in DOMAIN w : w2[i] = w[j]
  <2>1. \A i \in DOMAIN w2 : ~(i < 1) /\ i + 1 \in DOMAIN w
    BY DEF Thinned
  <2> QED  BY <2>1 DEF Thinned
<1> QED  BY <1>1 DEF Numbered

(* A text that is queued is the next of its socket, and a message that is  *)
(* no text of the socket changes nothing.                                  *)
LEMMA QueueSkipsNone ==
    ASSUME NEW w, NEW b, NEW q, NEW q2, NEW m, NEW k, NEW d \in Nat, NEW t \in Nat, NEW on,
           Grown(q, q2, m), OnTheLine(w, b, q), d <= t, TextOf(m, k) => m.n = t + 1
    PROVE  /\ Numbered(w, b, q, k, t) => Numbered(w, b, q2, k, IF TextOf(m, k) THEN t + 1 ELSE t)
           /\ NoGap(w, b, q, k, d, t, on) => NoGap(w, b, q2, k, d, IF TextOf(m, k) THEN t + 1 ELSE t, on)
<1> DEFINE n == Len(q)
           u == IF TextOf(m, k) THEN t + 1 ELSE t
<1>1. /\ n \in Nat /\ DOMAIN q = 1 .. n /\ DOMAIN q2 = 1 .. (n + 1) /\ q2[n + 1] = m
      /\ \A i \in 1 .. n : q2[i] = q[i]
  BY DEF Grown
<1>2. \A i \in 1 .. (n + 1) : i \in 1 .. n \/ i = n + 1
  BY <1>1
<1>3. n + 1 \in 1 .. (n + 1) /\ \A i \in 1 .. n : i \in 1 .. (n + 1)
  BY <1>1
<1>4. u \in Nat /\ t <= u /\ (u = t \/ (u = t + 1 /\ TextOf(m, k)))
  OBVIOUS
<1>5. /\ \A i \in DOMAIN w : w[i].n \in Nat
      /\ b # Nobody => b.n \in Nat
      /\ \A i \in DOMAIN q : q[i].n \in Nat
  BY DEF OnTheLine, UnderWay, Sent, Queued, Messages
<1>6. TextOf(m, k) => m.n = u
  OBVIOUS
<1> HIDE DEF n, u
<1>7. Numbered(w, b, q, k, t) => Numbered(w, b, q2, k, u)
  <2> SUFFICES ASSUME Numbered(w, b, q, k, t) PROVE Numbered(w, b, q2, k, u)
    OBVIOUS
  <2>1. \A i \in 1 .. (n + 1) : TextOf(q2[i], k) => q2[i].n <= u
    BY <1>1, <1>2, <1>4, <1>5, <1>6 DEF Numbered
  <2>2. \A i \in DOMAIN w : TextOf(w[i], k) => w[i].n <= u
    BY <1>4, <1>5 DEF Numbered
  <2>3. b # Nobody /\ TextOf(b, k) => b.n <= u
    BY <1>4, <1>5 DEF Numbered
  <2> QED  BY <2>1, <2>2, <2>3, <1>1 DEF Numbered
<1>8. NoGap(w, b, q, k, d, t, on) => NoGap(w, b, q2, k, d, u, on)
  <2> SUFFICES ASSUME NoGap(w, b, q, k, d, t, on) PROVE NoGap(w, b, q2, k, d, u, on)
    OBVIOUS
  <2>1. NotYet(w, b, q2, k, d)
    <3>1. TextOf(m, k) => d < m.n
      OBVIOUS
    <3> QED  BY <3>1, <1>1, <1>2 DEF NoGap, NotYet
  <2>2. ASSUME on PROVE NoneLost(w, b, q2, k, d, u)
    <3> SUFFICES ASSUME NEW x \in Nat, d < x, x <= u
                 PROVE  \/ \E i \in DOMAIN w : Arrives(w[i], k, x)
                        \/ b # Nobody /\ TextOf(b, k) /\ b.n = x
                        \/ \E i \in 1 .. (n + 1) : TextOf(q2[i], k) /\ q2[i].n = x
      BY <1>1 DEF NoneLost
    <3>1. CASE x <= t
      <4>1. \/ \E i \in DOMAIN w : Arrives(w[i], k, x)
            \/ b # Nobody /\ TextOf(b, k) /\ b.n = x
            \/ \E i \in 1 .. n : TextOf(q[i], k) /\ q[i].n = x
        BY <3>1, <2>2, <1>1 DEF NoGap, NoneLost
      <4> QED  BY <4>1, <1>1, <1>3
    <3>2. CASE ~(x <= t)
      <4>1. x = u /\ TextOf(m, k)
        BY <3>2, <1>4
      <4> QED  BY <4>1, <1>1, <1>3, <1>6
    <3> QED  BY <3>1, <3>2
  <2> QED  BY <2>1, <2>2 DEF NoGap
<1> QED  BY <1>7, <1>8 DEF u

(* A side that stops: nothing is promised any more of what it sends, and    *)
(* what is left on its line, or nothing, is still in order.                *)
LEMMA LineStops ==
    ASSUME NEW w, NEW w2, NEW b, NEW b2, NEW q, NEW q2, w2 = w \/ w2 = <<>>,
           (b2 = b /\ q2 = q) \/ (b2 = Nobody /\ q2 = <<>>)
    PROVE  /\ OnTheLine(w, b, q) => OnTheLine(w2, b2, q2)
           /\ InOrder(w, b, q) => InOrder(w2, b2, q2)
           /\ \A next, c, on : Fragments(w, b, next, c, on) => Fragments(w2, b2, next, c, FALSE)
           /\ \A k, t : Numbered(w, b, q, k, t) => Numbered(w2, b2, q2, k, t)
           /\ \A k, d, t, on : NoGap(w, b, q, k, d, t, on) => NoGap(w2, b2, q2, k, d, t, FALSE)
<1>0. DOMAIN <<>> = {}
  <2>1. <<>> \in Seq({}) /\ Len(<<>>) = 0
    OBVIOUS
  <2>2. \A s \in Seq({}) : DOMAIN s = 1 .. Len(s)
    OBVIOUS
  <2> QED  BY <2>1, <2>2
<1>1. DOMAIN w2 = {} \/ w2 = w
  BY <1>0
<1>2. DOMAIN q2 = {} \/ q2 = q
  BY <1>0
<1>3. b2 = Nobody \/ b2 = b
  OBVIOUS
<1>4. OnTheLine(w, b, q) => OnTheLine(w2, b2, q2)
  <2>1. <<>> \in Seq(Messages)
    OBVIOUS
  <2> QED  BY <1>1, <1>2, <1>3, <2>1 DEF OnTheLine, UnderWay
<1>5. InOrder(w, b, q) => InOrder(w2, b2, q2)
  BY <1>1, <1>2, <1>3 DEF InOrder
<1>6. \A next, c, on : Fragments(w, b, next, c, on) => Fragments(w2, b2, next, c, FALSE)
  BY <1>1 DEF Fragments, Starts, Continues, IdsAscend
<1>7. \A k, t : Numbered(w, b, q, k, t) => Numbered(w2, b2, q2, k, t)
  BY <1>1, <1>2, <1>3 DEF Numbered
<1>8. \A k, d, t, on : NoGap(w, b, q, k, d, t, on) => NoGap(w2, b2, q2, k, d, t, FALSE)
  BY <1>1, <1>2, <1>3 DEF NoGap, NotYet, NoneSkipped
<1> QED  BY <1>4, <1>5, <1>6, <1>7, <1>8

(* What a step does to the line of a side. *)
RestOfLine(s) == bulk'[s] = bulk[s] /\ next_id'[s] = next_id[s]
SameLine(s) ==
    /\ net'[s] = net[s] /\ queue'[s] = queue[s] /\ RestOfLine(s)
    /\ chan'[Other(s)] = chan[Other(s)]
EmitsRecord(s, r) ==
    /\ Grown(net[s], net'[s], r) /\ Sent(r) /\ Leaves(bulk[s], queue[s], r, bulk'[s], queue'[s])
    /\ Numbers(r, next_id[s], next_id'[s])
    /\ net'[s] \in Seq(Messages) /\ queue'[s] \in Seq(Messages)
    /\ chan'[Other(s)] = chan[Other(s)] /\ On(s)
Queues(s, m) ==
    /\ Queued(m) /\ queue'[s] = Append(queue[s], m) /\ net'[s] = net[s] /\ RestOfLine(s)
    /\ chan'[Other(s)] = chan[Other(s)]
    /\ \A i \in DOMAIN net[s] : WellBefore(net[s][i], m)
    /\ bulk[s] # Nobody => WellBefore(bulk[s], m)
    /\ \A i \in DOMAIN queue[s] : WellBefore(queue[s][i], m)
ReadsOne(s) ==
    /\ net[s] # <<>> /\ net'[s] = Tail(net[s]) /\ queue'[s] = queue[s] /\ RestOfLine(s)
    /\ chan'[Other(s)] = Reads(chan[Other(s)], net[s][1]) /\ On(Other(s))
Stops(s) ==
    /\ net'[s] = net[s] \/ net'[s] = <<>>
    /\ next_id'[s] = next_id[s] /\ chan'[Other(s)] = chan[Other(s)]
    /\ \/ bulk'[s] = bulk[s] /\ queue'[s] = queue[s]
       \/ bulk'[s] = Nobody /\ queue'[s] = <<>>
    /\ ~On(s)' \/ ~On(Other(s))'
LineStep(s) ==
    \/ SameLine(s) \/ ReadsOne(s) \/ Stops(s)
    \/ \E r : EmitsRecord(s, r)
    \/ \E m : Queues(s, m)
StaysOff == \A s \in Sides : On(s)' => On(s)

(* A record that leaves is one that may go next. *)
LEMMA WhatLeavesGoes ==
    ASSUME NEW w, NEW b, NEW b2, NEW q, NEW q2, NEW r, OnTheLine(w, b, q), Sent(r), Leaves(b, q, r, b2, q2)
    PROVE  /\ Goes(b, r, b2) /\ UnderWay(b2)
           /\ \A i \in DOMAIN q2 : \E j \in DOMAIN q : q2[i] = q[j]
<1>1. r # Nobody /\ r.size \in Nat /\ r.offset \in 1 .. r.size
  BY NobodyAssumption DEF Sent, Messages
<1>2. b # Nobody => Sent(b) /\ b.size \in Nat /\ b.offset \in 1 .. b.size /\ b.offset < b.size
  BY DEF OnTheLine, UnderWay, Sent, Messages
<1>3. CASE Beats(b, q, r, b2, q2)
  BY <1>3, <1>2 DEF Beats, Goes, UnderWay
<1>4. ASSUME NEW i \in DOMAIN q, LeavesQueue(b, q, r, b2, q2, i)
      PROVE  /\ Goes(b, r, b2) /\ UnderWay(b2)
             /\ \A j \in DOMAIN q2 : \E l \in DOMAIN q : q2[j] = q[l]
  <2>1. Large(r) => Goes(b, r, b2) /\ UnderWay(b2)
    BY <1>1, <1>4 DEF LeavesQueue, Large, Goes, UnderWay
  <2>2. ~Large(r) => Goes(b, r, b2) /\ UnderWay(b2)
    BY <1>2, <1>4 DEF LeavesQueue, Goes, UnderWay
  <2>3. ASSUME NEW j \in DOMAIN q2 PROVE \E l \in DOMAIN q : q2[j] = q[l]
    <3>1. j \in DOMAIN q /\ j + 1 \in DOMAIN q
      BY <1>4 DEF LeavesQueue, Thinned
    <3> QED  BY <3>1, <1>4 DEF LeavesQueue, Thinned
  <2> QED  BY <2>1, <2>2, <2>3
<1>5. CASE Resumed(b, q, r, b2, q2)
  <2>1. Large(r)
    BY <1>1, <1>2, <1>5 DEF Resumed, Comes, Large
  <2> QED  BY <2>1, <1>1, <1>2, <1>5 DEF Resumed, Comes, Goes, UnderWay
<1> QED  BY <1>3, <1>4, <1>5 DEF Leaves

(* Whatever happens to a line, it stays sound. *)
LEMMA LineHolds ==
    ASSUME NEW s \in Sides, ChannelTypes, LineSound(s), StaysOff, LineStep(s)
    PROVE  LineSound(s)'
<1> DEFINE o == Other(s)
<1>1. o \in Sides /\ next_id[s] \in Nat
      /\ chan[o] \in [last_started : Nat, pending : SUBSET [id : Nat, got : Nat], failed : BOOLEAN]
      /\ chan[o].last_started \in Nat
  BY DEF ChannelTypes, Sides, Other
<1>2. (On(o)' => On(o)) /\ (On(s)' => On(s)) /\ On(s) \in BOOLEAN
  <2>1. On(s) \in BOOLEAN
    BY DEF On
  <2> QED  BY <1>1, <2>1 DEF StaysOff
<1>3. /\ OnTheLine(net[s], bulk[s], queue[s]) /\ InOrder(net[s], bulk[s], queue[s])
      /\ On(o) => Fragments(net[s], bulk[s], next_id[s], chan[o], On(s))
  BY DEF LineSound
<1>4. SUFFICES /\ OnTheLine(net'[s], bulk'[s], queue'[s]) /\ InOrder(net'[s], bulk'[s], queue'[s])
               /\ On(o)' => Fragments(net'[s], bulk'[s], next_id'[s], chan'[o], On(s)')
  BY DEF LineSound
<1>5. \A w, b, next, c : /\ Fragments(w, b, next, c, On(s)) => Fragments(w, b, next, c, On(s)')
                         /\ Fragments(w, b, next, c, TRUE) => Fragments(w, b, next, c, On(s)')
  BY <1>2 DEF Fragments
<1>6. net[s] \in Seq(Messages) /\ queue[s] \in Seq(Messages) /\ UnderWay(bulk[s])
      /\ (\A i \in DOMAIN net[s] : Sent(net[s][i])) /\ (\A i \in DOMAIN queue[s] : Queued(queue[s][i]))
  BY <1>3 DEF OnTheLine
<1>7. CASE SameLine(s)
  BY <1>2, <1>3, <1>5, <1>7 DEF SameLine, RestOfLine
<1>8. CASE ReadsOne(s)
  <2>1. net'[s] \in Seq(Messages) /\ Thinned(net[s], net'[s], 1)
    BY <1>6, <1>8, TailThins DEF ReadsOne
  <2>2. /\ queue'[s] = queue[s] /\ bulk'[s] = bulk[s] /\ next_id'[s] = next_id[s]
        /\ chan'[o] = Reads(chan[o], net[s][1])
    BY <1>8 DEF ReadsOne, RestOfLine
  <2>3. \A i \in DOMAIN net'[s] : \E j \in DOMAIN net[s] : net'[s][i] = net[s][j]
    <3>1. \A i \in DOMAIN net'[s] : ~(i < 1) /\ i + 1 \in DOMAIN net[s]
      BY <2>1 DEF Thinned
    <3> QED  BY <2>1, <3>1 DEF Thinned
  <2>4. OnTheLine(net'[s], bulk'[s], queue'[s])
    BY <2>1, <2>2, <2>3, <1>6 DEF OnTheLine
  <2>5. InOrder(net'[s], bulk'[s], queue'[s])
    BY <2>1, <2>2, <1>3, ReadKeepsOrder
  <2>6. ASSUME On(o)' PROVE Fragments(net'[s], bulk'[s], next_id'[s], chan'[o], On(s)')
    <3>1. Fragments(net[s], bulk[s], next_id[s], chan[o], On(s))
      BY <2>6, <1>2, <1>3
    <3>2. Fragments(net'[s], bulk[s], next_id[s], Reads(chan[o], net[s][1]), On(s))
      BY <2>1, <3>1, <1>1, <1>6, RecordIsRead
    <3> QED  BY <2>2, <3>2, <1>5
  <2> QED  BY <2>4, <2>5, <2>6
<1>9. CASE Stops(s)
  <2>1. /\ net'[s] = net[s] \/ net'[s] = <<>>
        /\ next_id'[s] = next_id[s] /\ chan'[o] = chan[o]
        /\ \/ bulk'[s] = bulk[s] /\ queue'[s] = queue[s]
           \/ bulk'[s] = Nobody /\ queue'[s] = <<>>
        /\ ~On(s)' \/ ~On(o)'
    BY <1>9 DEF Stops
  <2>2. /\ OnTheLine(net[s], bulk[s], queue[s]) => OnTheLine(net'[s], bulk'[s], queue'[s])
        /\ InOrder(net[s], bulk[s], queue[s]) => InOrder(net'[s], bulk'[s], queue'[s])
        /\ \A next, c, on : Fragments(net[s], bulk[s], next, c, on) => Fragments(net'[s], bulk'[s], next, c, FALSE)
    <3>1. /\ net'[s] = net[s] \/ net'[s] = <<>>
          /\ (bulk'[s] = bulk[s] /\ queue'[s] = queue[s]) \/ (bulk'[s] = Nobody /\ queue'[s] = <<>>)
      BY <2>1
    <3> DEFINE w == net[s]  w2 == net'[s]  b == bulk[s]  b2 == bulk'[s]  q == queue[s]  q2 == queue'[s]
    <3>2. (w2 = w \/ w2 = <<>>) /\ ((b2 = b /\ q2 = q) \/ (b2 = Nobody /\ q2 = <<>>))
      BY <3>1
    <3> HIDE DEF w, w2, b, b2, q, q2
    <3>3. /\ OnTheLine(w, b, q) => OnTheLine(w2, b2, q2)
          /\ InOrder(w, b, q) => InOrder(w2, b2, q2)
          /\ \A next, c, on : Fragments(w, b, next, c, on) => Fragments(w2, b2, next, c, FALSE)
      BY <3>2, LineStops
    <3> QED  BY <3>3 DEF w, w2, b, b2, q, q2
  <2>3. OnTheLine(net'[s], bulk'[s], queue'[s]) /\ InOrder(net'[s], bulk'[s], queue'[s])
    BY <2>2, <1>3
  <2>4. Fragments(net[s], bulk[s], next_id[s], chan[o], On(s)) =>
           Fragments(net'[s], bulk'[s], next_id[s], chan[o], FALSE)
    BY <2>2
  <2>5. ~On(s)' => (Fragments(net'[s], bulk'[s], next_id[s], chan[o], FALSE) =>
                        Fragments(net'[s], bulk'[s], next_id[s], chan[o], On(s)'))
    BY DEF Fragments
  <2> QED  BY <2>1, <2>3, <2>4, <2>5, <1>2, <1>3
<1>10. ASSUME NEW r, EmitsRecord(s, r)
       PROVE  /\ OnTheLine(net'[s], bulk'[s], queue'[s]) /\ InOrder(net'[s], bulk'[s], queue'[s])
              /\ On(o)' => Fragments(net'[s], bulk'[s], next_id'[s], chan'[o], On(s)')
  <2>1. /\ Grown(net[s], net'[s], r) /\ Sent(r) /\ Leaves(bulk[s], queue[s], r, bulk'[s], queue'[s])
        /\ Numbers(r, next_id[s], next_id'[s]) /\ On(s) /\ chan'[o] = chan[o]
        /\ net'[s] \in Seq(Messages) /\ queue'[s] \in Seq(Messages)
    BY <1>10 DEF EmitsRecord
  <2>2. /\ Goes(bulk[s], r, bulk'[s]) /\ UnderWay(bulk'[s])
        /\ \A i \in DOMAIN queue'[s] : \E j \in DOMAIN queue[s] : queue'[s][i] = queue[s][j]
    BY <2>1, <1>3, WhatLeavesGoes
  <2>3. \A i \in DOMAIN net'[s] : Sent(net'[s][i])
    <3>1. \A i \in DOMAIN net'[s] : i \in DOMAIN net[s] \/ i = Len(net[s]) + 1
      BY <2>1 DEF Grown
    <3> QED  BY <2>1, <3>1, <1>6 DEF Grown
  <2>4. OnTheLine(net'[s], bulk'[s], queue'[s])
    BY <2>1, <2>2, <2>3, <1>6 DEF OnTheLine
  <2>5. InOrder(net'[s], bulk'[s], queue'[s])
    BY <2>1, <1>3, <1>6, RecordKeepsOrder
  <2>6. ASSUME On(o)' PROVE Fragments(net'[s], bulk'[s], next_id'[s], chan'[o], On(s)')
    <3>1. Fragments(net[s], bulk[s], next_id[s], chan[o], TRUE)
      BY <2>1, <2>6, <1>2, <1>3 DEF Fragments
    <3>2. Fragments(net'[s], bulk'[s], next_id'[s], chan[o], TRUE)
      BY <2>1, <2>2, <3>1, <1>1, <1>6, RecordGoes
    <3> QED  BY <2>1, <3>2, <1>5
  <2> QED  BY <2>4, <2>5, <2>6
<1>11. ASSUME NEW m, Queues(s, m)
       PROVE  /\ OnTheLine(net'[s], bulk'[s], queue'[s]) /\ InOrder(net'[s], bulk'[s], queue'[s])
              /\ On(o)' => Fragments(net'[s], bulk'[s], next_id'[s], chan'[o], On(s)')
  <2>1. /\ Queued(m) /\ queue'[s] = Append(queue[s], m) /\ net'[s] = net[s] /\ bulk'[s] = bulk[s]
        /\ next_id'[s] = next_id[s] /\ chan'[o] = chan[o]
        /\ \A i \in DOMAIN net[s] : WellBefore(net[s][i], m)
        /\ bulk[s] # Nobody => WellBefore(bulk[s], m)
        /\ \A i \in DOMAIN queue[s] : WellBefore(queue[s][i], m)
    BY <1>11 DEF Queues, RestOfLine
  <2>2. queue'[s] \in Seq(Messages) /\ Grown(queue[s], queue'[s], m)
    BY <2>1, <1>6, AppendGrows DEF Queued
  <2>3. \A i \in DOMAIN queue'[s] : Queued(queue'[s][i])
    <3>1. \A i \in DOMAIN queue'[s] : i \in DOMAIN queue[s] \/ i = Len(queue[s]) + 1
      BY <2>2 DEF Grown
    <3> QED  BY <2>1, <2>2, <3>1, <1>6 DEF Grown
  <2>4. OnTheLine(net'[s], bulk'[s], queue'[s])
    BY <2>1, <2>2, <2>3, <1>6 DEF OnTheLine
  <2>5. InOrder(net'[s], bulk'[s], queue'[s])
    BY <2>1, <2>2, <1>3, QueueKeepsOrder
  <2> QED  BY <2>1, <2>4, <2>5, <1>2, <1>3, <1>5
<1> QED  BY <1>7, <1>8, <1>9, <1>10, <1>11 DEF LineStep

(* What a step does to the texts of socket k that a side sends: none is    *)
(* delivered, the next one is queued, or the one that arrives is delivered *)
(* or never will be.                                                       *)
Completes(s, k) == TextOf(net[s][1], k) /\ net[s][1].offset = net[s][1].size
StreamStep(s, k) ==
    /\ Accepts(s, k)' => Accepts(s, k)
    /\ \/ /\ SameLine(s) \/ \E r : EmitsRecord(s, r)
          /\ Delivered(s, k)' = Delivered(s, k) /\ texts'[s][k] = texts[s][k]
       \/ \E m : /\ Queues(s, m) /\ (TextOf(m, k) => m.n = texts[s][k] + 1)
                 /\ texts'[s][k] = IF TextOf(m, k) THEN texts[s][k] + 1 ELSE texts[s][k]
                 /\ Delivered(s, k)' = Delivered(s, k)
       \/ /\ ReadsOne(s) /\ texts'[s][k] = texts[s][k]
          /\ IF Completes(s, k)
             THEN \/ Delivered(s, k)' = Delivered(s, k) + 1 /\ Accepts(s, k)
                  \/ Delivered(s, k)' = Delivered(s, k) /\ ~Accepts(s, k)'
             ELSE Delivered(s, k)' = Delivered(s, k)
       \/ /\ Stops(s) /\ texts'[s][k] = texts[s][k]
          /\ Delivered(s, k)' \in Nat /\ Delivered(s, k)' <= Delivered(s, k)
          /\ On(Other(s))' => Delivered(s, k)' = Delivered(s, k)

(* The text that a receiver reads and accepts is the next one. *)
LEMMA NextIsRead ==
    ASSUME NEW s \in Sides, NEW k \in Socks, ChannelTypes, CallTypes, LineSound(s), StreamSound(s, k),
           net[s] # <<>>, On(Other(s)), Accepts(s, k), Completes(s, k)
    PROVE  net[s][1].n = Delivered(s, k) + 1 /\ net[s][1].n <= texts[s][k]
<1> DEFINE d == Delivered(s, k)
           t == texts[s][k]
<1>1. d \in Nat /\ t \in Nat
  BY DEF CallTypes, Delivered, Sides
<1>2. OnTheLine(net[s], bulk[s], queue[s]) /\ InOrder(net[s], bulk[s], queue[s])
  BY DEF LineSound
<1>3. Thinned(net[s], Tail(net[s]), 1)
  BY <1>2, TailThins DEF OnTheLine
<1>4. NoGap(net[s], bulk[s], queue[s], k, d, t, On(s)) /\ Numbered(net[s], bulk[s], queue[s], k, t)
  BY DEF StreamSound
<1> HIDE DEF d, t
<1>5. net[s][1].n = d + 1
  BY <1>1, <1>2, <1>3, <1>4, NextTextArrives DEF Completes
<1>6. 1 \in DOMAIN net[s]
  BY <1>3 DEF Thinned
<1>7. net[s][1].n <= t
  BY <1>4, <1>6 DEF Numbered, Completes
<1> QED  BY <1>5, <1>7 DEF d, t

(* Whatever happens to the texts of a socket, none is missing or delivered *)
(* twice.                                                                  *)
LEMMA StreamHolds ==
    ASSUME NEW s \in Sides, NEW k \in Socks, ChannelTypes, CallTypes, LineSound(s), StreamSound(s, k),
           StaysOff, StreamStep(s, k)
    PROVE  StreamSound(s, k)'
<1> DEFINE d == Delivered(s, k)
           t == texts[s][k]
           d2 == Delivered(s, k)'
           t2 == texts'[s][k]
           o == Other(s)
           on2 == On(s)'
           open2 == On(o)' /\ Accepts(s, k)'
<1>1. d \in Nat /\ t \in Nat
  BY DEF CallTypes, Delivered, Sides
<1>2. (On(o)' => On(o)) /\ (On(s)' => On(s)) /\ On(s) \in BOOLEAN
  <2>1. On(s) \in BOOLEAN /\ o \in Sides
    BY DEF On, Sides, Other
  <2> QED  BY <2>1 DEF StaysOff
<1>3. OnTheLine(net[s], bulk[s], queue[s]) /\ InOrder(net[s], bulk[s], queue[s])
  BY DEF LineSound
<1>4. /\ d <= t /\ Numbered(net[s], bulk[s], queue[s], k, t)
      /\ On(o) /\ Accepts(s, k) => NoGap(net[s], bulk[s], queue[s], k, d, t, On(s))
  BY DEF StreamSound
<1>5. SUFFICES /\ d2 <= t2 /\ Numbered(net'[s], bulk'[s], queue'[s], k, t2)
               /\ open2 => NoGap(net'[s], bulk'[s], queue'[s], k, d2, t2, on2)
  BY DEF StreamSound
<1>6. \A w, b, q, x, y : /\ NoGap(w, b, q, k, x, y, On(s)) => NoGap(w, b, q, k, x, y, on2)
                         /\ NoGap(w, b, q, k, x, y, TRUE) => NoGap(w, b, q, k, x, y, on2)
                         /\ ~on2 => (NoGap(w, b, q, k, x, y, FALSE) => NoGap(w, b, q, k, x, y, on2))
  BY <1>2 DEF NoGap
<1>7. open2 => NoGap(net[s], bulk[s], queue[s], k, d, t, On(s))
  BY <1>2, <1>4 DEF StreamStep
<1>8. net[s] \in Seq(Messages) /\ queue[s] \in Seq(Messages)
  BY <1>3 DEF OnTheLine
<1>9. ASSUME NEW r, EmitsRecord(s, r), d2 = d, t2 = t
      PROVE  /\ d2 <= t2 /\ Numbered(net'[s], bulk'[s], queue'[s], k, t2)
             /\ open2 => NoGap(net'[s], bulk'[s], queue'[s], k, d2, t2, on2)
  <2>1. /\ Grown(net[s], net'[s], r) /\ Sent(r) /\ Leaves(bulk[s], queue[s], r, bulk'[s], queue'[s])
        /\ On(s)
    BY <1>9 DEF EmitsRecord
  <2> HIDE DEF d, t, d2, t2, on2, open2, o
  <2>3. open2 => NoGap(net[s], bulk[s], queue[s], k, d, t, TRUE)
    BY <2>1, <1>7 DEF NoGap
  <2>4. ASSUME NoGap(net[s], bulk[s], queue[s], k, d, t, TRUE)
        PROVE  NoGap(net'[s], bulk'[s], queue'[s], k, d, t, TRUE)
    BY <2>1, <2>4, <1>1, <1>3, <1>4, RecordSkipsNone
  <2>5. Numbered(net'[s], bulk'[s], queue'[s], k, t)
    BY <2>1, <1>1, <1>3, <1>4, RecordKeepsNumbers
  <2> QED  BY <2>3, <2>4, <2>5, <1>4, <1>6, <1>9
<1>10. CASE SameLine(s) /\ d2 = d /\ t2 = t
  BY <1>4, <1>6, <1>7, <1>10 DEF SameLine, RestOfLine
<1>11. ASSUME NEW m, Queues(s, m), TextOf(m, k) => m.n = t + 1, d2 = d,
              t2 = IF TextOf(m, k) THEN t + 1 ELSE t
       PROVE  /\ d2 <= t2 /\ Numbered(net'[s], bulk'[s], queue'[s], k, t2)
              /\ open2 => NoGap(net'[s], bulk'[s], queue'[s], k, d2, t2, on2)
  <2>1. /\ Grown(queue[s], queue'[s], m) /\ net'[s] = net[s] /\ bulk'[s] = bulk[s]
    BY <1>8, <1>11, AppendGrows DEF Queues, RestOfLine, Queued
  <2> HIDE DEF d, t, d2, t2, on2, open2, o
  <2>2. /\ Numbered(net[s], bulk[s], queue'[s], k, t2)
        /\ NoGap(net[s], bulk[s], queue[s], k, d, t, On(s)) => NoGap(net[s], bulk[s], queue'[s], k, d, t2, On(s))
    BY <2>1, <1>1, <1>3, <1>4, <1>11, QueueSkipsNone
  <2>3. d2 <= t2
    BY <1>1, <1>4, <1>11
  <2> QED  BY <2>1, <2>2, <2>3, <1>6, <1>7, <1>11
<1>12. ASSUME ReadsOne(s), t2 = t,
              IF Completes(s, k)
              THEN \/ d2 = d + 1 /\ Accepts(s, k)
                   \/ d2 = d /\ ~Accepts(s, k)'
              ELSE d2 = d
       PROVE  /\ d2 <= t2 /\ Numbered(net'[s], bulk'[s], queue'[s], k, t2)
              /\ open2 => NoGap(net'[s], bulk'[s], queue'[s], k, d2, t2, on2)
  <2>1. /\ Thinned(net[s], net'[s], 1) /\ queue'[s] = queue[s] /\ bulk'[s] = bulk[s] /\ On(o) /\ net[s] # <<>>
    BY <1>8, <1>12, TailThins DEF ReadsOne, RestOfLine
  <2>2. ~Accepts(s, k)' => ~open2
    OBVIOUS
  <2>3. Completes(s, k) /\ Accepts(s, k) => net[s][1].n = d + 1 /\ net[s][1].n <= t
    BY <2>1, NextIsRead
  <2> HIDE DEF d, t, d2, t2, on2, open2, o
  <2>4. Numbered(net'[s], bulk'[s], queue'[s], k, t2)
    BY <2>1, <1>4, <1>12, ReadKeepsNumbers
  <2>5. d2 <= t2
    BY <2>3, <1>1, <1>4, <1>12
  <2>6. ASSUME open2 PROVE NoGap(net'[s], bulk[s], queue[s], k, d2, t, On(s))
    <3>1. NoGap(net[s], bulk[s], queue[s], k, d, t, On(s))
      BY <2>6, <1>7
    <3>2. IF Completes(s, k) THEN NoGap(net'[s], bulk[s], queue[s], k, d + 1, t, On(s))
          ELSE NoGap(net'[s], bulk[s], queue[s], k, d, t, On(s))
      BY <3>1, <2>1, <1>1, <1>3, NextTextArrives DEF Completes
    <3> QED  BY <3>2, <2>2, <2>6, <1>12
  <2> QED  BY <2>1, <2>4, <2>5, <2>6, <1>6, <1>12
<1>13. ASSUME Stops(s), t2 = t, d2 \in Nat, d2 <= d, On(o)' => d2 = d
       PROVE  /\ d2 <= t2 /\ Numbered(net'[s], bulk'[s], queue'[s], k, t2)
              /\ open2 => NoGap(net'[s], bulk'[s], queue'[s], k, d2, t2, on2)
  <2>1. open2 => On(o)' /\ d2 = d
    BY <1>13
  <2>2. ~on2 \/ ~On(o)'
    BY <1>13 DEF Stops
  <2> DEFINE w == net[s]  w2 == net'[s]  b == bulk[s]  b2 == bulk'[s]  q == queue[s]  q2 == queue'[s]
  <2>3. (w2 = w \/ w2 = <<>>) /\ ((b2 = b /\ q2 = q) \/ (b2 = Nobody /\ q2 = <<>>))
    BY <1>13 DEF Stops
  <2>4. Numbered(w, b, q, k, t) /\ (open2 => NoGap(w, b, q, k, d, t, On(s)))
    BY <1>4, <1>7
  <2> HIDE DEF w, w2, b, b2, q, q2, d, t, d2, t2, open2, on2, o
  <2>5. Numbered(w2, b2, q2, k, t)
    BY <2>3, <2>4, LineStops
  <2>6. open2 => NoGap(w2, b2, q2, k, d, t, FALSE)
    BY <2>3, <2>4, LineStops
  <2>7. open2 => NoGap(w2, b2, q2, k, d, t, on2)
    BY <2>1, <2>2, <2>6, <1>6
  <2>8. d2 <= t2
    BY <1>1, <1>4, <1>13
  <2> QED  BY <2>1, <2>5, <2>7, <2>8, <1>13 DEF w2, b2, q2
<1> HIDE DEF open2
<1> QED  BY <1>9, <1>10, <1>11, <1>12, <1>13 DEF StreamStep

(* What a step does to the calls and to the opens of the sockets: a call   *)
(* never goes back to before its open was queued, and the hub opens a      *)
(* socket for an open that was on its way.                                 *)
CallsMove ==
    \A k \in Socks : /\ Early(k)' => Early(k)
                     /\ call'[k] = "idle" => call[k] = "idle"
                     /\ k \in entries' => k \in entries \/ call[k] = "idle"
OpensLess == \A k \in Socks : OpenOnTheWay(k)' => OpenOnTheWay(k)
OpensMove ==
    \A k \in Socks : /\ k \in open_sockets' => k \in open_sockets \/ OpenOnTheWay(k)
                     /\ OpenOnTheWay(k)' => OpenOnTheWay(k) \/ Early(k)
TextsMove ==
    \A k \in Socks : /\ texts'["app"][k] # texts["app"][k] => ~Early(k)
                     /\ texts'["hub"][k] # texts["hub"][k] => call[k] # "idle"

(* A socket that takes no more texts never does again: socket ids are not  *)
(* reused.                                                                 *)
LEMMA AcceptsLess ==
    ASSUME CallsMove, OpensMove
    PROVE  \A s \in Sides, k \in Socks : Accepts(s, k)' => Accepts(s, k)
BY DEF CallsMove, OpensMove, Accepts, Sides

(* A step that brings no open on its way and opens no socket leaves at     *)
(* most one open of every socket, before all of its texts.                 *)
LEMMA StillOpened ==
    ASSUME Opened, CallsMove, OpensLess, open_sockets' \subseteq open_sockets, TextsMove
    PROVE  Opened' /\ OpensMove
<1>1. OpensMove
  BY DEF OpensMove, OpensLess
<1>2. Opened'
  <2> SUFFICES ASSUME NEW k \in Socks
               PROVE  /\ Early(k)' => texts'["app"][k] = 0 /\ ~OpenOnTheWay(k)' /\ k \notin open_sockets'
                      /\ call'[k] = "idle" => texts'["hub"][k] = 0
                      /\ k \in open_sockets' => ~OpenOnTheWay(k)'
    BY DEF Opened
  <2>1. /\ Early(k) => texts["app"][k] = 0 /\ ~OpenOnTheWay(k) /\ k \notin open_sockets
        /\ call[k] = "idle" => texts["hub"][k] = 0
        /\ k \in open_sockets => ~OpenOnTheWay(k)
    BY DEF Opened
  <2>2. /\ Early(k)' => Early(k)
        /\ call'[k] = "idle" => call[k] = "idle"
        /\ OpenOnTheWay(k)' => OpenOnTheWay(k)
        /\ k \in open_sockets' => k \in open_sockets
        /\ texts'["app"][k] # texts["app"][k] => ~Early(k)
        /\ texts'["hub"][k] # texts["hub"][k] => call[k] # "idle"
    BY DEF CallsMove, OpensLess, TextsMove
  <2> QED  BY <2>1, <2>2
<1> QED  BY <1>1, <1>2

(* Nothing but a queued open brings an open on its way. *)
LEMMA OpensShrink ==
    ASSUME LineSound("app"),
           \/ SameLine("app") \/ ReadsOne("app") \/ Stops("app")
           \/ \E r : EmitsRecord("app", r)
           \/ \E m : Queues("app", m) /\ m.kind # "open"
    PROVE  OpensLess
<1> SUFFICES ASSUME NEW k \in Socks, OpenOnTheWay(k)' PROVE OpenOnTheWay(k)
  BY DEF OpensLess
<1> DEFINE w == net["app"]
           q == queue["app"]
           w2 == net'["app"]
           q2 == queue'["app"]
<1>1. \/ \E i \in DOMAIN w2 : OpenOf(w2[i], k)
      \/ \E i \in DOMAIN q2 : OpenOf(q2[i], k)
  BY DEF OpenOnTheWay
<1>2. SUFFICES \/ \E i \in DOMAIN w : OpenOf(w[i], k)
               \/ \E i \in DOMAIN q : OpenOf(q[i], k)
  BY DEF OpenOnTheWay
<1>3. w \in Seq(Messages) /\ q \in Seq(Messages) /\ OnTheLine(w, bulk["app"], q)
  BY DEF LineSound, OnTheLine
<1>4. DOMAIN <<>> = {}
  <2>1. <<>> \in Seq({}) /\ Len(<<>>) = 0
    OBVIOUS
  <2>2. \A s \in Seq({}) : DOMAIN s = 1 .. Len(s)
    OBVIOUS
  <2> QED  BY <2>1, <2>2
<1>5. ASSUME NEW s, NEW s2, Thinned(s, s2, 1) PROVE \A i \in DOMAIN s2 : i + 1 \in DOMAIN s /\ s2[i] = s[i + 1]
  <2>1. \A i \in DOMAIN s2 : ~(i < 1) /\ i + 1 \in DOMAIN s
    BY <1>5 DEF Thinned
  <2> QED  BY <2>1, <1>5 DEF Thinned
<1>6. ASSUME NEW s, NEW s2, NEW m, Grown(s, s2, m)
      PROVE  \A i \in DOMAIN s2 : s2[i] = m \/ (i \in DOMAIN s /\ s2[i] = s[i])
  <2>1. \A i \in DOMAIN s2 : i \in DOMAIN s \/ i = Len(s) + 1
    BY <1>6 DEF Grown
  <2> QED  BY <2>1, <1>6 DEF Grown
<1>7. CASE SameLine("app")
  BY <1>1, <1>7 DEF SameLine
<1>8. CASE ReadsOne("app")
  <2>1. Thinned(w, w2, 1) /\ q2 = q
    BY <1>3, <1>8, TailThins DEF ReadsOne
  <2> HIDE DEF w, q, w2, q2
  <2> QED  BY <2>1, <1>1, <1>5
<1>9. CASE Stops("app")
  <2>1. (w2 = w \/ w2 = <<>>) /\ (q2 = q \/ q2 = <<>>)
    BY <1>9 DEF Stops
  <2> HIDE DEF w, q, w2, q2
  <2>2. (w2 = w \/ DOMAIN w2 = {}) /\ (q2 = q \/ DOMAIN q2 = {})
    BY <2>1, <1>4
  <2> QED  BY <2>2, <1>1
<1>10. ASSUME NEW r, EmitsRecord("app", r)
       PROVE  \/ \E i \in DOMAIN w : OpenOf(w[i], k)
              \/ \E i \in DOMAIN q : OpenOf(q[i], k)
  <2>1. Grown(w, w2, r) /\ Leaves(bulk["app"], q, r, bulk'["app"], q2)
    BY <1>10 DEF EmitsRecord
  <2>2. bulk["app"] # Nobody => ~(bulk["app"].kind = "open")
    BY <1>3 DEF OnTheLine, UnderWay, Sent, OfItsKind, Messages
  <2> HIDE DEF w, q, w2, q2
  <2>3. OpenOf(r, k) => \E i \in DOMAIN q : OpenOf(q[i], k)
    BY <2>1, <2>2 DEF Leaves, Beats, LeavesQueue, Resumed, Comes, OpenOf
  <2>4. \A j \in DOMAIN q2 : \E l \in DOMAIN q : q2[j] = q[l]
    BY <2>1, QueueShrinks
  <2> QED  BY <2>1, <2>3, <2>4, <1>1, <1>6
<1>11. ASSUME NEW m, Queues("app", m), m.kind # "open"
       PROVE  \/ \E i \in DOMAIN w : OpenOf(w[i], k)
              \/ \E i \in DOMAIN q : OpenOf(q[i], k)
  <2>1. Grown(q, q2, m) /\ w2 = w
    BY <1>3, <1>11, AppendGrows DEF Queues, Queued
  <2> HIDE DEF w, q, w2, q2
  <2> QED  BY <2>1, <1>1, <1>6, <1>11 DEF OpenOf
<1> QED  BY <1>7, <1>8, <1>9, <1>10, <1>11

(* The parts of the invariant, put together after a step. *)
LEMMA StepHolds ==
    ASSUME ChannelInv, ChannelTypes', CallTypes', Waits', Opened', Taken', SocketsKeepOrder',
           HonestRecordsDecode', StaysOff, \A s \in Sides : LineStep(s),
           \A s \in Sides, k \in Socks : StreamStep(s, k)
    PROVE  ChannelInv'
<1>1. ASSUME NEW s \in Sides PROVE LineSound(s)'
  BY LineHolds DEF ChannelInv
<1>2. ASSUME NEW s \in Sides, NEW k \in Socks PROVE StreamSound(s, k)'
  BY StreamHolds DEF ChannelInv
<1> QED  BY <1>1, <1>2 DEF ChannelInv

(* A step that leaves the lines and what was delivered as they are. *)
LEMMA QuietStep ==
    ASSUME ChannelInv, UNCHANGED <<queue, bulk, next_id, net, chan, texts, got, behind>>,
           ChannelTypes', CallTypes', Waits', StaysOff, CallsMove, open_sockets' \subseteq open_sockets
    PROVE  ChannelInv'
<1>1. \A s \in Sides : SameLine(s)
  BY DEF SameLine, RestOfLine
<1>2. OpensLess /\ TextsMove
  BY DEF OpensLess, OpenOnTheWay, TextsMove
<1>3. Opened' /\ OpensMove
  BY <1>2, StillOpened DEF ChannelInv
<1>4. \A s \in Sides, k \in Socks : Delivered(s, k)' = Delivered(s, k) /\ texts'[s][k] = texts[s][k]
  BY DEF Delivered
<1>5. \A s \in Sides, k \in Socks : StreamStep(s, k)
  BY <1>1, <1>3, <1>4, AcceptsLess DEF StreamStep
<1>6. Taken' /\ SocketsKeepOrder' /\ HonestRecordsDecode'
  BY DEF ChannelInv, Taken, SocketsKeepOrder, HonestRecordsDecode
<1>7. \A s \in Sides : LineStep(s)
  BY <1>1 DEF LineStep
<1> QED  BY <1>3, <1>5, <1>6, <1>7, StepHolds

(* The channel starts with nothing on its way.                             *)
LEMMA ChannelStarts == SecureInit => ChannelInv
<1> SUFFICES ASSUME SecureInit PROVE ChannelInv
  OBVIOUS
<1> USE DEF SecureInit
<1>1. <<>> \in Seq(Messages) /\ DOMAIN <<>> = {} /\ Len(<<>>) = 0
  <2>1. <<>> \in Seq({}) /\ Len(<<>>) = 0
    OBVIOUS
  <2>2. \A s \in Seq({}) : DOMAIN s = 1 .. Len(s)
    OBVIOUS
  <2> QED  BY <2>1, <2>2
<1>2. ChannelTypes /\ CallTypes
  <2>1. 0 \in 0 .. MaxStreak /\ <<>> \in Seq(Nat)
    BY LimitsAssumption
  <2>2. ChannelTypes
    BY <2>1, <1>1 DEF ChannelTypes
  <2>3. CallTypes
    BY <2>1 DEF CallTypes
  <2> QED  BY <2>2, <2>3
<1>3. ASSUME NEW s \in Sides PROVE net[s] = <<>> /\ queue[s] = <<>> /\ bulk[s] = Nobody /\ next_id[s] = 1
                                   /\ chan[Other(s)].last_started = 0 /\ chan[Other(s)].pending = {}
  BY <1>3 DEF Sides, Other
<1>4. ASSUME NEW s \in Sides PROVE LineSound(s)
  <2>1. OnTheLine(net[s], bulk[s], queue[s]) /\ InOrder(net[s], bulk[s], queue[s])
    BY <1>1, <1>3 DEF OnTheLine, UnderWay, InOrder
  <2>2. Fragments(net[s], bulk[s], next_id[s], chan[Other(s)], On(s))
    <3>1. Starts(<<>>, {}) /\ Continues(<<>>) /\ Stands(<<>>, Nobody, {}) /\ IdsAscend(<<>>, 0, 1)
      BY <1>1 DEF Starts, Continues, Stands, IdsAscend
    <3> QED  BY <3>1, <1>3 DEF Fragments
  <2> QED  BY <2>1, <2>2 DEF LineSound
<1>5. ASSUME NEW s \in Sides, NEW k \in Socks PROVE StreamSound(s, k)
  <2>1. Delivered(s, k) = 0 /\ texts[s][k] = 0
    BY <1>1 DEF Delivered, Sides
  <2>2. \A n \in Nat : ~(0 < n /\ n <= 0)
    OBVIOUS
  <2>3. Numbered(net[s], bulk[s], queue[s], k, 0) /\ NoGap(net[s], bulk[s], queue[s], k, 0, 0, On(s))
    BY <1>1, <1>3, <2>2 DEF Numbered, NoGap, NotYet, NoneSkipped, NoneLost
  <2> QED  BY <2>1, <2>3 DEF StreamSound
<1>6. Opened
  BY <1>1 DEF Opened, OpenOnTheWay, Sides
<1>7. Waits /\ Taken /\ SocketsKeepOrder /\ HonestRecordsDecode
  BY <1>1 DEF Waits, Taken, SocketsKeepOrder, HonestRecordsDecode
<1> QED  BY <1>2, <1>4, <1>5, <1>6, <1>7 DEF ChannelInv

(* The hub's own steps that touch no line, and those of a call that does    *)
(* not queue.                                                              *)
LEMMA HubStepHolds ==
    ASSUME ChannelInv, authenticate \/ serve \/ revoke_device
    PROVE  ChannelInv'
<1>1. /\ UNCHANGED <<mix, outVars, appVars, texts, got, behind, open_sockets, tasks>>
      /\ serving' \in {"no", "authenticated", "yes", "gone"} /\ (serving' # "gone" => serving # "gone")
  BY DEF authenticate, serve, revoke_device, ChannelInv, CallTypes
<1> USE <1>1 DEF outVars, appVars
<1>2. ChannelTypes' /\ CallTypes' /\ Waits'
  BY DEF ChannelInv, ChannelTypes, CallTypes, Waits
<1>3. StaysOff /\ CallsMove
  BY DEF StaysOff, On, CallsMove, Early
<1> QED  BY <1>2, <1>3, QuietStep

(* A call puts its entry into the map.                                     *)
LEMMA RequestHolds ==
    ASSUME ChannelInv, NEW c \in Calls, request(c)
    PROVE  ChannelInv'
<1>1. /\ call[c] = "idle" /\ call' = [call EXCEPT ![c] = "inserted"] /\ entries' = entries \cup {c}
      /\ UNCHANGED <<mix, outVars, closed, drained, texts, got, hubVars>>
  BY DEF request
<1> USE <1>1 DEF outVars, hubVars
<1>2. ChannelTypes'
  BY DEF ChannelInv, ChannelTypes
<1>3. CallTypes'
  BY DEF ChannelInv, CallTypes
<1>4. Waits'
  BY DEF ChannelInv, CallTypes, Waits
<1>5. StaysOff
  BY DEF StaysOff, On
<1>6. CallsMove
  BY DEF CallsMove, Early, ChannelInv, CallTypes, Calls
<1> QED  BY <1>2, <1>3, <1>4, <1>5, <1>6, QuietStep

(* A call that looks at the client, fails or times out queues nothing. *)
LEMMA CallEnds ==
    ASSUME ChannelInv, NEW c \in Calls, call[c] \in {"inserted", "checked", "waiting"}, 
           NEW x \in {"checked", "failed", "ended"}, call' = [call EXCEPT ![c] = x],
           IF x = "checked" THEN call[c] = "inserted" /\ ~closed /\ entries' = entries
           ELSE entries' = entries \ {c},
           closed' \in BOOLEAN, closed => closed',
           UNCHANGED <<mix, outVars, drained, texts, got, hubVars>>
    PROVE  ChannelInv'
<1> USE DEF outVars, hubVars
<1>1. ChannelTypes'
  BY DEF ChannelInv, ChannelTypes
<1>2. CallTypes'
  BY DEF ChannelInv, CallTypes
<1>3. Waits'
  BY DEF ChannelInv, CallTypes, Waits
<1>4. StaysOff
  BY DEF StaysOff, On, ChannelInv, CallTypes
<1>5. CallsMove
  BY DEF CallsMove, Early, ChannelInv, CallTypes, Calls
<1> QED  BY <1>1, <1>2, <1>3, <1>4, <1>5, QuietStep

(* A heartbeat of the app waits beside the queue.                          *)
LEMMA PingHolds ==
    ASSUME ChannelInv, Ping
    PROVE  ChannelInv'
<1>1. /\ control' = [control EXCEPT !["app"] = @ + 1]
      /\ UNCHANGED <<mix, queue, bulk, streak, next_id, net, chan, appVars, texts, got, hubVars>>
  BY DEF Ping
<1> USE <1>1 DEF appVars, hubVars
<1>2. ChannelTypes' /\ CallTypes' /\ Waits'
  <2>1. control' \in [Sides -> Nat]
    BY DEF ChannelInv, ChannelTypes, Sides
  <2>2. ChannelTypes'
    BY <2>1 DEF ChannelInv, ChannelTypes
  <2>3. CallTypes'
    BY DEF ChannelInv, CallTypes
  <2>4. Waits'
    BY DEF ChannelInv, Waits
  <2> QED BY <2>2, <2>3, <2>4
<1>3. StaysOff /\ CallsMove
  BY DEF StaysOff, On, CallsMove, Early
<1> QED  BY <1>2, <1>3, QuietStep

(* The app closes its client.                                              *)
LEMMA CloseHolds ==
    ASSUME ChannelInv, close
    PROVE  ChannelInv'
<1>1. closed' = TRUE /\ UNCHANGED <<mix, outVars, call, entries, drained, texts, got, hubVars>>
  BY DEF close
<1> USE <1>1 DEF outVars, hubVars
<1>2. ChannelTypes' /\ Waits'
  BY DEF ChannelInv, ChannelTypes, Waits
<1>3. CallTypes'
  BY DEF ChannelInv, CallTypes
<1>4. StaysOff /\ CallsMove
  BY DEF StaysOff, On, CallsMove, Early
<1> QED  BY <1>2, <1>3, <1>4, QuietStep

(* A handler takes the text that is next. *)
LEMMA TakeHolds ==
    ASSUME ChannelInv, NEW k \in Socks, HandlerTakes(k)
    PROVE  ChannelInv'
<1> DEFINE g == got["hub"][k]
           b == behind[k]
<1>1. /\ b # <<>> /\ got' = [got EXCEPT !["hub"][k] = Append(@, Head(b))]
      /\ behind' = [behind EXCEPT ![k] = Tail(@)]
      /\ UNCHANGED <<mix, outVars, appVars, texts, open_sockets, tasks, serving>>
  BY DEF HandlerTakes
<1> USE DEF outVars, appVars
<1>2. g \in Seq(Nat) /\ b \in Seq(Nat) /\ Len(g) \in Nat /\ Len(b) \in Nat
  BY DEF ChannelInv, CallTypes, Sides
<1>3. /\ Append(g, Head(b)) \in Seq(Nat) /\ Grown(g, Append(g, Head(b)), Head(b))
      /\ Len(Append(g, Head(b))) = Len(g) + 1
      /\ Tail(b) \in Seq(Nat) /\ Thinned(b, Tail(b), 1) /\ Head(b) = b[1] /\ Len(Tail(b)) = Len(b) - 1
  <2>1. Head(b) \in Nat
    BY <1>1, <1>2
  <2>2. Len(Append(g, Head(b))) = Len(g) + 1 /\ Len(Tail(b)) = Len(b) - 1
    BY <2>1, <1>1, <1>2
  <2> QED  BY <2>1, <2>2, <1>1, <1>2, AppendGrows, TailThins
<1>4. /\ got'["hub"][k] = Append(g, Head(b)) /\ behind'[k] = Tail(b)
      /\ \A s \in Sides, j \in Socks : (s # "hub" \/ j # k) => got'[s][j] = got[s][j]
      /\ \A j \in Socks : j # k => behind'[j] = behind[j]
  BY <1>1 DEF ChannelInv, CallTypes, Sides
<1>5. b[1] = Len(g) + 1 /\ \A i \in DOMAIN b : b[i] = Len(g) + i
  BY <1>3 DEF ChannelInv, Taken, Thinned
<1>6. ChannelTypes' /\ Waits' /\ HonestRecordsDecode'
  BY <1>1 DEF ChannelInv, ChannelTypes, Waits, HonestRecordsDecode
<1>7. CallTypes'
  BY <1>1, <1>2, <1>3 DEF ChannelInv, CallTypes, Sides
<1> HIDE DEF g, b
<1>8. Taken'
  <2> SUFFICES ASSUME NEW j \in Socks, NEW i \in DOMAIN behind'[j]
               PROVE  behind'[j][i] = Len(got'["hub"][j]) + i
    BY DEF Taken
  <2>1. CASE j # k
    BY <2>1, <1>4 DEF ChannelInv, Taken, Sides
  <2>2. CASE j = k
    <3>1. i \in Nat /\ ~(i < 1) /\ i + 1 \in DOMAIN b /\ behind'[j][i] = b[i + 1]
      BY <2>2, <1>3, <1>4 DEF Thinned
    <3>2. b[i + 1] = Len(g) + (i + 1)
      BY <3>1, <1>5
    <3> QED  BY <2>2, <3>1, <3>2, <1>2, <1>3, <1>4
  <2> QED  BY <2>1, <2>2
<1>9. SocketsKeepOrder'
  <2> SUFFICES ASSUME NEW s \in Sides, NEW j \in Socks, NEW i \in DOMAIN got'[s][j]
               PROVE  got'[s][j][i] = i
    BY DEF SocketsKeepOrder
  <2>1. CASE s # "hub" \/ j # k
    BY <2>1, <1>4 DEF ChannelInv, SocketsKeepOrder
  <2>2. CASE s = "hub" /\ j = k
    <3>1. \A n \in DOMAIN g : g[n] = n
      BY DEF ChannelInv, SocketsKeepOrder, Sides, g
    <3>2. i \in DOMAIN g \/ i = Len(g) + 1
      BY <2>2, <1>3, <1>4 DEF Grown
    <3> QED  BY <2>2, <3>1, <3>2, <1>3, <1>4, <1>5 DEF Grown
  <2> QED  BY <2>1, <2>2
<1>10. \A s \in Sides : SameLine(s)
  BY <1>1 DEF SameLine, RestOfLine
<1>11. StaysOff /\ CallsMove /\ OpensLess /\ TextsMove
  BY <1>1 DEF StaysOff, On, CallsMove, Early, OpensLess, OpenOnTheWay, TextsMove
<1>12. Opened' /\ OpensMove
  BY <1>1, <1>11, StillOpened DEF ChannelInv
<1>13. \A s \in Sides, j \in Socks : Delivered(s, j)' = Delivered(s, j) /\ texts'[s][j] = texts[s][j]
  <2> SUFFICES ASSUME NEW s \in Sides, NEW j \in Socks
               PROVE  Delivered(s, j)' = Delivered(s, j)
    BY <1>1
  <2>1. CASE j # k \/ s = "hub"
    BY <2>1, <1>4 DEF Delivered, Sides
  <2>2. CASE j = k /\ s = "app"
    <3>1. Len(got'["hub"][k]) = Len(g) + 1 /\ Len(behind'[k]) = Len(b) - 1
      BY <1>3, <1>4
    <3>2. Len(g) + 1 + (Len(b) - 1) = Len(g) + Len(b)
      BY <1>2
    <3> QED  BY <2>2, <3>1, <3>2 DEF Delivered, g, b
  <2> QED  BY <2>1, <2>2 DEF Sides
<1>14. \A s \in Sides, j \in Socks : StreamStep(s, j)
  BY <1>10, <1>11, <1>12, <1>13, AcceptsLess DEF StreamStep
<1>15. \A s \in Sides : LineStep(s)
  BY <1>10 DEF LineStep
<1> QED  BY <1>6, <1>7, <1>8, <1>9, <1>11, <1>12, <1>14, <1>15, StepHolds

(* The first element of a set of positions exists. *)
LEMMA FirstIsOne ==
    ASSUME NEW S, S \subseteq Nat, S # {}
    PROVE  First(S) \in S
<1>1. PICK m \in S : \A n \in S : ~(<<n, m>> \in OpToRel(<, Nat))
  <2>1. IsWellFoundedOn(OpToRel(<, Nat), Nat)
    BY NatLessThanWellFounded
  <2> QED  BY <2>1, WFMin
<1>2. \A n \in S : m <= n
  <2> SUFFICES ASSUME NEW n \in S, n < m PROVE FALSE
    OBVIOUS
  <2>1. <<n, m>> \in OpToRel(<, Nat)
    BY DEF OpToRel
  <2> QED  BY <2>1, <1>1
<1> QED  BY <1>2 DEF First

(* The record of a message, and what is under way after it. *)
LEMMA EmitSends ==
    ASSUME ChannelInv, NEW side \in Sides, NEW m, Emit(side, m),
           Queued(m) \/ (m = bulk[side] /\ m # Nobody)
    PROVE  LET r == encode_next(side, m) IN
           /\ Sent(r) /\ Comes(r, m) /\ r.offset = m.offset + 1
           /\ m.id # 0 => r.id = m.id
           /\ Numbers(r, next_id[side], next_id'[side])
           /\ net'[side] \in Seq(Messages) /\ Grown(net[side], net'[side], r)
           /\ bulk'[side] = (IF r.offset = r.size THEN (IF m.size = 1 THEN bulk[side] ELSE Nobody) ELSE r)
           /\ Other(side) # side
           /\ net'[Other(side)] = net[Other(side)] /\ bulk'[Other(side)] = bulk[Other(side)]
           /\ next_id'[Other(side)] = next_id[Other(side)]
           /\ next_id' \in [Sides -> Nat \ {0}] /\ net' \in [Sides -> Seq(Messages)]
           /\ bulk' \in [Sides -> Messages \cup {Nobody}]
<1> DEFINE r == encode_next(side, m)
           o == Other(side)
<1>1. /\ net \in [Sides -> Seq(Messages)] /\ bulk \in [Sides -> Messages \cup {Nobody}]
      /\ next_id \in [Sides -> Nat \ {0}]
      /\ UnderWay(bulk[side]) /\ o \in Sides /\ o # side
  <2>1. o \in Sides /\ o # side
    BY DEF Other, Sides
  <2> QED  BY <2>1 DEF ChannelInv, ChannelTypes, LineSound, OnTheLine
<1>2. /\ m \in Messages /\ OfItsKind(m) /\ m.id \in Nat /\ m.offset \in Nat /\ m.size \in Nat \ {0}
      /\ m.offset < m.size /\ (m.id = 0 <=> m.offset = 0)
  BY <1>1 DEF Queued, UnderWay, Sent, Messages
<1>3. r = [m EXCEPT !.id = IF m.id = 0 THEN next_id[side] ELSE m.id, !.offset = m.offset + 1]
  BY DEF encode_next
<1>4. /\ r \in Messages /\ Comes(r, m) /\ r.offset = m.offset + 1
      /\ r.id = IF m.id = 0 THEN next_id[side] ELSE m.id
  <2> DEFINE x == IF m.id = 0 THEN next_id[side] ELSE m.id
             y == m.offset + 1
  <2>1. x \in Nat /\ y \in Nat
    BY <1>1, <1>2
  <2>2. r = [m EXCEPT !.id = x, !.offset = y]
    BY <1>3
  <2> HIDE DEF x, y, r
  <2>3. r \in Messages /\ Comes(r, m) /\ r.offset = y /\ r.id = x
    BY <2>1, <2>2, <1>2 DEF Messages, Comes
  <2> QED  BY <2>3 DEF x, y
<1>5. Sent(r)
  BY <1>1, <1>2, <1>4 DEF Sent, OfItsKind, Comes
<1>6. /\ net' = [net EXCEPT ![side] = Append(@, r)]
      /\ next_id' = [next_id EXCEPT ![side] = IF m.id = 0 THEN @ + 1 ELSE @]
      /\ bulk' = [bulk EXCEPT ![side] = IF r.offset = r.size THEN (IF m.size = 1 THEN @ ELSE Nobody) ELSE r]
  BY DEF Emit, finished, is_small
<1> HIDE DEF r, o
<1>7. net'[side] \in Seq(Messages) /\ Grown(net[side], net'[side], r)
  BY <1>1, <1>4, <1>6, AppendGrows
<1>8. Numbers(r, next_id[side], next_id'[side])
  BY <1>1, <1>2, <1>4, <1>6 DEF Numbers
<1>9. /\ net'[o] = net[o] /\ bulk'[o] = bulk[o] /\ next_id'[o] = next_id[o]
      /\ next_id' \in [Sides -> Nat \ {0}] /\ net' \in [Sides -> Seq(Messages)]
      /\ bulk' \in [Sides -> Messages \cup {Nobody}]
      /\ bulk'[side] = IF r.offset = r.size THEN (IF m.size = 1 THEN bulk[side] ELSE Nobody) ELSE r
  BY <1>1, <1>4, <1>6, <1>7
<1> QED  BY <1>1, <1>2, <1>4, <1>5, <1>7, <1>8, <1>9 DEF r, o

(* A run of the writer sends one record and leaves the other side alone. *)
LEMMA RunEmits ==
    ASSUME ChannelInv, NEW side \in Sides, run(side)
    PROVE  /\ \E r : EmitsRecord(side, r)
           /\ SameLine(Other(side)) /\ ChannelTypes'
<1> DEFINE q == queue[side]
           b == bulk[side]
           o == Other(side)
<1>1. /\ q \in Seq(Messages) /\ UnderWay(b) /\ (\A i \in DOMAIN q : Queued(q[i])) /\ DOMAIN q = 1 .. Len(q)
      /\ Len(q) \in Nat
  BY DEF ChannelInv, LineSound, OnTheLine
<1>2. /\ UNCHANGED <<mix, chan>> /\ Alive(side) /\ queue \in [Sides -> Seq(Messages)] /\ o \in Sides /\ o # side
      /\ control \in [Sides -> Nat] /\ streak \in [Sides -> 0 .. MaxStreak]
  BY DEF run, ChannelInv, ChannelTypes, Other, Sides
<1>3. On(side)
  BY <1>2 DEF On, Alive
<1>4. ASSUME NEW m, Emit(side, m), Queued(m) \/ (m = b /\ m # Nobody),
             queue' \in [Sides -> Seq(Messages)], queue'[o] = queue[o],
             control' \in [Sides -> Nat], streak' \in [Sides -> 0 .. MaxStreak],
             Leaves(b, q, encode_next(side, m), bulk'[side], queue'[side])
      PROVE  /\ \E r : EmitsRecord(side, r)
             /\ SameLine(o) /\ ChannelTypes'
  <2>1. EmitsRecord(side, encode_next(side, m))
    BY <1>2, <1>3, <1>4, EmitSends DEF EmitsRecord
  <2>2. SameLine(o) /\ ChannelTypes'
    BY <1>2, <1>4, EmitSends DEF SameLine, RestOfLine, ChannelInv, ChannelTypes
  <2> QED  BY <2>1, <2>2
<1>5. CASE /\ control[side] > 0 /\ control' = [control EXCEPT ![side] = @ - 1]
           /\ Emit(side, Heartbeat(side)) /\ UNCHANGED <<queue, streak>>
  <2> DEFINE m == Heartbeat(side)
  <2>1. /\ m \in Messages /\ m.kind \in {"ping", "pong"} /\ m.size = 1 /\ m.id = 0 /\ m.offset = 0
    BY DEF Heartbeat, Message, Messages, Kinds
  <2>2. Queued(m)
    BY <2>1 DEF Queued, OfItsKind
  <2> HIDE DEF m
  <2>3. Emit(side, m)
    BY <1>5 DEF m
  <2>4. LET r == encode_next(side, m) IN
        r.kind = m.kind /\ r.size = 1 /\ r.offset = 1 /\ bulk'[side] = IF r.offset = r.size THEN b ELSE r
    BY <2>1, <2>2, <2>3, EmitSends DEF Comes
  <2>5. Leaves(b, q, encode_next(side, m), bulk'[side], queue'[side])
    BY <2>1, <2>4, <1>5 DEF Leaves, Beats, Large
  <2>6. control' \in [Sides -> Nat]
    BY <1>2, <1>5
  <2>7. queue'[side] = q /\ queue' = queue /\ streak' = streak
    BY <1>5
  <2> QED  BY <2>2, <2>3, <2>5, <2>6, <2>7, <1>1, <1>2, <1>4
<1>6. ASSUME NEW i \in DOMAIN q, Emit(side, q[i]), Thinned(q, queue'[side], i), queue'[side] \in Seq(Messages),
             \A j \in DOMAIN q : j < i => q[j].key # q[i].key,
             IF is_small(q[i]) THEN b = Nobody \/ b.key # q[i].key ELSE b = Nobody
      PROVE  Queued(q[i]) /\ Leaves(b, q, encode_next(side, q[i]), bulk'[side], queue'[side])
  <2> DEFINE m == q[i]
             r == encode_next(side, m)
  <2>1. Queued(m) /\ m.offset = 0 /\ m.size \in Nat \ {0}
    BY <1>1 DEF Queued, Messages
  <2>2. /\ Comes(r, m) /\ r.offset = m.offset + 1
        /\ bulk'[side] = IF r.offset = r.size THEN (IF m.size = 1 THEN b ELSE Nobody) ELSE r
    BY <2>1, <1>6, EmitSends
  <2> HIDE DEF r
  <2>3. r.offset = 1 /\ r.size = m.size /\ r.key = m.key
    BY <2>1, <2>2 DEF Comes
  <2>4. IF Large(r) THEN b = Nobody /\ bulk'[side] = r
        ELSE bulk'[side] = b /\ (b = Nobody \/ b.key # r.key)
    BY <2>1, <2>2, <2>3, <1>6 DEF Large, is_small
  <2>5. LeavesQueue(b, q, r, bulk'[side], queue'[side], i)
    BY <2>2, <2>3, <2>4, <1>6 DEF LeavesQueue
  <2> QED  BY <2>1, <2>5 DEF Leaves, r
<1>7. CASE /\ Small(side) # {} /\ streak[side] < MaxStreak
           /\ streak' = [streak EXCEPT ![side] = @ + 1]
           /\ queue' = [queue EXCEPT ![side] = Without(@, First(Small(side)))]
           /\ Emit(side, queue[side][First(Small(side))]) /\ UNCHANGED control
  <2> DEFINE i == First(Small(side))
  <2>1. i \in Small(side)
    <3>1. Small(side) \subseteq Nat
      BY <1>1 DEF Small
    <3> QED  BY <3>1, <1>7, FirstIsOne
  <2>2. i \in 1 .. Len(q) /\ Overtakes(side, i)
    BY <2>1 DEF Small
  <2>3. queue'[side] = Without(q, i) /\ queue'[o] = queue[o] /\ Emit(side, q[i])
    BY <1>2, <1>7
  <2>4. queue' = [queue EXCEPT ![side] = Without(q, i)]
    BY <1>7
  <2> HIDE DEF i
  <2>5. Thinned(q, queue'[side], i) /\ queue' \in [Sides -> Seq(Messages)]
    <3>1. Without(q, i) \in Seq(Messages) /\ Thinned(q, Without(q, i), i)
      BY <2>2, <1>1, WithoutThins
    <3> QED  BY <3>1, <2>3, <2>4, <1>2
  <2>6. /\ \A j \in DOMAIN q : j < i => q[j].key # q[i].key
        /\ is_small(q[i]) /\ (b = Nobody \/ b.key # q[i].key)
    BY <2>2, <1>1 DEF Overtakes
  <2>7. Queued(q[i]) /\ Leaves(b, q, encode_next(side, q[i]), bulk'[side], queue'[side])
    BY <2>2, <2>3, <2>5, <2>6, <1>1, <1>6
  <2>8. streak' \in [Sides -> 0 .. MaxStreak] /\ control' \in [Sides -> Nat]
    BY <1>2, <1>7, LimitsAssumption
  <2> QED  BY <2>3, <2>5, <2>7, <2>8, <1>4
<1>8. CASE /\ streak' = [streak EXCEPT ![side] = 0] /\ UNCHANGED control
           /\ bulk[side] # Nobody /\ Emit(side, bulk[side]) /\ UNCHANGED queue
  <2>1. streak' \in [Sides -> 0 .. MaxStreak] /\ control' \in [Sides -> Nat]
    BY <1>2, <1>8, LimitsAssumption
  <2>2. b # Nobody /\ Emit(side, b) /\ queue'[side] = q /\ queue' = queue
    BY <1>8
  <2>3. b.id # 0 /\ b.size # 1 /\ b.size \in Nat
    BY <2>2, <1>1 DEF UnderWay, Sent, Messages
  <2>4. LET r == encode_next(side, b) IN
        /\ Comes(r, b) /\ r.offset = b.offset + 1 /\ r.id = b.id
        /\ bulk'[side] = IF r.offset = r.size THEN Nobody ELSE r
    BY <2>2, <2>3, EmitSends
  <2>5. Leaves(b, q, encode_next(side, b), bulk'[side], queue'[side])
    BY <2>2, <2>4 DEF Leaves, Resumed
  <2> QED  BY <2>1, <2>2, <2>5, <1>1, <1>2, <1>4
<1>9. CASE /\ streak' = [streak EXCEPT ![side] = 0] /\ UNCHANGED control
           /\ bulk[side] = Nobody /\ queue[side] # <<>>
           /\ queue' = [queue EXCEPT ![side] = Tail(@)] /\ Emit(side, Head(queue[side]))
  <2>1. streak' \in [Sides -> 0 .. MaxStreak] /\ control' \in [Sides -> Nat]
    BY <1>2, <1>9, LimitsAssumption
  <2>2. queue'[side] = Tail(q) /\ queue'[o] = queue[o]
    BY <1>2, <1>9
  <2>3. Thinned(q, queue'[side], 1) /\ queue' \in [Sides -> Seq(Messages)] /\ Head(q) = q[1]
    <3>1. Tail(q) \in Seq(Messages) /\ Thinned(q, Tail(q), 1) /\ Head(q) = q[1]
      BY <1>1, <1>9, TailThins
    <3> QED  BY <3>1, <2>2, <1>2, <1>9
  <2>4. 1 \in DOMAIN q /\ Emit(side, q[1]) /\ \A j \in DOMAIN q : ~(j < 1)
    BY <2>3, <1>1, <1>9 DEF Thinned
  <2>5. Queued(q[1]) /\ Leaves(b, q, encode_next(side, q[1]), bulk'[side], queue'[side])
    BY <2>3, <2>4, <1>6, <1>9
  <2> QED  BY <2>1, <2>2, <2>3, <2>4, <2>5, <1>4
<1> HIDE DEF q, b, o
<1> QED  BY <1>5, <1>7, <1>8, <1>9 DEF run, o

(* A run of the writer keeps the invariant.                                *)
LEMMA RunHolds ==
    ASSUME ChannelInv, NEW side \in Sides, run(side)
    PROVE  ChannelInv'
<1>1. UNCHANGED <<chan, appVars, texts, got, hubVars>>
  BY DEF run
<1>2. PICK r : EmitsRecord(side, r)
  BY RunEmits
<1>3. SameLine(Other(side)) /\ ChannelTypes'
  BY RunEmits
<1>4. \A s \in Sides : SameLine(s) \/ EmitsRecord(s, r)
  BY <1>2, <1>3 DEF Sides, Other
<1> USE <1>1 DEF appVars, hubVars
<1>5. CallTypes' /\ Waits'
  BY DEF ChannelInv, CallTypes, Waits
<1>6. StaysOff /\ CallsMove /\ TextsMove
  BY DEF StaysOff, On, CallsMove, Early, TextsMove
<1>7. OpensLess
  <2>1. "app" \in Sides
    BY DEF Sides
  <2> QED  BY <2>1, <1>4, OpensShrink DEF ChannelInv
<1>8. Opened' /\ OpensMove
  BY <1>6, <1>7, StillOpened DEF ChannelInv
<1>9. Taken' /\ SocketsKeepOrder' /\ HonestRecordsDecode'
  BY DEF ChannelInv, Taken, SocketsKeepOrder, HonestRecordsDecode
<1>10. \A s \in Sides, k \in Socks : Delivered(s, k)' = Delivered(s, k) /\ texts'[s][k] = texts[s][k]
  BY DEF Delivered
<1>11. \A s \in Sides, k \in Socks : StreamStep(s, k)
  BY <1>4, <1>6, <1>8, <1>10, AcceptsLess DEF StreamStep
<1>12. \A s \in Sides : LineStep(s)
  BY <1>4 DEF LineStep
<1> QED  BY <1>3, <1>5, <1>6, <1>8, <1>9, <1>11, <1>12, StepHolds

(* A message that is queued, and when it is no open and no text, or the    *)
(* next text, of a socket. *)
LEMMA MessageIsQueued ==
    ASSUME NEW key \in Calls, NEW kind \in Kinds, NEW size \in Nat \ {0}, NEW n \in Nat,
           kind = "http" => key \in Requests, kind \in {"open", "text", "close"} => key \in Socks,
           kind = "open" => n = 0 /\ size = 1, kind = "text" => n > 0
    PROVE  LET m == Message(key, kind, size, n) IN
           Queued(m) /\ m.key = key /\ m.kind = kind /\ m.n = n
BY DEF Message, Messages, Queued, OfItsKind

(* A message that is no open, queued last, comes after all of its socket.  *)
LEMMA EnqueueQueues ==
    ASSUME ChannelInv, NEW side \in Sides, NEW m, Queued(m), Enqueue(side, m),
           UNCHANGED <<net, bulk, next_id, chan>>,
           m.kind \notin {"open", "text"}
              \/ \E k \in Socks : TextOf(m, k) /\ m.n = texts[side][k] + 1
    PROVE  Queues(side, m) /\ SameLine(Other(side)) /\ queue' \in [Sides -> Seq(Messages)]
<1> DEFINE w == net[side]
           b == bulk[side]
           q == queue[side]
<1>1. /\ queue \in [Sides -> Seq(Messages)] /\ Other(side) \in Sides /\ Other(side) # side
  BY DEF ChannelInv, ChannelTypes, Other, Sides
<1>2. /\ queue' = [queue EXCEPT ![side] = Append(q, m)]
      /\ m \in Messages
  BY DEF Enqueue, Queued
<1>3. Append(q, m) \in Seq(Messages)
  BY <1>1, <1>2, AppendGrows
<1>4. /\ queue'[side] = Append(q, m) /\ queue' \in [Sides -> Seq(Messages)]
      /\ queue'[Other(side)] = queue[Other(side)]
  BY <1>1, <1>2, <1>3
<1>5. OnTheLine(w, b, q)
  BY DEF ChannelInv, LineSound
<1>6. /\ \A i \in DOMAIN w : WellBefore(w[i], m)
      /\ b # Nobody => WellBefore(b, m)
      /\ \A i \in DOMAIN q : WellBefore(q[i], m)
  <2>1. CASE m.kind \notin {"open", "text"}
    BY <2>1 DEF WellBefore, OfASocket
  <2>2. ASSUME NEW k \in Socks, TextOf(m, k), m.n = texts[side][k] + 1
        PROVE  /\ \A i \in DOMAIN w : WellBefore(w[i], m)
               /\ b # Nobody => WellBefore(b, m)
               /\ \A i \in DOMAIN q : WellBefore(q[i], m)
    <3> DEFINE t == texts[side][k]
    <3>1. t \in Nat /\ Numbered(w, b, q, k, t)
      BY DEF ChannelInv, StreamSound, CallTypes
    <3> HIDE DEF w, b, q, t
    <3>2. m.n = t + 1 /\ m.key = k
      BY <2>2 DEF t, TextOf
    <3>3. ASSUME NEW x, x.kind = "open" => x.n = 0, TextOf(x, k) => x.n <= t, x.n \in Nat
          PROVE  WellBefore(x, m)
      BY <3>1, <3>2, <3>3 DEF WellBefore, OfASocket, TextOf
    <3>4. /\ \A i \in DOMAIN w : (w[i].kind = "open" => w[i].n = 0) /\ w[i].n \in Nat
          /\ b # Nobody => (b.kind = "open" => b.n = 0) /\ b.n \in Nat
          /\ \A i \in DOMAIN q : (q[i].kind = "open" => q[i].n = 0) /\ q[i].n \in Nat
      BY <1>5 DEF OnTheLine, UnderWay, Sent, Queued, OfItsKind, Messages
    <3> QED  BY <3>1, <3>3, <3>4 DEF Numbered
  <2> QED  BY <2>1, <2>2
<1> QED  BY <1>4, <1>6 DEF Queues, SameLine, RestOfLine

(* A step that queues a message, which is no open, and delivers nothing. *)
LEMMA QueueStep ==
    ASSUME ChannelInv, NEW side \in Sides, NEW m, Queued(m), Enqueue(side, m), m.kind # "open",
           UNCHANGED <<mix, net, bulk, next_id, chan, control, streak, got, behind>>,
           \A s \in Sides, k \in Socks : 
              IF s = side /\ TextOf(m, k) THEN m.n = texts[s][k] + 1 /\ texts'[s][k] = texts[s][k] + 1
              ELSE texts'[s][k] = texts[s][k],
           CallTypes', Waits', StaysOff, CallsMove, TextsMove, open_sockets' \subseteq open_sockets
    PROVE  ChannelInv'
<1>1. Queues(side, m) /\ SameLine(Other(side)) /\ queue' \in [Sides -> Seq(Messages)]
  <2>1. m.kind = "text" => m.key \in Socks
    BY DEF Queued, OfItsKind
  <2>2. m.kind \notin {"open", "text"}
           \/ \E k \in Socks : TextOf(m, k) /\ m.n = texts[side][k] + 1
    BY <2>1 DEF TextOf
  <2> QED  BY <2>2, EnqueueQueues
<1>2. ChannelTypes'
  BY <1>1 DEF ChannelInv, ChannelTypes
<1>3. \A s \in Sides : IF s = side THEN Queues(s, m) ELSE SameLine(s)
  BY <1>1 DEF Sides, Other
<1>4. OpensLess
  <2>1. "app" \in Sides
    BY DEF Sides
  <2> QED  BY <2>1, <1>3, OpensShrink DEF ChannelInv
<1>5. Opened' /\ OpensMove
  BY <1>4, StillOpened DEF ChannelInv
<1>6. Taken' /\ SocketsKeepOrder' /\ HonestRecordsDecode'
  BY DEF ChannelInv, Taken, SocketsKeepOrder, HonestRecordsDecode
<1>7. \A s \in Sides, k \in Socks : Delivered(s, k)' = Delivered(s, k)
  BY DEF Delivered
<1>8. ASSUME NEW s \in Sides, NEW k \in Socks PROVE StreamStep(s, k)
  <2>1. Accepts(s, k)' => Accepts(s, k)
    BY <1>5, AcceptsLess
  <2>2. CASE s = side
    <3>1. /\ Queues(s, m) /\ (TextOf(m, k) => m.n = texts[s][k] + 1)
          /\ texts'[s][k] = IF TextOf(m, k) THEN texts[s][k] + 1 ELSE texts[s][k]
      BY <2>2, <1>1
    <3> QED  BY <2>1, <3>1, <1>7 DEF StreamStep
  <2>3. CASE s # side
    BY <2>1, <2>3, <1>3, <1>7 DEF StreamStep
  <2> QED  BY <2>2, <2>3
<1>9. \A s \in Sides : LineStep(s)
  BY <1>3 DEF LineStep
<1> QED  BY <1>2, <1>5, <1>6, <1>8, <1>9, StepHolds

(* A message has a fragment at least.                                      *)
LEMMA SizesAreNumbers == ASSUME ChannelInv PROVE mix.sizes \subseteq Nat \ {0}
BY SizesAssumption DEF ChannelInv, ChannelTypes

(* The texts that the app and a handler send. *)
LEMMA TextHolds ==
    ASSUME ChannelInv, NEW k \in Socks, NEW side \in Sides, NEW size \in mix.sizes,
           texts' = [texts EXCEPT ![side][k] = @ + 1],
           Enqueue(side, Message(k, "text", size, texts[side][k] + 1)),
           side = "app" => call[k] = "waiting", side = "hub" => k \in open_sockets,
           UNCHANGED <<mix, control, bulk, streak, next_id, net, chan, appVars, got, hubVars>>
    PROVE  ChannelInv'
<1> DEFINE m == Message(k, "text", size, texts[side][k] + 1)
<1> USE DEF appVars, hubVars
<1>1. texts \in [Sides -> [Socks -> Nat]] /\ texts[side][k] \in Nat
  BY DEF ChannelInv, CallTypes
<1>2. Queued(m) /\ m.key = k /\ m.kind = "text" /\ m.n = texts[side][k] + 1
  <2>1. size \in Nat \ {0} /\ texts[side][k] + 1 \in Nat /\ texts[side][k] + 1 > 0 /\ k \in Calls
    BY <1>1, SizesAreNumbers DEF Calls
  <2> QED  BY <2>1, MessageIsQueued DEF Kinds
<1> HIDE DEF m
<1>3. \A s \in Sides, j \in Socks :
         IF s = side /\ TextOf(m, j) THEN m.n = texts[s][j] + 1 /\ texts'[s][j] = texts[s][j] + 1
         ELSE texts'[s][j] = texts[s][j]
  BY <1>1, <1>2 DEF TextOf
<1>4. CallTypes' /\ Waits'
  BY <1>1 DEF ChannelInv, CallTypes, Waits
<1>5. StaysOff /\ CallsMove
  BY DEF StaysOff, On, CallsMove, Early
<1>6. TextsMove
  BY <1>1 DEF TextsMove, Sides, ChannelInv, Opened, Early
<1> QED  BY <1>2, <1>3, <1>4, <1>5, <1>6, QueueStep DEF m

(* A text of the app, on a socket it waits for, and of a handler, on a     *)
(* socket that is open.                                                    *)
LEMMA SocketTextHolds ==
    ASSUME ChannelInv, NEW k \in Socks, socket_text(k) \/ HandlerSends(k)
    PROVE  ChannelInv'
<1>1. CASE socket_text(k)
  <2>1. PICK size \in mix.sizes : Enqueue("app", Message(k, "text", size, texts["app"][k] + 1))
    BY <1>1 DEF socket_text
  <2> QED  BY <1>1, <2>1, TextHolds DEF socket_text, Sides
<1>2. CASE HandlerSends(k)
  <2>1. PICK size \in mix.sizes : Enqueue("hub", Message(k, "text", size, texts["hub"][k] + 1))
    BY <1>2 DEF HandlerSends
  <2> QED  BY <1>2, <2>1, TextHolds DEF HandlerSends, Sides
<1> QED  BY <1>1, <1>2

(* The end of a handler, and the answer to a request. *)
LEMMA AnswerHolds ==
    ASSUME ChannelInv,
           (\E k \in Socks : HandlerEnds(k)) \/ (\E r \in Requests : HttpDone(r))
    PROVE  ChannelInv'
<1> USE DEF appVars, hubVars
<1>1. PICK key \in Calls, kind \in {"closed", "http"}, size \in Nat \ {0} :
         /\ Enqueue("hub", Message(key, kind, size, 0)) /\ (kind = "http" => key \in Requests)
  <2>1. \A c \in Requests \cup Socks : c \in Calls
    BY DEF Calls
  <2>2. ASSUME NEW k \in Socks, HandlerEnds(k)
        PROVE  k \in Calls /\ 1 \in Nat \ {0} /\ Enqueue("hub", Message(k, "closed", 1, 0))
    BY <2>1, <2>2 DEF HandlerEnds
  <2>3. ASSUME NEW r \in Requests, HttpDone(r)
        PROVE  r \in Calls /\ \E size \in Nat \ {0} : Enqueue("hub", Message(r, "http", size, 0))
    BY <2>1, <2>3, SizesAreNumbers DEF HttpDone
  <2> QED  BY <2>2, <2>3
<1>2. /\ UNCHANGED <<mix, net, bulk, next_id, chan, control, streak, got, behind, texts, appVars, serving>>
      /\ open_sockets' \subseteq open_sockets /\ tasks' \subseteq tasks
  BY DEF HandlerEnds, HttpDone
<1> DEFINE m == Message(key, kind, size, 0)
<1>3. Queued(m) /\ m.kind = kind
  BY <1>1, MessageIsQueued DEF Kinds
<1> HIDE DEF m
<1>4. m.kind # "open" /\ \A j \in Socks : ~TextOf(m, j)
  BY <1>3 DEF TextOf
<1>5. CallTypes' /\ Waits'
  BY <1>2 DEF ChannelInv, CallTypes, Waits
<1>6. StaysOff /\ CallsMove /\ TextsMove
  BY <1>2 DEF StaysOff, On, CallsMove, Early, TextsMove
<1>7. Enqueue("hub", m) /\ "hub" \in Sides
  BY <1>1 DEF m, Sides
<1> QED  BY <1>2, <1>3, <1>4, <1>5, <1>6, <1>7, QueueStep

(* A call queues its request or its open once it has seen that the client  *)
(* is not closed. The open of a socket is the first message of it.         *)
LEMMA OpenHolds ==
    ASSUME ChannelInv, NEW c \in Socks, call[c] = "checked", ~closed, call' = [call EXCEPT ![c] = "waiting"],
           Enqueue("app", Message(c, "open", 1, 0)),
           UNCHANGED <<mix, control, bulk, streak, next_id, net, chan, entries, closed, drained, texts, got, hubVars>>
    PROVE  ChannelInv'
<1> DEFINE m == Message(c, "open", 1, 0)
<1> USE DEF hubVars
<1>1. Queued(m) /\ m.key = c /\ m.kind = "open" /\ m.n = 0
  <2>1. c \in Calls /\ 1 \in Nat \ {0} /\ 0 \in Nat
    BY DEF Calls
  <2> QED  BY <2>1, MessageIsQueued DEF Kinds
<1>2. Enqueue("app", m) /\ "app" \in Sides /\ Other("app") = "hub"
  BY DEF Sides, Other
<1> HIDE DEF m
<1>3. texts["app"][c] = 0 /\ ~OpenOnTheWay(c) /\ c \notin open_sockets
  BY DEF ChannelInv, Opened, Early
<1> DEFINE w == net["app"]
           b == bulk["app"]
           q == queue["app"]
<1>4. /\ queue \in [Sides -> Seq(Messages)] /\ OnTheLine(w, b, q) /\ Numbered(w, b, q, c, 0)
      /\ q \in Seq(Messages)
  BY <1>2, <1>3 DEF ChannelInv, ChannelTypes, LineSound, StreamSound
<1>5. /\ queue'["app"] = Append(q, m) /\ queue' \in [Sides -> Seq(Messages)]
      /\ queue'["hub"] = queue["hub"] /\ Grown(q, queue'["app"], m)
  <2>1. m \in Messages /\ queue' = [queue EXCEPT !["app"] = Append(q, m)]
    BY <1>1, <1>2 DEF Enqueue, Queued
  <2>2. Append(q, m) \in Seq(Messages) /\ Grown(q, Append(q, m), m)
    BY <2>1, <1>4, AppendGrows
  <2> QED  BY <2>1, <2>2, <1>4 DEF Sides
<1>6. /\ \A i \in DOMAIN w : ~(w[i].key = c /\ w[i].kind \in {"open", "text"})
      /\ \A i \in DOMAIN q : ~(q[i].key = c /\ q[i].kind \in {"open", "text"})
      /\ b # Nobody => ~(b.key = c /\ b.kind \in {"open", "text"})
  <2>1. /\ \A i \in DOMAIN w : ~OpenOf(w[i], c)
        /\ \A i \in DOMAIN q : ~OpenOf(q[i], c)
    BY <1>3 DEF OpenOnTheWay
  <2> HIDE DEF w, b, q
  <2>2. /\ \A i \in DOMAIN w : w[i].kind = "text" => w[i].n > 0 /\ w[i].n \in Nat
        /\ \A i \in DOMAIN q : q[i].kind = "text" => q[i].n > 0 /\ q[i].n \in Nat
        /\ b # Nobody => (b.kind = "text" => b.n > 0 /\ b.n \in Nat) /\ b.kind # "open"
    BY <1>4 DEF OnTheLine, UnderWay, Sent, Queued, OfItsKind, Messages
  <2> QED  BY <2>1, <2>2, <1>4 DEF Numbered, TextOf, OpenOf
<1>7. Queues("app", m) /\ SameLine("hub")
  <2>1. /\ \A i \in DOMAIN w : WellBefore(w[i], m)
        /\ b # Nobody => WellBefore(b, m)
        /\ \A i \in DOMAIN q : WellBefore(q[i], m)
    BY <1>1, <1>6 DEF WellBefore, OfASocket
  <2> QED  BY <2>1, <1>1, <1>5 DEF Queues, SameLine, RestOfLine
<1>8. ASSUME NEW k \in Socks, k # c PROVE OpenOnTheWay(k)' => OpenOnTheWay(k)
  <2>1. \A i \in DOMAIN queue'["app"] : queue'["app"][i] = m \/ (i \in DOMAIN q /\ queue'["app"][i] = q[i])
    <3>1. \A i \in DOMAIN queue'["app"] : i \in DOMAIN q \/ i = Len(q) + 1
      BY <1>5 DEF Grown
    <3> QED  BY <3>1, <1>5 DEF Grown
  <2> QED  BY <2>1, <1>1, <1>8 DEF OpenOnTheWay, OpenOf
<1>9. call'[c] = "waiting" /\ \A k \in Socks : k # c => call'[k] = call[k]
  BY DEF ChannelInv, CallTypes, Calls
<1>10. CallsMove
  BY <1>9 DEF CallsMove, Early
<1>11. OpensMove
  BY <1>8 DEF OpensMove, Early
<1>12. Opened'
  <2> SUFFICES ASSUME NEW k \in Socks
               PROVE  /\ Early(k)' => texts["app"][k] = 0 /\ ~OpenOnTheWay(k)' /\ k \notin open_sockets
                      /\ call'[k] = "idle" => texts["hub"][k] = 0
                      /\ k \in open_sockets => ~OpenOnTheWay(k)'
    BY DEF Opened
  <2>1. CASE k = c
    BY <2>1, <1>3, <1>9 DEF Early
  <2>2. CASE k # c
    BY <2>2, <1>8, <1>9 DEF Early, ChannelInv, Opened
  <2> QED  BY <2>1, <2>2
<1>13. ChannelTypes'
  BY <1>5 DEF ChannelInv, ChannelTypes
<1>14. CallTypes' /\ Waits'
  BY DEF ChannelInv, CallTypes, Waits, Calls
<1>15. Taken' /\ SocketsKeepOrder' /\ HonestRecordsDecode' /\ StaysOff
  BY DEF ChannelInv, Taken, SocketsKeepOrder, HonestRecordsDecode, StaysOff, On
<1>16. \A s \in Sides, k \in Socks : /\ Delivered(s, k)' = Delivered(s, k) /\ texts'[s][k] = texts[s][k]
                                     /\ ~TextOf(m, k)
  BY <1>1 DEF Delivered, TextOf
<1>17. \A s \in Sides : (s = "app" /\ Queues(s, m)) \/ SameLine(s)
  BY <1>7 DEF Sides
<1>18. \A s \in Sides, k \in Socks : StreamStep(s, k)
  BY <1>10, <1>11, <1>16, <1>17, AcceptsLess DEF StreamStep
<1>19. \A s \in Sides : LineStep(s)
  BY <1>17 DEF LineStep
<1> QED  BY <1>12, <1>13, <1>14, <1>15, <1>18, <1>19, StepHolds

(* A call looks whether the client is closed, then queues its request or   *)
(* open, or fails.                                                         *)
LEMMA SendHolds ==
    ASSUME ChannelInv, NEW c \in Calls, send(c)
    PROVE  ChannelInv'
<1> USE DEF hubVars
<1>1. UNCHANGED <<mix, control, bulk, streak, next_id, net, chan, closed, drained, texts, got, hubVars>>
  BY DEF send
<1>2. CASE call[c] = "inserted" /\ ~closed /\ call' = [call EXCEPT ![c] = "checked"] /\ UNCHANGED <<queue, entries>>
  BY <1>1, <1>2, CallEnds DEF ChannelInv, CallTypes, outVars
<1>3. CASE call[c] \in {"inserted", "checked"} /\ closed
           /\ call' = [call EXCEPT ![c] = "failed"] /\ entries' = entries \ {c} /\ UNCHANGED queue
  BY <1>1, <1>3, CallEnds DEF ChannelInv, CallTypes, outVars
<1>4. ASSUME call[c] = "checked", ~closed, call' = [call EXCEPT ![c] = "waiting"], UNCHANGED entries,
             NEW size \in mix.sizes,
             Enqueue("app", Message(c, IF c \in Requests THEN "http" ELSE "open",
                                    IF c \in Requests THEN size ELSE 1, 0))
      PROVE  ChannelInv'
  <2>1. CASE c \in Requests
    <3> DEFINE m == Message(c, "http", size, 0)
    <3>1. Queued(m) /\ m.kind = "http"
      <4>1. size \in Nat \ {0}
        BY SizesAreNumbers
      <4> QED  BY <4>1, <2>1, MessageIsQueued DEF Kinds
    <3>2. Enqueue("app", m)
      BY <1>4, <2>1
    <3> HIDE DEF m
    <3>3. c \notin Socks
      BY <2>1, CallsAssumption
    <3>4. m.kind # "open" /\ \A k \in Socks : ~TextOf(m, k)
      BY <3>1 DEF TextOf
    <3>5. CallTypes' /\ Waits'
      BY <1>1, <1>4 DEF ChannelInv, CallTypes, Waits
    <3>6. StaysOff /\ TextsMove
      BY <1>1 DEF StaysOff, On, TextsMove
    <3>7. CallsMove
      BY <3>3, <1>4 DEF CallsMove, Early, ChannelInv, CallTypes, Calls
    <3>8. "app" \in Sides
      BY DEF Sides
    <3> QED  BY <3>1, <3>2, <3>4, <3>5, <3>6, <3>7, <3>8, <1>1, QueueStep
  <2>2. CASE c \notin Requests
    <3>1. c \in Socks /\ Enqueue("app", Message(c, "open", 1, 0))
      BY <1>4, <2>2 DEF Calls
    <3> QED  BY <3>1, <1>1, <1>4, OpenHolds
  <2> QED  BY <2>1, <2>2
<1> QED  BY <1>2, <1>3, <1>4 DEF send

(* The app forgets a socket and tells the hub unless it is closed.         *)
LEMMA CloseSocketHolds ==
    ASSUME ChannelInv, NEW k \in Socks, close_socket(k)
    PROVE  ChannelInv'
<1> USE DEF hubVars
<1>1. /\ call[k] = "waiting" /\ k \in entries /\ entries' = entries \ {k} /\ call' = [call EXCEPT ![k] = "ended"]
      /\ UNCHANGED <<mix, control, bulk, streak, next_id, net, chan, closed, drained, texts, got, hubVars>>
      /\ k \in Calls
  BY DEF close_socket, Calls
<1>2. CASE closed
  <2>1. UNCHANGED queue
    BY <1>2 DEF close_socket
  <2> QED  BY <1>1, <2>1, CallEnds DEF ChannelInv, CallTypes, outVars
<1>3. CASE ~closed
  <2> DEFINE m == Message(k, "close", 1, 0)
  <2>1. Enqueue("app", m)
    BY <1>3 DEF close_socket
  <2>2. Queued(m) /\ m.kind = "close"
    <3>1. 1 \in Nat \ {0} /\ 0 \in Nat
      OBVIOUS
    <3> QED  BY <3>1, <1>1, MessageIsQueued DEF Kinds
  <2> HIDE DEF m
  <2>3. m.kind # "open" /\ \A j \in Socks : ~TextOf(m, j)
    BY <2>2 DEF TextOf
  <2>4. CallTypes' /\ Waits'
    BY <1>1 DEF ChannelInv, CallTypes, Waits
  <2>5. StaysOff /\ TextsMove
    BY <1>1 DEF StaysOff, On, TextsMove
  <2>6. CallsMove
    BY <1>1 DEF CallsMove, Early, ChannelInv, CallTypes, Calls
  <2>7. "app" \in Sides
    BY DEF Sides
  <2> QED  BY <2>1, <2>2, <2>3, <2>4, <2>5, <2>6, <2>7, <1>1, QueueStep
<1> QED  BY <1>2, <1>3

(* A request that is not answered closes the client.                       *)
LEMMA TimeoutHolds ==
    ASSUME ChannelInv, NEW c \in Calls, RequestTimesOut(c)
    PROVE  ChannelInv'
BY CallEnds DEF RequestTimesOut, ChannelInv, CallTypes

(* The end of a side: its writer stops, and the app's end also takes the   *)
(* records of both.                                                        *)
LEMMA StopHolds ==
    ASSUME ChannelInv, ChannelTypes', CallTypes', Waits', HonestRecordsDecode',
           StaysOff, CallsMove, \A s \in Sides : Stops(s), UNCHANGED <<texts, got>>,
           open_sockets' \subseteq open_sockets,
           behind' = behind \/ (behind' = [k \in Socks |-> <<>>] /\ serving' = "gone")
    PROVE  ChannelInv'
<1>1. OpensLess /\ TextsMove
  BY OpensShrink DEF ChannelInv, Sides, TextsMove
<1>2. Opened' /\ OpensMove
  BY <1>1, StillOpened DEF ChannelInv
<1>3. DOMAIN <<>> = {} /\ Len(<<>>) = 0
  <2>1. <<>> \in Seq({}) /\ Len(<<>>) = 0
    OBVIOUS
  <2>2. \A s \in Seq({}) : DOMAIN s = 1 .. Len(s)
    OBVIOUS
  <2> QED  BY <2>1, <2>2
<1>4. Taken' /\ SocketsKeepOrder'
  BY <1>3 DEF ChannelInv, Taken, SocketsKeepOrder
<1>5. ASSUME NEW s \in Sides, NEW k \in Socks PROVE StreamStep(s, k)
  <2>1. Accepts(s, k)' => Accepts(s, k)
    BY <1>2, AcceptsLess
  <2>2. Delivered(s, k) \in Nat /\ Delivered(s, k)' \in Nat
    BY DEF ChannelInv, CallTypes, Delivered, Sides
  <2>3. Delivered(s, k)' <= Delivered(s, k) /\ (On(Other(s))' => Delivered(s, k)' = Delivered(s, k))
    <3>1. CASE behind' = behind
      <4>1. Delivered(s, k)' = Delivered(s, k)
        BY <3>1 DEF Delivered
      <4> QED  BY <4>1, <2>2
    <3>2. CASE behind' = [j \in Socks |-> <<>>] /\ serving' = "gone"
      <4>1. CASE s = "hub"
        <5>1. Delivered(s, k)' = Delivered(s, k)
          BY <4>1 DEF Delivered
        <5> QED  BY <5>1, <2>2
      <4>2. CASE s = "app"
        <5>1. Len(behind'[k]) = 0 /\ got' = got
          BY <3>2, <1>3
        <5>2. Len(got["hub"][k]) \in Nat /\ Len(behind[k]) \in Nat
          BY DEF ChannelInv, CallTypes, Sides
        <5>3. ~On(Other(s))'
          BY <3>2, <4>2 DEF On, Other
        <5>4. Delivered(s, k)' = Len(got["hub"][k]) + 0 /\ Delivered(s, k) = Len(got["hub"][k]) + Len(behind[k])
          BY <5>1, <4>2 DEF Delivered
        <5>5. Delivered(s, k)' <= Delivered(s, k)
          <6> DEFINE x == Len(got["hub"][k])
                     y == Len(behind[k])
          <6>1. x \in Nat /\ y \in Nat /\ Delivered(s, k)' = x + 0 /\ Delivered(s, k) = x + y
            BY <5>2, <5>4
          <6> HIDE DEF x, y
          <6> QED  BY <6>1
        <5> QED  BY <5>3, <5>5
      <4> QED  BY <4>1, <4>2 DEF Sides
    <3> QED  BY <3>1, <3>2
  <2> QED  BY <2>1, <2>2, <2>3 DEF StreamStep
<1>6. \A s \in Sides : LineStep(s)
  BY DEF LineStep
<1> QED  BY <1>2, <1>4, <1>5, <1>6, StepHolds

(* The hub stops serving: its writer is emptied, and its records stay. *)
LEMMA StopServingHolds ==
    ASSUME ChannelInv, RevocationTick \/ HubNotices
    PROVE  ChannelInv'
<1>1. /\ serving' = "gone" /\ open_sockets' = {} /\ tasks' = {} /\ behind' = [k \in Socks |-> <<>>]
      /\ queue' = [queue EXCEPT !["hub"] = <<>>] /\ control' = [control EXCEPT !["hub"] = 0]
      /\ bulk' = [bulk EXCEPT !["hub"] = Nobody] /\ streak' = [streak EXCEPT !["hub"] = 0]
      /\ UNCHANGED <<mix, next_id, net, chan, call, entries, closed, drained, texts, got, revoked, pings>>
  BY DEF RevocationTick, HubNotices, StopServing, StopWriter, appVars
<1>2. /\ ~On("hub")' /\ Other("app") = "hub" /\ Other("hub") = "app" /\ Sides = {"app", "hub"}
      /\ <<>> \in Seq(Messages) /\ <<>> \in Seq(Nat) /\ 0 \in 0 .. MaxStreak /\ "app" # "hub"
  BY <1>1, LimitsAssumption DEF On, Other, Sides
<1>3. ChannelTypes' /\ CallTypes' /\ Waits' /\ HonestRecordsDecode'
  <2>1. ChannelTypes'
    BY <1>1, <1>2 DEF ChannelInv, ChannelTypes
  <2>2. CallTypes'
    BY <1>1, <1>2 DEF ChannelInv, CallTypes
  <2>3. Waits' /\ HonestRecordsDecode'
    BY <1>1 DEF ChannelInv, Waits, HonestRecordsDecode
  <2> QED  BY <2>1, <2>2, <2>3
<1>4. StaysOff /\ CallsMove
  BY <1>1, <1>2 DEF StaysOff, On, CallsMove, Early
<1>5. \A s \in Sides : Stops(s)
  <2>1. Stops("app")
    <3>1. queue'["app"] = queue["app"] /\ bulk'["app"] = bulk["app"]
      BY <1>1, <1>2 DEF ChannelInv, ChannelTypes
    <3> QED  BY <3>1, <1>1, <1>2 DEF Stops
  <2>2. Stops("hub")
    <3>1. queue'["hub"] = <<>> /\ bulk'["hub"] = Nobody
      BY <1>1, <1>2 DEF ChannelInv, ChannelTypes
    <3> QED  BY <3>1, <1>1, <1>2 DEF Stops
  <2> QED  BY <2>1, <2>2, <1>2
<1> QED  BY <1>1, <1>3, <1>4, <1>5, StopHolds

(* The connection ends: nothing of either side arrives any more. *)
LEMMA ConnectionEndsHolds ==
    ASSUME ChannelInv, ConnectionEnds
    PROVE  ChannelInv'
<1>1. /\ closed' = TRUE /\ net' = [s \in Sides |-> <<>>]
      /\ UNCHANGED <<mix, queue, control, bulk, streak, next_id, chan, call, entries, drained, texts, got>>
      /\ UNCHANGED hubVars
  BY DEF ConnectionEnds
<1>2. /\ ~On("app")' /\ Other("app") = "hub" /\ Other("hub") = "app" /\ Sides = {"app", "hub"}
      /\ <<>> \in Seq(Messages)
  BY <1>1 DEF On, Other, Sides
<1>3. ChannelTypes' /\ CallTypes' /\ Waits' /\ HonestRecordsDecode'
  <2>1. ChannelTypes'
    BY <1>1, <1>2 DEF ChannelInv, ChannelTypes
  <2>2. CallTypes' /\ Waits'
    BY <1>1 DEF ChannelInv, CallTypes, hubVars, Waits
  <2> QED  BY <2>1, <2>2, <1>1 DEF ChannelInv, HonestRecordsDecode
<1>4. StaysOff /\ CallsMove
  BY <1>1, <1>2 DEF StaysOff, On, CallsMove, Early, hubVars
<1>5. \A s \in Sides : Stops(s)
  <2>1. \A s \in Sides : net'[s] = <<>> /\ (~On(s)' \/ ~On(Other(s))')
    BY <1>1, <1>2
  <2> QED  BY <2>1, <1>1 DEF Stops
<1> QED  BY <1>1, <1>3, <1>4, <1>5, StopHolds DEF hubVars

(* A client that has failed empties its maps: who waits has an entry, so   *)
(* nobody is left waiting.                                                 *)
LEMMA FailHolds ==
    ASSUME ChannelInv, fail
    PROVE  ChannelInv'
<1>1. /\ closed' = TRUE /\ closed /\ ~drained /\ drained' = TRUE /\ entries' = {}
      /\ call' = [c \in Calls |-> IF c \in entries /\ call[c] = "waiting" THEN "failed" ELSE call[c]]
      /\ queue' = [queue EXCEPT !["app"] = <<>>] /\ control' = [control EXCEPT !["app"] = 0]
      /\ bulk' = [bulk EXCEPT !["app"] = Nobody] /\ streak' = [streak EXCEPT !["app"] = 0]
      /\ net' = [s \in Sides |-> <<>>]
      /\ UNCHANGED <<mix, next_id, chan, texts, got>>
      /\ UNCHANGED hubVars
  BY DEF fail, Drain, StopWriter
<1>2. /\ ~On("app")' /\ Other("app") = "hub" /\ Other("hub") = "app" /\ Sides = {"app", "hub"}
      /\ <<>> \in Seq(Messages) /\ 0 \in 0 .. MaxStreak /\ "app" # "hub"
  BY <1>1, LimitsAssumption DEF On, Other, Sides
<1>3. ChannelTypes' /\ CallTypes' /\ Waits' /\ HonestRecordsDecode'
  <2>1. ChannelTypes'
    BY <1>1, <1>2 DEF ChannelInv, ChannelTypes
  <2>2. CallTypes'
    <3>1. call' \in [Calls -> {"idle", "inserted", "checked", "waiting", "answered", "failed", "ended"}]
      BY <1>1 DEF ChannelInv, CallTypes
    <3> QED  BY <1>1, <3>1 DEF ChannelInv, CallTypes, hubVars
  <2>3. Waits'
    BY <1>1 DEF ChannelInv, CallTypes, Waits
  <2> QED  BY <2>1, <2>2, <2>3, <1>1 DEF ChannelInv, HonestRecordsDecode
<1>4. StaysOff /\ CallsMove
  <2>1. StaysOff
    BY <1>1, <1>2 DEF StaysOff, On, hubVars
  <2>2. CallsMove
    BY <1>1 DEF CallsMove, Early, Calls
  <2> QED  BY <2>1, <2>2
<1>5. \A s \in Sides : Stops(s)
  <2>1. \A s \in Sides : net'[s] = <<>> /\ (~On(s)' \/ ~On(Other(s))')
    BY <1>1, <1>2
  <2>2. /\ queue'["app"] = <<>> /\ bulk'["app"] = Nobody
        /\ queue'["hub"] = queue["hub"] /\ bulk'["hub"] = bulk["hub"]
    BY <1>1, <1>2 DEF ChannelInv, ChannelTypes
  <2> QED  BY <2>1, <2>2, <1>1, <1>2 DEF Stops
<1> QED  BY <1>1, <1>3, <1>4, <1>5, StopHolds DEF hubVars

(* A record that is read has been decoded: the peer followed the protocol. *)
LEMMA ReadDecodes ==
    ASSUME ChannelInv, NEW side \in Sides, Read(side)
    PROVE  /\ Record(side) = net[Other(side)][1] /\ Sent(Record(side)) /\ On(side)
           /\ Arrived(side).done = IF Record(side).offset = Record(side).size THEN {Record(side)} ELSE {}
           /\ ~Arrived(side).state.failed
           /\ net[Other(side)] # <<>> /\ net'[Other(side)] = Tail(net[Other(side)]) /\ net'[side] = net[side]
           /\ chan'[side] = Reads(chan[side], Record(side)) /\ chan'[Other(side)] = chan[Other(side)]
           /\ net' \in [Sides -> Seq(Messages)]
           /\ chan' \in [Sides -> [last_started : Nat, pending : SUBSET [id : Nat, got : Nat], failed : BOOLEAN]]
           /\ HonestRecordsDecode'
<1> DEFINE s == Other(side)
           w == net[s]
           c == chan[side]
<1>1. s \in Sides /\ Other(s) = side /\ s # side
  BY DEF Sides, Other
<1> HIDE DEF s
<1>2. /\ w # <<>> /\ Alive(side) /\ ~c.failed
      /\ net' = [net EXCEPT ![s] = Tail(@)] /\ chan' = [chan EXCEPT ![side] = Arrived(side).state]
      /\ Record(side) = Head(w) /\ Arrived(side) = decode(c, Head(w))
  BY DEF Read, Record, Arrived, s
<1>3. On(side)
  BY <1>2 DEF Alive, On, Sides
<1>4. /\ w \in Seq(Messages)
      /\ c \in [last_started : Nat, pending : SUBSET [id : Nat, got : Nat], failed : BOOLEAN]
      /\ net \in [Sides -> Seq(Messages)]
      /\ chan \in [Sides -> [last_started : Nat, pending : SUBSET [id : Nat, got : Nat], failed : BOOLEAN]]
  BY <1>1 DEF ChannelInv, ChannelTypes
<1>5. /\ OnTheLine(w, bulk[s], queue[s])
      /\ Fragments(w, bulk[s], next_id[s], c, On(s))
  BY <1>1, <1>3 DEF ChannelInv, LineSound
<1> HIDE DEF w, c
<1>6. Tail(w) \in Seq(Messages) /\ Thinned(w, Tail(w), 1) /\ Head(w) = w[1]
  BY <1>2, <1>4, TailThins
<1>7. 1 \in DOMAIN w /\ DOMAIN w \subseteq Nat \ {0} /\ Sent(w[1])
  BY <1>5, <1>6 DEF Thinned, OnTheLine
<1>8. /\ decode(c, w[1]).state = Reads(c, w[1])
      /\ decode(c, w[1]).done = IF w[1].offset = w[1].size THEN {w[1]} ELSE {}
      /\ Reads(c, w[1]) \in [last_started : Nat, pending : SUBSET [id : Nat, got : Nat], failed : BOOLEAN]
      /\ ~Reads(c, w[1]).failed
  <2>1. Starts(w, c.pending) /\ IdsAscend(w, c.last_started, next_id[s])
    BY <1>5 DEF Fragments
  <2> QED  BY <2>1, <1>2, <1>4, <1>7, RecordDecodes
<1>9. /\ net'[s] = Tail(w) /\ net'[side] = net[side] /\ net' \in [Sides -> Seq(Messages)]
  BY <1>1, <1>2, <1>4, <1>6 DEF w
<1>10. /\ chan'[side] = Reads(c, w[1]) /\ chan'[s] = chan[s]
       /\ chan' \in [Sides -> [last_started : Nat, pending : SUBSET [id : Nat, got : Nat], failed : BOOLEAN]]
  <2>1. chan' = [chan EXCEPT ![side] = Reads(c, w[1])]
    BY <1>2, <1>6, <1>8
  <2> QED  BY <2>1, <1>1, <1>4, <1>8
<1>11. HonestRecordsDecode'
  <2>1. \A t \in Sides : t = side \/ chan'[t] = chan[t]
    BY <1>1, <1>10 DEF Sides
  <2> QED  BY <2>1, <1>8, <1>10 DEF HonestRecordsDecode, ChannelInv
<1>12. /\ Record(side) = w[1] /\ Arrived(side).done = (IF w[1].offset = w[1].size THEN {w[1]} ELSE {})
       /\ ~Arrived(side).state.failed
  BY <1>2, <1>6, <1>8
<1> QED  BY <1>2, <1>3, <1>7, <1>9, <1>10, <1>11, <1>12 DEF w, c, s

(* What a read does to the lines; the hub may queue an answer at once.     *)
AnswersAtMost(side) ==
    \/ queue' = queue
    \/ \E m : Queued(m) /\ m.kind \notin {"open", "text"} /\ Enqueue(side, m)
(* The line that is read loses its first record; the other may get an      *)
(* answer.                                                                 *)
LEMMA ReadLines ==
    ASSUME ChannelInv, NEW side \in Sides, Read(side), UNCHANGED <<bulk, next_id>>, AnswersAtMost(side)
    PROVE  /\ ReadsOne(Other(side))
           /\ SameLine(side) \/ \E m : Queues(side, m) /\ m.kind \notin {"open", "text"}
           /\ queue' \in [Sides -> Seq(Messages)] /\ OpensLess
<1> DEFINE s == Other(side)
<1>1. s \in Sides /\ Other(s) = side /\ s # side /\ Sides = {side, s}
  BY DEF Sides, Other
<1>2. queue \in [Sides -> Seq(Messages)] /\ LineSound("app")
  BY DEF ChannelInv, ChannelTypes, Sides
<1>3. /\ queue' \in [Sides -> Seq(Messages)] /\ queue'[s] = queue[s]
      /\ queue'[side] = queue[side]
           \/ \E m : Queued(m) /\ m.kind \notin {"open", "text"} /\ queue'[side] = Append(queue[side], m)
  <2>1. CASE queue' = queue
    BY <2>1, <1>2
  <2>2. ASSUME NEW m, Queued(m), m.kind \notin {"open", "text"}, Enqueue(side, m)
        PROVE  /\ queue' \in [Sides -> Seq(Messages)] /\ queue'[s] = queue[s]
               /\ queue'[side] = Append(queue[side], m)
    <3>1. m \in Messages /\ queue' = [queue EXCEPT ![side] = Append(queue[side], m)]
      BY <2>2 DEF Queued, Enqueue
    <3>2. queue[side] \in Seq(Messages)
      BY <1>2
    <3>3. Append(queue[side], m) \in Seq(Messages)
      BY <3>1, <3>2, AppendGrows
    <3> QED  BY <3>1, <3>3, <1>1, <1>2
  <2> QED  BY <2>1, <2>2 DEF AnswersAtMost
<1>4. ReadsOne(s)
  BY <1>1, <1>3, ReadDecodes DEF ReadsOne, RestOfLine
<1>5. SameLine(side) \/ \E m : Queues(side, m) /\ m.kind \notin {"open", "text"}
  <2>1. net'[side] = net[side] /\ chan'[s] = chan[s] /\ RestOfLine(side)
    BY ReadDecodes DEF RestOfLine
  <2>2. CASE queue'[side] = queue[side]
    BY <2>1, <2>2 DEF SameLine
  <2>3. ASSUME NEW m, Queued(m), m.kind \notin {"open", "text"}, queue'[side] = Append(queue[side], m)
        PROVE  Queues(side, m)
    <3>1. \A o : WellBefore(o, m)
      BY <2>3 DEF WellBefore, OfASocket
    <3> QED  BY <2>1, <2>3, <3>1 DEF Queues
  <2> QED  BY <1>3, <2>2, <2>3
<1>6. OpensLess
  <2>1. CASE side = "app"
    BY <2>1, <1>2, <1>5, OpensShrink
  <2>2. CASE s = "app"
    BY <2>2, <1>2, <1>4, OpensShrink
  <2> QED  BY <2>1, <2>2, <1>1 DEF Sides
<1> QED  BY <1>3, <1>4, <1>5, <1>6 DEF s

(* A read keeps the invariant when what it completes is delivered, or goes *)
(* to a socket that takes no more.                                         *)
LEMMA ReadStep ==
    ASSUME ChannelInv, NEW side \in Sides, Read(side), AnswersAtMost(side),
           UNCHANGED <<mix, bulk, streak, next_id, texts, closed, serving>>, control' \in [Sides -> Nat],
           CallTypes', Waits', Opened', Taken', SocketsKeepOrder', CallsMove, OpensMove,
           \A k \in Socks : Delivered(side, k)' = Delivered(side, k),
           \A k \in Socks :
              IF Completes(Other(side), k)
              THEN \/ Delivered(Other(side), k)' = Delivered(Other(side), k) + 1 /\ Accepts(Other(side), k)
                   \/ Delivered(Other(side), k)' = Delivered(Other(side), k) /\ ~Accepts(Other(side), k)'
              ELSE Delivered(Other(side), k)' = Delivered(Other(side), k)
    PROVE  ChannelInv'
<1> DEFINE s == Other(side)
<1>1. ReadsOne(s) /\ (SameLine(side) \/ \E m : Queues(side, m) /\ m.kind \notin {"open", "text"})
  BY ReadLines
<1>2. ChannelTypes' /\ HonestRecordsDecode'
  <2>1. /\ queue' \in [Sides -> Seq(Messages)] /\ net' \in [Sides -> Seq(Messages)]
        /\ chan' \in [Sides -> [last_started : Nat, pending : SUBSET [id : Nat, got : Nat], failed : BOOLEAN]]
        /\ HonestRecordsDecode'
    BY ReadLines, ReadDecodes
  <2> QED  BY <2>1 DEF ChannelInv, ChannelTypes
<1>3. StaysOff
  BY DEF StaysOff, On
<1>4. \A t \in Sides : t = side \/ t = s
  BY DEF Sides, Other
<1>5. \A t \in Sides : LineStep(t)
  BY <1>1, <1>4 DEF LineStep
<1>6. \A k \in Socks : StreamStep(s, k) /\ StreamStep(side, k)
  <2> SUFFICES ASSUME NEW k \in Socks PROVE StreamStep(s, k) /\ StreamStep(side, k)
    OBVIOUS
  <2>1. (Accepts(s, k)' => Accepts(s, k)) /\ (Accepts(side, k)' => Accepts(side, k)) /\ texts' = texts
    BY <1>4, AcceptsLess DEF Sides, Other
  <2>2. StreamStep(s, k)
    BY <2>1, <1>1 DEF StreamStep
  <2>3. StreamStep(side, k)
    <3>1. \A m : m.kind \notin {"open", "text"} => ~TextOf(m, k)
      BY DEF TextOf
    <3> QED  BY <2>1, <3>1, <1>1 DEF StreamStep
  <2> QED  BY <2>2, <2>3
<1> QED  BY <1>2, <1>3, <1>4, <1>5, <1>6, StepHolds

(* A record that does not complete a message is kept, and decodes.         *)
LEMMA ReadFragmentHolds ==
    ASSUME ChannelInv, NEW side \in Sides, ReadFragment(side)
    PROVE  ChannelInv'
<1>1. /\ Read(side) /\ Arrived(side).done = {}
      /\ UNCHANGED <<mix, queue, control, bulk, streak, next_id, call, entries, drained, texts, got,
                     behind, open_sockets, tasks>>
  BY DEF ReadFragment
<1>2. UNCHANGED <<closed, serving>>
  <2>1. ~Arrived(side).state.failed
    BY <1>1, ReadDecodes
  <2> QED  BY <2>1 DEF ReadFragment
<1>3. \A k \in Socks : ~Completes(Other(side), k)
  <2>1. Record(side).offset # Record(side).size /\ Record(side) = net[Other(side)][1]
    BY <1>1, ReadDecodes
  <2> QED  BY <2>1 DEF Completes
<1>4. AnswersAtMost(side) /\ CallTypes' /\ Waits' /\ Taken' /\ SocketsKeepOrder'
  BY <1>1, <1>2 DEF AnswersAtMost, ChannelInv, CallTypes, Waits, Taken, SocketsKeepOrder
<1>5. CallsMove /\ TextsMove
  BY <1>1 DEF CallsMove, Early, TextsMove
<1>6. Opened' /\ OpensMove
  <2>1. OpensLess
    BY <1>1, <1>4, ReadLines
  <2> QED  BY <2>1, <1>1, <1>5, StillOpened DEF ChannelInv
<1>7. \A s \in Sides, k \in Socks : Delivered(s, k)' = Delivered(s, k)
  BY <1>1 DEF Delivered
<1>8. control' \in [Sides -> Nat] /\ Other(side) \in Sides
  BY <1>1 DEF ChannelInv, ChannelTypes, Sides, Other
<1> QED  BY <1>1, <1>2, <1>3, <1>4, <1>5, <1>6, <1>7, <1>8, ReadStep

(* The app reads an answer, or a text of a socket: the next one of it.     *)
LEMMA ReadResponseHolds ==
    ASSUME ChannelInv, ReadResponse
    PROVE  ChannelInv'
<1> DEFINE m == Record("app")
<1>1. /\ Read("app") /\ Arrived("app").done # {}
      /\ UNCHANGED <<mix, queue, control, bulk, streak, next_id, closed, drained, texts>>
      /\ UNCHANGED hubVars
      /\ "app" \in Sides /\ "hub" \in Sides /\ Other("app") = "hub" /\ Other("hub") = "app"
  BY DEF ReadResponse, Sides, Other
<1>2. Sent(m) /\ m = net["hub"][1] /\ m.offset = m.size /\ net["hub"] # <<>> /\ On("app")
  BY <1>1, ReadDecodes
<1>3. \/ m.kind \in {"pong", "opened"} /\ UNCHANGED <<call, entries, got>>
      \/ /\ m.kind \in {"http", "error"} /\ m.key \in Requests
         /\ entries' = entries \ {m.key} /\ UNCHANGED got
         /\ call' = [call EXCEPT ![m.key] = IF m.key \in entries THEN "answered" ELSE @]
      \/ /\ m.kind = "text" /\ UNCHANGED <<call, entries>>
         /\ got' = IF m.key \in entries THEN [got EXCEPT !["app"][m.key] = Append(@, m.n)] ELSE got
      \/ /\ m.kind \in {"closed", "error"} /\ m.key \in Socks /\ UNCHANGED got
         /\ entries' = entries \ {m.key}
         /\ call' = [call EXCEPT ![m.key] = IF m.key \in entries THEN "ended" ELSE @]
  BY DEF ReadResponse
<1> HIDE DEF m
<1>4. AnswersAtMost("app") /\ OpensLess /\ UNCHANGED serving /\ control' \in [Sides -> Nat] /\ TextsMove
  <2>1. AnswersAtMost("app") /\ UNCHANGED bulk /\ UNCHANGED next_id
    BY <1>1 DEF AnswersAtMost
  <2> QED  BY <2>1, <1>1, ReadLines DEF hubVars, ChannelInv, ChannelTypes, TextsMove
<1>5. ASSUME CallTypes', CallsMove, got' = got PROVE Opened' /\ OpensMove /\ Taken'
  <2>1. open_sockets' \subseteq open_sockets /\ behind' = behind
    BY <1>1 DEF hubVars
  <2> QED  BY <2>1, <1>4, <1>5, StillOpened DEF ChannelInv, Taken
<1>6. \A k \in Socks : m.kind # "text" => ~Completes("hub", k)
  BY <1>2 DEF Completes, TextOf
<1>7. ASSUME got' = got, m.kind # "text", CallTypes', Waits', CallsMove PROVE ChannelInv'
  <2>1. \A s \in Sides, k \in Socks : Delivered(s, k)' = Delivered(s, k)
    BY <1>1, <1>7 DEF Delivered, hubVars
  <2>2. SocketsKeepOrder'
    BY <1>7 DEF ChannelInv, SocketsKeepOrder
  <2> QED  BY <1>1, <1>4, <1>5, <1>6, <1>7, <2>1, <2>2, ReadStep
<1>8. CASE m.kind \in {"pong", "opened"} /\ UNCHANGED <<call, entries, got>>
  <2>1. CallTypes' /\ Waits' /\ CallsMove
    BY <1>1, <1>8 DEF ChannelInv, CallTypes, Waits, CallsMove, Early, hubVars
  <2> QED  BY <2>1, <1>7, <1>8
<1>9. ASSUME NEW x \in {"answered", "ended"}, m.key \in Calls, UNCHANGED got, entries' = entries \ {m.key},
             call' = [call EXCEPT ![m.key] = IF m.key \in entries THEN x ELSE @]
      PROVE  CallTypes' /\ Waits' /\ CallsMove
  <2>1. /\ call \in [Calls -> {"idle", "inserted", "checked", "waiting", "answered", "failed", "ended"}]
        /\ x \notin {"idle", "inserted", "checked", "waiting"}
        /\ \A c \in Calls : call'[c] = IF c = m.key /\ c \in entries THEN x ELSE call[c]
        /\ call' \in [Calls -> {"idle", "inserted", "checked", "waiting", "answered", "failed", "ended"}]
    BY <1>9 DEF ChannelInv, CallTypes
  <2>2. CallTypes'
    BY <2>1, <1>1, <1>9 DEF ChannelInv, CallTypes, hubVars
  <2>3. Waits'
    BY <2>1, <1>1, <1>9 DEF ChannelInv, Waits
  <2>4. CallsMove
    BY <2>1, <1>9 DEF CallsMove, Early, Calls
  <2> QED  BY <2>2, <2>3, <2>4
<1>10. CASE /\ m.kind \in {"http", "error"} /\ m.key \in Requests
            /\ entries' = entries \ {m.key} /\ UNCHANGED got
            /\ call' = [call EXCEPT ![m.key] = IF m.key \in entries THEN "answered" ELSE @]
  <2>1. m.key \in Calls /\ m.kind # "text"
    BY <1>10 DEF Calls
  <2> QED  BY <2>1, <1>7, <1>9, <1>10
<1>11. CASE /\ m.kind \in {"closed", "error"} /\ m.key \in Socks /\ UNCHANGED got
            /\ entries' = entries \ {m.key}
            /\ call' = [call EXCEPT ![m.key] = IF m.key \in entries THEN "ended" ELSE @]
  <2>1. m.key \in Calls /\ m.kind # "text"
    BY <1>11 DEF Calls
  <2> QED  BY <2>1, <1>7, <1>9, <1>11
<1>12. CASE /\ m.kind = "text" /\ UNCHANGED <<call, entries>>
            /\ got' = IF m.key \in entries THEN [got EXCEPT !["app"][m.key] = Append(@, m.n)] ELSE got
  <2>1. PICK k \in Socks : k = m.key /\ m.n \in Nat /\ m.n > 0
    BY <1>2, <1>12 DEF Sent, OfItsKind, Messages
  <2>2. Completes("hub", k) /\ \A j \in Socks : j # k => ~Completes("hub", j)
    BY <1>2, <1>12, <2>1 DEF Completes, TextOf
  <2>3. Accepts("hub", k) => m.n = Delivered("hub", k) + 1 /\ m.n <= texts["hub"][k]
    <3>1. ChannelTypes /\ CallTypes /\ LineSound("hub") /\ StreamSound("hub", k) /\ On(Other("hub"))
      BY <2>1, <1>1, <1>2 DEF ChannelInv
    <3> QED  BY <3>1, <2>1, <2>2, <1>1, <1>2, NextIsRead
  <2>4. CallTypes /\ CallsMove /\ Waits'
    BY <1>1, <1>12 DEF ChannelInv, CallsMove, Waits, Early
  <2>5. CASE k \in entries
    <3> DEFINE d == got["app"][k]
    <3>1. Accepts("hub", k)
      BY <2>5 DEF Accepts
    <3>2. d \in Seq(Nat) /\ Delivered("hub", k) = Len(d)
      BY <2>1, <1>1 DEF ChannelInv, CallTypes, Delivered
    <3>3. got' = [got EXCEPT !["app"][k] = Append(d, m.n)]
      BY <1>12, <2>1, <2>5
    <3> HIDE DEF d
    <3>4. Append(d, m.n) \in Seq(Nat) /\ Grown(d, Append(d, m.n), m.n) /\ Len(Append(d, m.n)) = Len(d) + 1
      BY <2>1, <3>2, AppendGrows
    <3>5. /\ got'["app"][k] = Append(d, m.n) /\ got' \in [Sides -> [Socks -> Seq(Nat)]]
          /\ \A j \in Socks : j # k => got'["app"][j] = got["app"][j]
          /\ got'["hub"] = got["hub"]
      BY <3>3, <3>4, <2>1, <1>1 DEF ChannelInv, CallTypes
    <3>6. CallTypes'
      BY <3>5, <1>1, <1>12 DEF ChannelInv, CallTypes, hubVars
    <3>7. Taken'
      BY <3>5, <1>1 DEF ChannelInv, Taken, hubVars
    <3>8. SocketsKeepOrder'
      <4>1. \A i \in DOMAIN Append(d, m.n) : Append(d, m.n)[i] = i
        <5>1. \A i \in DOMAIN d : d[i] = i
          BY <2>1, <1>1 DEF ChannelInv, SocketsKeepOrder, d
        <5> QED  BY <5>1, <3>1, <3>2, <3>4, <2>3 DEF Grown
      <4> QED  BY <4>1, <3>5 DEF ChannelInv, SocketsKeepOrder, Sides
    <3>9. Opened' /\ OpensMove
      <4>1. open_sockets' \subseteq open_sockets
        BY <1>1 DEF hubVars
      <4> QED  BY <4>1, <1>4, <2>4, StillOpened DEF ChannelInv
    <3>10. \A j \in Socks : Delivered("app", j)' = Delivered("app", j)
      BY <3>5, <1>1 DEF Delivered, hubVars
    <3>11. \A j \in Socks : IF Completes("hub", j)
                            THEN Delivered("hub", j)' = Delivered("hub", j) + 1 /\ Accepts("hub", j)
                            ELSE Delivered("hub", j)' = Delivered("hub", j)
      <4>1. Delivered("hub", k)' = Len(Append(d, m.n))
        BY <3>5 DEF Delivered
      <4>2. \A j \in Socks : j # k => Delivered("hub", j)' = Delivered("hub", j)
        BY <3>5 DEF Delivered
      <4> QED  BY <4>1, <4>2, <3>1, <3>2, <3>4, <2>2
    <3> QED  BY <3>6, <3>7, <3>8, <3>9, <3>10, <3>11, <2>4, <1>1, <1>4, ReadStep
  <2>6. CASE k \notin entries
    <3>1. got' = got
      BY <1>12, <2>1, <2>6
    <3>2. \A s \in Sides, j \in Socks : Delivered(s, j)' = Delivered(s, j)
      BY <3>1, <1>1 DEF Delivered, hubVars
    <3>3. CallTypes' /\ SocketsKeepOrder'
      BY <3>1, <1>1, <1>12 DEF ChannelInv, CallTypes, SocketsKeepOrder, hubVars
    <3>4. ~Accepts("hub", k)'
      <4>1. call[k] # "idle"
        <5>1. ASSUME call[k] = "idle" PROVE FALSE
          <6>1. texts["hub"][k] = 0 /\ Accepts("hub", k)
            BY <5>1, <2>1 DEF ChannelInv, Opened, Accepts
          <6> QED  BY <6>1, <2>1, <2>3
        <5> QED  BY <5>1
      <4> QED  BY <4>1, <2>6, <1>12 DEF Accepts
    <3>5. Opened' /\ OpensMove /\ Taken'
      BY <3>1, <3>3, <2>4, <1>5
    <3>6. \A j \in Socks : Completes("hub", j) => ~Accepts("hub", j)'
      BY <3>4, <2>2
    <3> QED  BY <3>2, <3>3, <3>5, <3>6, <2>4, <1>1, <1>4, ReadStep
  <2> QED  BY <2>5, <2>6
<1> QED  BY <1>3, <1>8, <1>10, <1>11, <1>12

(* The first record of the app is a message of socket k that is whole: no  *)
(* open of k comes after it.                                               *)
LEMMA NoOpenAfter ==
    ASSUME ChannelInv, NEW k \in Socks, net["app"] # <<>>,
           net["app"][1].key = k, net["app"][1].kind \in {"open", "text"},
           net["app"][1].offset = net["app"][1].size
    PROVE  /\ \A i \in DOMAIN net["app"] : OpenOf(net["app"][i], k) => i = 1
           /\ \A i \in DOMAIN queue["app"] : ~OpenOf(queue["app"][i], k)
<1> DEFINE w == net["app"]
           q == queue["app"]
<1>1. /\ OnTheLine(w, bulk["app"], q) /\ InOrder(w, bulk["app"], q)
      /\ w \in Seq(Messages) /\ w # <<>> /\ w[1].key = k /\ w[1].kind \in {"open", "text"}
      /\ w[1].offset = w[1].size
  BY DEF ChannelInv, LineSound, Sides, OnTheLine
<1> HIDE DEF w, q
<1>2. DOMAIN w \subseteq Nat \ {0} /\ 1 \in DOMAIN w
  BY <1>1, TailThins DEF Thinned
<1>3. /\ \A i \in DOMAIN w : OpenOf(w[i], k) => w[i].n = 0
      /\ \A i \in DOMAIN q : OpenOf(q[i], k) => q[i].n = 0
      /\ w[1].n \in Nat
  BY <1>1, <1>2 DEF OnTheLine, Sent, Queued, OfItsKind, OpenOf, Messages
<1>4. ASSUME NEW i \in DOMAIN w, OpenOf(w[i], k), i # 1 PROVE FALSE
  <2>1. Before(w[1], w[i])
    BY <1>1, <1>2, <1>4 DEF InOrder
  <2> QED  BY <2>1, <1>1, <1>3, <1>4 DEF Before, OfASocket, OpenOf
<1>5. ASSUME NEW i \in DOMAIN q, OpenOf(q[i], k) PROVE FALSE
  <2>1. WellBefore(w[1], q[i])
    BY <1>1, <1>2 DEF InOrder
  <2> QED  BY <2>1, <1>1, <1>3, <1>5 DEF WellBefore, OfASocket, OpenOf
<1> QED  BY <1>4, <1>5 DEF w, q

(* The hub reads a message: what it makes of it, in one socket at most.    *)
LEMMA DispatchHolds ==
    ASSUME ChannelInv, dispatch
    PROVE  ChannelInv'
<1> DEFINE m == Record("hub")
<1>1. /\ Read("hub") /\ Arrived("hub").done # {}
      /\ UNCHANGED <<mix, bulk, streak, next_id, call, entries, closed, drained, texts, got, serving>>
      /\ "app" \in Sides /\ "hub" \in Sides /\ Other("app") = "hub" /\ Other("hub") = "app"
  BY DEF dispatch, Sides, Other, appVars
<1>2. /\ Sent(m) /\ m = net["app"][1] /\ m.offset = m.size /\ net["app"] # <<>> /\ On("hub")
      /\ net'["app"] = Tail(net["app"])
  BY <1>1, ReadDecodes
<1>3. \/ m.kind = "ping" /\ control' = [control EXCEPT !["hub"] = @ + 1]
         /\ UNCHANGED <<queue, behind, open_sockets, tasks>>
      \/ /\ m.kind = "http" /\ UNCHANGED <<control, behind, open_sockets>>
         /\ (tasks' = tasks \cup {m.key} /\ UNCHANGED queue) \/ (Error(m.key) /\ UNCHANGED tasks)
      \/ /\ m.kind = "open" /\ UNCHANGED <<control, behind, tasks>>
         /\ \/ m.key \notin open_sockets /\ open_sockets' = open_sockets \cup {m.key}
               /\ Enqueue("hub", Message(m.key, "opened", 1, 0))
            \/ m.key \in open_sockets /\ Error(m.key) /\ UNCHANGED open_sockets
      \/ /\ m.kind = "text" /\ UNCHANGED <<control, tasks>>
         /\ \/ /\ m.key \in open_sockets
               /\ behind' = [behind EXCEPT ![m.key] = Append(@, m.n)] /\ UNCHANGED <<queue, open_sockets>>
            \/ /\ m.key \in open_sockets
               /\ open_sockets' = open_sockets \ {m.key} /\ Error(m.key) /\ UNCHANGED behind
            \/ m.key \notin open_sockets /\ Error(m.key) /\ UNCHANGED <<behind, open_sockets>>
      \/ /\ m.kind = "close" /\ open_sockets' = open_sockets \ {m.key}
         /\ UNCHANGED <<queue, control, behind, tasks>>
  BY DEF dispatch
<1> HIDE DEF m
<1>4. /\ m.kind = "http" => m.key \in Requests
      /\ m.kind \in {"open", "text", "close"} => m.key \in Socks
      /\ m.kind = "text" => m.n \in Nat /\ m.n > 0
  BY <1>2 DEF Sent, OfItsKind, Messages
<1>5. /\ control \in [Sides -> Nat] /\ CallTypes
      /\ (UNCHANGED control \/ control' = [control EXCEPT !["hub"] = @ + 1]) => control' \in [Sides -> Nat]
  <2>1. control \in [Sides -> Nat] /\ CallTypes
    BY DEF ChannelInv, ChannelTypes
  <2>2. [control EXCEPT !["hub"] = control["hub"] + 1] \in [Sides -> Nat]
    <3>1. control["hub"] \in Nat
      BY <2>1, <1>1
    <3>2. control["hub"] + 1 \in Nat
      BY <3>1
    <3> QED  BY <2>1, <3>2
  <2> QED  BY <2>1, <2>2
<1>6. ASSUME NEW kind \in {"error", "opened"}, m.key \in Calls, Enqueue("hub", Message(m.key, kind, 1, 0))
      PROVE  AnswersAtMost("hub")
  <2>1. Queued(Message(m.key, kind, 1, 0)) /\ Message(m.key, kind, 1, 0).kind = kind
    <3>1. 1 \in Nat \ {0} /\ 0 \in Nat
      OBVIOUS
    <3> QED  BY <3>1, <1>6, MessageIsQueued DEF Kinds
  <2> QED  BY <2>1, <1>6 DEF AnswersAtMost
<1>7. CallsMove /\ TextsMove /\ Waits' /\ SocketsKeepOrder'
  BY <1>1 DEF ChannelInv, CallsMove, Early, TextsMove, Waits, SocketsKeepOrder
<1>8. AnswersAtMost("hub") => OpensLess
  BY <1>1, ReadLines
<1>9. \A k \in Socks : Delivered("hub", k)' = Delivered("hub", k)
  BY <1>1 DEF Delivered
<1>10. \A k \in Socks : Completes("app", k) <=> (m.kind = "text" /\ m.key = k)
  BY <1>2 DEF Completes, TextOf
\* A message that opens no socket and is delivered to none.
<1>11. ASSUME AnswersAtMost("hub"), behind' = behind, open_sockets' \subseteq open_sockets,
              tasks' \subseteq Requests, control' \in [Sides -> Nat],
              m.kind = "text" => ~Accepts("app", m.key)
                                   \/ (m.key \notin open_sockets' /\ m.key \in open_sockets)
       PROVE  ChannelInv'
  <2>1. Opened' /\ OpensMove
    BY <1>7, <1>8, <1>11, StillOpened DEF ChannelInv
  <2>2. CallTypes' /\ Taken'
    BY <1>1, <1>11 DEF ChannelInv, CallTypes, Taken
  <2>3. \A k \in Socks : Delivered("app", k)' = Delivered("app", k)
    BY <1>1, <1>11 DEF Delivered
  <2>4. ASSUME NEW k \in Socks, Completes("app", k) PROVE ~Accepts("app", k)'
    <3>1. m.kind = "text" /\ m.key = k
      BY <1>10, <2>4
    <3>2. CASE ~Accepts("app", k)
      BY <3>2, <1>7, <2>1, <1>1, AcceptsLess
    <3>3. CASE k \notin open_sockets' /\ k \in open_sockets
      <4>1. ~Early(k) /\ ~OpenOnTheWay(k)
        BY <3>3 DEF ChannelInv, Opened
      <4>2. ~Early(k)' /\ ~OpenOnTheWay(k)'
        BY <4>1, <1>7, <1>8, <1>11 DEF CallsMove, OpensLess
      <4> QED  BY <4>2, <3>3 DEF Accepts
    <3> QED  BY <3>1, <3>2, <3>3, <1>11
  <2> QED  BY <1>1, <1>7, <1>9, <1>11, <2>1, <2>2, <2>3, <2>4, ReadStep
<1>12. CASE m.kind = "ping" /\ control' = [control EXCEPT !["hub"] = @ + 1]
            /\ UNCHANGED <<queue, behind, open_sockets, tasks>>
  <2>1. AnswersAtMost("hub") /\ tasks' \subseteq Requests
    BY <1>5, <1>12 DEF AnswersAtMost, CallTypes
  <2> QED  BY <2>1, <1>5, <1>11, <1>12
<1>13. CASE /\ m.kind = "http" /\ UNCHANGED <<control, behind, open_sockets>>
            /\ (tasks' = tasks \cup {m.key} /\ UNCHANGED queue) \/ (Error(m.key) /\ UNCHANGED tasks)
  <2>1. m.key \in Requests /\ m.key \in Calls /\ tasks' \subseteq Requests
    BY <1>4, <1>5, <1>13 DEF Calls, CallTypes
  <2>2. AnswersAtMost("hub")
    BY <1>6, <1>13, <2>1 DEF AnswersAtMost, Error
  <2> QED  BY <2>1, <2>2, <1>5, <1>11, <1>13
<1>14. CASE /\ m.kind = "close" /\ open_sockets' = open_sockets \ {m.key}
            /\ UNCHANGED <<queue, control, behind, tasks>>
  <2>1. AnswersAtMost("hub") /\ tasks' \subseteq Requests
    BY <1>5, <1>14 DEF AnswersAtMost, CallTypes
  <2> QED  BY <2>1, <1>5, <1>11, <1>14
<1>15. CASE /\ m.kind = "open" /\ UNCHANGED <<control, behind, tasks>>
            /\ m.key \in open_sockets /\ Error(m.key) /\ UNCHANGED open_sockets
  <2>1. m.key \in Calls /\ tasks' \subseteq Requests
    BY <1>4, <1>5, <1>15 DEF Calls, CallTypes
  <2>2. AnswersAtMost("hub")
    BY <1>6, <1>15, <2>1 DEF Error
  <2> QED  BY <2>1, <2>2, <1>5, <1>11, <1>15
<1>16. CASE /\ m.kind = "open" /\ UNCHANGED <<control, behind, tasks>>
            /\ m.key \notin open_sockets /\ open_sockets' = open_sockets \cup {m.key}
            /\ Enqueue("hub", Message(m.key, "opened", 1, 0))
  <2>1. PICK k \in Socks : k = m.key
    BY <1>4, <1>16
  <2>2. AnswersAtMost("hub") /\ OpensLess
    <3>1. AnswersAtMost("hub")
      BY <1>6, <1>16, <2>1 DEF Calls
    <3> QED  BY <3>1, <1>8
  <2>3. OpenOnTheWay(k)
    <3>1. net["app"] \in Seq(Messages)
      BY <1>1 DEF ChannelInv, ChannelTypes
    <3>2. 1 \in DOMAIN net["app"]
      BY <3>1, <1>2, TailThins DEF Thinned
    <3> QED  BY <3>2, <1>2, <1>16, <2>1 DEF OpenOnTheWay, OpenOf
  <2>4. ~Early(k) /\ ~Early(k)'
    BY <2>3, <1>1 DEF ChannelInv, Opened, Early
  <2>5. ~OpenOnTheWay(k)'
    <3>1. /\ \A i \in DOMAIN net["app"] : OpenOf(net["app"][i], k) => i = 1
          /\ \A i \in DOMAIN queue["app"] : ~OpenOf(queue["app"][i], k)
      BY <1>2, <1>16, <2>1, NoOpenAfter
    <3>2. queue'["app"] = queue["app"]
      BY <1>1, <2>2, ReadLines DEF ReadsOne
    <3>3. net["app"] \in Seq(Messages)
      BY <1>1 DEF ChannelInv, ChannelTypes
    <3>4. Thinned(net["app"], net'["app"], 1)
      BY <3>3, <1>2, TailThins
    <3>5. \A i \in DOMAIN net'["app"] : i \in Nat /\ i >= 1 /\ i + 1 \in DOMAIN net["app"]
                                        /\ net'["app"][i] = net["app"][i + 1]
      BY <3>4 DEF Thinned
    <3>6. \A i \in DOMAIN net'["app"] : ~OpenOf(net'["app"][i], k)
      BY <3>1, <3>5
    <3> QED  BY <3>1, <3>2, <3>6 DEF OpenOnTheWay
  <2>6. Opened'
    <3> SUFFICES ASSUME NEW j \in Socks
                 PROVE  /\ Early(j)' => texts'["app"][j] = 0 /\ ~OpenOnTheWay(j)' /\ j \notin open_sockets'
                        /\ call'[j] = "idle" => texts'["hub"][j] = 0
                        /\ j \in open_sockets' => ~OpenOnTheWay(j)'
      BY DEF Opened
    <3>1. CASE j = k
      BY <3>1, <2>4, <2>5 DEF Early
    <3>2. CASE j # k
      <4>1. j \in open_sockets' <=> j \in open_sockets
        BY <3>2, <1>16, <2>1
      <4>2. (Early(j)' <=> Early(j)) /\ (OpenOnTheWay(j)' => OpenOnTheWay(j))
        BY <1>1, <2>2 DEF Early, OpensLess
      <4> QED  BY <4>1, <4>2, <1>1 DEF ChannelInv, Opened
    <3> QED  BY <3>1, <3>2
  <2>7. OpensMove
    BY <1>16, <2>1, <2>2, <2>3 DEF OpensMove, OpensLess
  <2>8. CallTypes' /\ Taken'
    BY <1>1, <1>16, <2>1 DEF ChannelInv, CallTypes, Taken
  <2>9. \A j \in Socks : Delivered("app", j)' = Delivered("app", j) /\ ~Completes("app", j)
    BY <1>1, <1>10, <1>16 DEF Delivered
  <2>10. control' \in [Sides -> Nat]
    BY <1>5, <1>16
  <2> QED  BY <1>1, <1>7, <1>9, <2>2, <2>6, <2>7, <2>8, <2>9, <2>10, ReadStep
<1>17. CASE /\ m.kind = "text" /\ UNCHANGED <<control, tasks>> /\ m.key \in open_sockets
            /\ behind' = [behind EXCEPT ![m.key] = Append(@, m.n)] /\ UNCHANGED <<queue, open_sockets>>
  <2>1. PICK k \in Socks : k = m.key
    BY <1>4, <1>17
  <2>2. Completes("app", k) /\ \A j \in Socks : j # k => ~Completes("app", j)
    BY <1>10, <1>17, <2>1
  <2>3. AnswersAtMost("hub")
    BY <1>17 DEF AnswersAtMost
  <2>4. Opened' /\ OpensMove
    BY <1>7, <1>8, <1>17, <2>3, StillOpened DEF ChannelInv
  <2>5. Accepts("app", k)
    BY <1>17, <2>1 DEF Accepts
  <2> DEFINE d == behind[k]
             e == Append(d, m.n)
             g == Len(got["hub"][k])
  <2>6. d \in Seq(Nat) /\ g \in Nat /\ behind \in [Socks -> Seq(Nat)] /\ behind' = [behind EXCEPT ![k] = e]
    BY <1>1, <1>17, <2>1 DEF ChannelInv, CallTypes
  <2>7. m.n = g + Len(d) + 1
    <3>1. ChannelTypes /\ CallTypes /\ LineSound("app") /\ StreamSound("app", k) /\ On(Other("app"))
      BY <2>1, <1>1, <1>2 DEF ChannelInv
    <3>2. m.n = Delivered("app", k) + 1
      BY <3>1, <2>1, <2>2, <2>5, <1>1, <1>2, NextIsRead
    <3> QED  BY <3>2 DEF Delivered
  <2>8. e \in Seq(Nat) /\ Grown(d, e, m.n) /\ Len(e) = Len(d) + 1
    <3> HIDE DEF d
    <3> QED  BY <1>4, <1>17, <2>6, AppendGrows
  <2> HIDE DEF d, e, g
  <2>9. behind'[k] = e /\ behind' \in [Socks -> Seq(Nat)] /\ \A j \in Socks : j # k => behind'[j] = behind[j]
    BY <2>6, <2>8
  <2>10. CallTypes'
    BY <2>9, <1>1, <1>17 DEF ChannelInv, CallTypes
  <2>11. Taken'
    <3>1. \A i \in DOMAIN d : d[i] = g + i
      BY <2>1 DEF ChannelInv, Taken, d, g
    <3>2. \A i \in DOMAIN e : e[i] = g + i
      <4>1. \A i \in DOMAIN e : i \in DOMAIN d \/ i = Len(d) + 1
        BY <2>8 DEF Grown
      <4>2. Len(d) \in Nat /\ m.n = g + (Len(d) + 1)
        BY <2>6, <2>7
      <4> QED  BY <3>1, <4>1, <4>2, <2>8 DEF Grown
    <3>3. got' = got
      BY <1>1
    <3> QED  BY <3>2, <3>3, <2>9 DEF ChannelInv, Taken, g
  <2>12. Delivered("app", k) = g + Len(d) /\ Delivered("app", k)' = g + Len(e)
    BY <2>9, <1>1 DEF Delivered, g, d
  <2>13. Delivered("app", k)' = Delivered("app", k) + 1
    BY <2>12, <2>8, <2>6
  <2>14. \A j \in Socks : j # k => Delivered("app", j)' = Delivered("app", j)
    BY <2>9, <1>1 DEF Delivered
  <2>15. control' \in [Sides -> Nat]
    BY <1>5, <1>17
  <2>16. \A j \in Socks : IF Completes("app", j)
                          THEN Delivered("app", j)' = Delivered("app", j) + 1 /\ Accepts("app", j)
                          ELSE Delivered("app", j)' = Delivered("app", j)
    BY <2>2, <2>5, <2>13, <2>14
  <2> QED  BY <1>1, <1>7, <1>9, <2>3, <2>4, <2>10, <2>11, <2>15, <2>16, ReadStep
<1>18. CASE /\ m.kind = "text" /\ UNCHANGED <<control, tasks>> /\ m.key \in open_sockets
            /\ open_sockets' = open_sockets \ {m.key} /\ Error(m.key) /\ UNCHANGED behind
  <2>1. m.key \in Calls /\ tasks' \subseteq Requests
    BY <1>4, <1>5, <1>18 DEF Calls, CallTypes
  <2>2. AnswersAtMost("hub")
    BY <1>6, <1>18, <2>1 DEF Error
  <2> QED  BY <2>1, <2>2, <1>5, <1>11, <1>18
<1>19. CASE /\ m.kind = "text" /\ UNCHANGED <<control, tasks>>
            /\ m.key \notin open_sockets /\ Error(m.key) /\ UNCHANGED <<behind, open_sockets>>
  <2>1. m.key \in Calls /\ tasks' \subseteq Requests
    BY <1>4, <1>5, <1>19 DEF Calls, CallTypes
  <2>2. AnswersAtMost("hub")
    BY <1>6, <1>19, <2>1 DEF Error
  <2>3. PICK k \in Socks : k = m.key
    BY <1>4, <1>19
  <2>4. ~OpenOnTheWay(k)
    <3>1. /\ \A i \in DOMAIN net["app"] : OpenOf(net["app"][i], k) => i = 1
          /\ \A i \in DOMAIN queue["app"] : ~OpenOf(queue["app"][i], k)
      BY <1>2, <1>19, <2>3, NoOpenAfter
    <3>2. ~OpenOf(net["app"][1], k)
      BY <1>2, <1>19 DEF OpenOf
    <3> QED  BY <3>1, <3>2 DEF OpenOnTheWay
  <2>5. ~Early(k)
    <3>1. ASSUME Early(k) PROVE FALSE
      <4>1. texts["app"][k] = 0 /\ Accepts("app", k)
        BY <3>1 DEF ChannelInv, Opened, Accepts
      <4>2. ChannelTypes /\ CallTypes /\ LineSound("app") /\ StreamSound("app", k) /\ On(Other("app"))
        BY <1>1, <1>2 DEF ChannelInv
      <4>3. Completes("app", k)
        BY <1>10, <1>19, <2>3
      <4>4. m.n <= texts["app"][k]
        BY <4>1, <4>2, <4>3, <1>1, <1>2, NextIsRead
      <4> QED  BY <4>1, <4>4, <1>4, <1>19
    <3> QED  BY <3>1
  <2>6. ~Accepts("app", m.key)
    BY <2>3, <2>4, <2>5, <1>19 DEF Accepts
  <2> QED  BY <2>1, <2>2, <2>6, <1>5, <1>11, <1>19
<1> QED  BY <1>3, <1>12, <1>13, <1>14, <1>15, <1>16, <1>17, <1>18, <1>19

(* Every step keeps the invariant. *)
LEMMA ChannelStep == ChannelInv /\ [SecureNext]_secureVars => ChannelInv'
<1> SUFFICES ASSUME ChannelInv, [SecureNext]_secureVars PROVE ChannelInv'
  OBVIOUS
<1>1. CASE authenticate \/ serve \/ revoke_device
  BY <1>1, HubStepHolds
<1>2. CASE RevocationTick \/ HubNotices
  BY <1>2, StopServingHolds
<1>3. ASSUME NEW side \in Sides, run(side) \/ ReadFragment(side) PROVE ChannelInv'
  BY <1>3, RunHolds, ReadFragmentHolds
<1>4. CASE ReadResponse \/ dispatch
  BY <1>4, ReadResponseHolds, DispatchHolds
<1>5. ASSUME NEW c \in Calls, request(c) \/ send(c) \/ RequestTimesOut(c) PROVE ChannelInv'
  BY <1>5, RequestHolds, SendHolds, TimeoutHolds
<1>6. ASSUME NEW k \in Socks,
             socket_text(k) \/ close_socket(k) \/ HandlerTakes(k) \/ HandlerSends(k) \/ HandlerEnds(k)
      PROVE  ChannelInv'
  BY <1>6, SocketTextHolds, CloseSocketHolds, TakeHolds, AnswerHolds
<1>7. ASSUME NEW r \in Requests, HttpDone(r) PROVE ChannelInv'
  BY <1>7, AnswerHolds
<1>8. CASE Ping \/ close \/ fail \/ ConnectionEnds
  BY <1>8, PingHolds, CloseHolds, FailHolds, ConnectionEndsHolds
<1>9. CASE UNCHANGED secureVars
  <2>1. UNCHANGED <<mix, outVars, appVars, texts, got, hubVars>>
    BY <1>9 DEF secureVars
  <2>2. ChannelTypes' /\ CallTypes' /\ Waits'
    BY <2>1 DEF ChannelInv, ChannelTypes, CallTypes, Waits, outVars, appVars, hubVars
  <2>3. StaysOff /\ CallsMove
    BY <2>1 DEF StaysOff, On, CallsMove, Early, appVars, hubVars
  <2> QED  BY <2>1, <2>2, <2>3, QuietStep DEF outVars, hubVars
<1> QED  BY <1>1, <1>2, <1>3, <1>4, <1>5, <1>6, <1>7, <1>8, <1>9 DEF SecureNext

(* Whatever is overtaken, cut into fragments, closed or revoked, every      *)
(* socket delivers its texts in order and without a gap, no record of a    *)
(* peer that follows the protocol fails, and no call waits on a client     *)
(* that has failed (Writer::run, decode_inner, dispatch, fail).            *)
THEOREM ChannelStaysSound == SecureSpec => []ChannelIsSound
<1>1. ChannelInv => ChannelIsSound
  <2> SUFFICES ASSUME ChannelInv PROVE ChannelIsSound
    OBVIOUS
  <2>1. SecureTypeOK
    BY DEF ChannelInv, ChannelTypes, CallTypes, SecureTypeOK
  <2>2. NobodyWaitsOnAFailedClient
    BY DEF ChannelInv, CallTypes, Waits, NobodyWaitsOnAFailedClient
  <2> QED  BY <2>1, <2>2 DEF ChannelInv, ChannelIsSound
<1> QED  BY <1>1, ChannelStarts, ChannelStep, PTL DEF SecureSpec
=============================================================================
