-------------------------- MODULE ScreencastProofs --------------------------
(***************************************************************************)
(* Proofs about Screencast.                                                *)
(***************************************************************************)
EXTENDS Screencast, SequenceTheorems, WellFoundedInduction, TLAPS

(* A set of sizes has a largest element, so what viewers need together is  *)
(* a size.                                                                 *)
LEMMA MaxSizeExists ==
    ASSUME NEW S, S \subseteq Size, S # {}
    PROVE  Max(S) \in S
<1> DEFINE U == {n \in Nat : \A s \in S : s <= n}
<1>1. U \subseteq Nat /\ MaxSize \in U
  BY SizeAssumption, SMT DEF Size
<1>2. PICK m \in U : \A n \in U : ~(<<n, m>> \in OpToRel(<, Nat))
  <2>1. IsWellFoundedOn(OpToRel(<, Nat), Nat)
    BY NatLessThanWellFounded
  <2> QED BY <1>1, <2>1, WFMin
<1>3. \A n \in U : ~(n < m)
  <2> SUFFICES ASSUME NEW n \in U, n < m PROVE FALSE
    OBVIOUS
  <2>1. <<n, m>> \in OpToRel(<, Nat)
    BY <1>1 DEF OpToRel
  <2> QED BY <2>1, <1>2
<1>4. m \in S
  <2> SUFFICES ASSUME m \notin S PROVE FALSE
    OBVIOUS
  <2>1. PICK s \in S : TRUE
    OBVIOUS
  <2>2. m - 1 \in U
    BY <2>1, SMT DEF Size
  <2> QED BY <2>2, <1>3, SMT
<1>5. \A s \in S : m >= s
  BY SMT DEF Size
<1> QED BY <1>4, <1>5 DEF Max

LEMMA AppendTyped ==
    ASSUME NEW S, NEW q \in Seq(S), NEW x \in S
    PROVE  Append(q, x) \in Seq(S) /\ Len(Append(q, x)) = Len(q) + 1
           /\ \A i \in 1..Len(q) : Append(q, x)[i] = q[i]
           /\ Append(q, x)[Len(q) + 1] = x
  BY SMT

LEMMA TailTyped ==
    ASSUME NEW S, NEW q \in Seq(S), q # <<>>
    PROVE  Head(q) \in S /\ Head(q) = q[1] /\ Tail(q) \in Seq(S)
           /\ Len(Tail(q)) = Len(q) - 1 /\ Len(q) \in Nat /\ Len(q) > 0
           /\ \A i \in 1..Len(Tail(q)) : Tail(q)[i] = q[i + 1]
  BY SMT

LEMMA EffectiveTyped ==
    ASSUME NEW vs, vs \subseteq Viewer, NEW vw \in [Viewer -> ViewerState]
    PROVE  effective(vs, vw) \in Nat
<1>1. CASE vs = {}
  BY <1>1 DEF effective
<1>2. CASE vs # {}
  <2> DEFINE S == {vw[v].size : v \in vs}
  <2>1. S # {} /\ S \subseteq Size
    BY <1>2, SMT DEF ViewerState
  <2>2. Max(S) \in Size
    BY <2>1, MaxSizeExists
  <2> QED BY <1>2, <2>2 DEF effective, Size
<1> QED BY <1>1, <1>2

LEMMA NewEpochTyped ==
    ASSUME NEW f \in Fanout, NEW n \in Nat
    PROVE  /\ [f EXCEPT !.started = n, !.epoch = @ + 1] \in Fanout
           /\ [f EXCEPT !.started = n, !.epoch = @ + 1].epoch = f.epoch + 1
<1>1. f.epoch \in Nat
  BY DEF Fanout
<1> DEFINE g == [f EXCEPT !.started = n]
<1>2. g \in Fanout /\ g.epoch = f.epoch
  BY DEF Fanout
<1>3. [g EXCEPT !.epoch = f.epoch + 1] \in Fanout /\ [g EXCEPT !.epoch = f.epoch + 1].epoch = f.epoch + 1
  <2> HIDE DEF g
  <2> QED BY <1>1, <1>2 DEF Fanout
<1> QED BY <1>2, <1>3

LEMMA ReconcileTyped ==
    ASSUME NEW f \in Fanout, NEW vs, vs \subseteq Viewer,
           NEW vw \in [Viewer -> ViewerState], hub \in HubState
    PROVE  /\ reconcile(f, vs, vw).fan \in Fanout
           /\ reconcile(f, vs, vw).act \in Action
           /\ reconcile(f, vs, vw).fan.epoch >= f.epoch
           /\ reconcile(f, vs, vw).act.epoch <= reconcile(f, vs, vw).fan.epoch
<1>1. effective(vs, vw) \in Nat
  BY EffectiveTyped
<1> DEFINE wanted == effective(vs, vw)
           g == [f EXCEPT !.started = wanted, !.epoch = @ + 1]
<1>2. f.epoch \in Nat /\ hub.conn \in Nat
  BY DEF Fanout, HubState
<1>3. g \in Fanout /\ g.epoch = f.epoch + 1
  BY <1>1, NewEpochTyped
<1>4. Instruction(wanted, f.epoch + 1) \in Action /\ Instruction(wanted, f.epoch + 1).epoch = f.epoch + 1
  BY <1>1, <1>2 DEF Instruction, Action
<1>5. NoAction \in Action /\ NoAction.epoch = 0
  BY DEF NoAction, Action
<1>6. CASE wanted = f.started
  BY <1>6, <1>5, <1>2 DEF reconcile
<1>7. CASE wanted # f.started
  <2>1. reconcile(f, vs, vw) = [fan |-> g, act |-> Instruction(wanted, f.epoch + 1)]
    BY <1>7 DEF reconcile
  <2> HIDE DEF g, wanted
  <2> QED BY <2>1, <1>2, <1>3, <1>4
<1> QED BY <1>6, <1>7

LEMMA OfferTyped ==
    ASSUME NEW w \in ViewerState, NEW f \in Frame
    PROVE  Offer(w, f) \in ViewerState
<1>1. Append(w.inbox, f) \in Seq(Frame)
  BY AppendTyped DEF ViewerState
<1>2. f.seq \in Nat
  BY DEF Frame
<1> QED BY <1>1, <1>2 DEF Offer, ViewerState

-----------------------------------------------------------------------------
(* The inductive invariant: types, a remembered epoch below the clock, and *)
(* no start or stop beyond the ceiling.                                    *)
IInv == TypeOK /\ remembered <= clock /\ NextStartWins

LEMMA Constants ==
    /\ NoFrame \in Frame /\ Destroyed \in Frame /\ NoAction \in Action /\ Ack \in Action
    /\ NoAction.epoch = 0 /\ Ack.epoch = 0
    /\ IdleScreen \in Screen
    /\ \A e \in Nat : NewFan(e) \in Fanout /\ NewFan(e).epoch = e
    /\ "machine" \in Task
  BY DEF NoFrame, Destroyed, Frame, NoAction, Ack, Action, IdleScreen, Screen, NewFan, Fanout, Task

(* What each state component contributes to the ceiling.                   *)
LEMMA Types ==
    ASSUME TypeOK
    PROVE  /\ fan.epoch \in Nat /\ hub.conn \in Nat /\ clock \in Nat /\ remembered \in Nat
           /\ wire.down \in Seq(Action) /\ wire.up \in Seq(Message)
           /\ node.tasks \subseteq Action /\ node.newest \in Nat /\ node.conns \in Nat
           /\ node.alive \in {"no", "yes"}
           /\ page.frames \in Seq(Nat) /\ page.version \in Nat /\ screen.latest \in Nat
           /\ Ceiling \in Nat
           /\ \A a \in Task : unsent[a] \in Action
           /\ \A m \in Action : m.epoch \in Nat /\ m.size \in Nat
           /\ \A v \in Viewer : viewer[v] \in ViewerState
           /\ \A w \in ViewerState : w.inbox \in Seq(Frame) /\ w.slot \in Frame /\ w.sent \in Nat
<1>1. fan.epoch \in Nat
  BY DEF TypeOK, Fanout
<1>2. hub.conn \in Nat
  BY DEF TypeOK, HubState
<1>3. node.tasks \subseteq Action /\ node.newest \in Nat /\ node.conns \in Nat /\ node.alive \in {"no", "yes"}
  BY DEF TypeOK, NodeState
<1>4. screen.latest \in Nat
  BY DEF TypeOK, Screen
<1>5. \A w \in ViewerState : w.inbox \in Seq(Frame) /\ w.slot \in Frame /\ w.sent \in Nat
  BY DEF ViewerState
<1>6. \A m \in Action : m.epoch \in Nat /\ m.size \in Nat
  BY DEF Action
<1>7. wire.down \in Seq(Action) /\ wire.up \in Seq(Message)
  BY DEF TypeOK
<1>8. page.frames \in Seq(Nat) /\ page.version \in Nat
  BY DEF TypeOK
<1>9. clock \in Nat /\ remembered \in Nat /\ (\A a \in Task : unsent[a] \in Action) /\ (\A v \in Viewer : viewer[v] \in ViewerState)
  BY DEF TypeOK
<1> QED BY <1>1, <1>2, <1>3, <1>4, <1>5, <1>6, <1>7, <1>8, <1>9 DEF Ceiling

(* A step keeps the order when the ceiling does not fall and everything    *)
(* new stays below it.                                                     *)
LEMMA OrderKept ==
    ASSUME IInv, TypeOK', remembered' <= clock', Ceiling' >= Ceiling,
           \A a \in Task : unsent'[a] = unsent[a] \/ unsent'[a].epoch <= Ceiling',
           wire'.down = wire.down \/ (\A i \in 1..Len(wire'.down) : wire'.down[i].epoch <= Ceiling),
           \A t \in node'.tasks : t \in node.tasks \/ t.epoch <= Ceiling,
           node'.newest <= Ceiling
    PROVE  IInv'
<1>1. Ceiling \in Nat /\ Ceiling' \in Nat /\ node'.newest \in Nat
  <2>1. fan.epoch \in Nat /\ fan'.epoch \in Nat
    BY DEF IInv, TypeOK, Fanout
  <2>2. node'.newest \in Nat
    BY DEF IInv, TypeOK, NodeState
  <2> QED BY <2>1, <2>2 DEF IInv, TypeOK, Ceiling
<1>2. \A m \in Action : m.epoch \in Nat
  BY DEF Action
<1>3. wire.down \in Seq(Action) /\ wire'.down \in Seq(Action)
  BY DEF IInv, TypeOK
<1>4. \A a \in Task : unsent[a] \in Action /\ unsent'[a] \in Action
  BY DEF IInv, TypeOK
<1>5. node.tasks \subseteq Action /\ node'.tasks \subseteq Action
  BY DEF IInv, TypeOK, NodeState
<1>6. \A a \in Task : unsent'[a].epoch <= Ceiling'
  BY <1>1, <1>2, <1>4 DEF IInv, NextStartWins
<1>7. \A i \in 1..Len(wire'.down) : wire'.down[i].epoch <= Ceiling'
  BY <1>1, <1>2, <1>3 DEF IInv, NextStartWins
<1>8. \A t \in node'.tasks : t.epoch <= Ceiling'
  BY <1>1, <1>2, <1>5 DEF IInv, NextStartWins
<1>9. node'.newest <= Ceiling'
  BY <1>1
<1> QED BY <1>6, <1>7, <1>8, <1>9 DEF IInv, NextStartWins

LEMMA InitInv == Init => IInv
<1> SUFFICES ASSUME Init PROVE IInv
  OBVIOUS
<1>1. viewer \in [Viewer -> ViewerState]
  BY Constants, SizeAssumption DEF Init, ViewerState, Size
<1>2. fan \in Fanout /\ screen \in Screen /\ unsent \in [Task -> Action]
  BY Constants DEF Init
<1>3. hub \in HubState /\ node \in NodeState
  BY DEF Init, HubState, NodeState
<1>4. wire \in [down : Seq(Action), up : Seq(Message)] /\ page \in [version : Nat, casting : {"no", "yes"}, frames : Seq(Nat)]
  BY DEF Init
<1>5. TypeOK
  BY <1>1, <1>2, <1>3, <1>4 DEF Init, TypeOK
<1>6. NextStartWins
  BY Constants DEF Init, NextStartWins, Ceiling
<1> QED BY <1>5, <1>6 DEF Init, IInv

-----------------------------------------------------------------------------
(* The viewers.                                                            *)
(* A viewer stays one when its phase changes. *)
LEMMA PhaseTyped ==
    ASSUME viewer \in [Viewer -> ViewerState], NEW v \in Viewer,
           NEW p \in {"new", "admitted", "attached", "open", "closed"},
           viewer' = [viewer EXCEPT ![v].phase = p]
    PROVE  viewer' \in [Viewer -> ViewerState]
<1> DEFINE w == [viewer[v] EXCEPT !.phase = p]
<1>1. w \in ViewerState
  BY DEF ViewerState
<1>2. viewer' = [viewer EXCEPT ![v] = w]
  OBVIOUS
<1> HIDE DEF w
<1> QED BY <1>1, <1>2

LEMMA AdmitInv == ASSUME IInv, NEW v \in Viewer, Admit(v) PROVE IInv'
<1>1. viewer' \in [Viewer -> ViewerState]
  BY PhaseTyped DEF IInv, TypeOK, Admit
<1>2. TypeOK'
  BY <1>1 DEF IInv, TypeOK, Admit, streams
<1> QED BY <1>2 DEF IInv, NextStartWins, Ceiling, Admit, streams

LEMMA AddViewerInv == ASSUME IInv, NEW v \in Viewer, add_viewer(v) PROVE IInv'
<1> DEFINE f == IF attached = {} THEN NewFan(Larger(remembered, clock)) ELSE fan
           shown == IF f.last = NoFrame THEN viewer[v] ELSE Offer(viewer[v], f.last)
           vw == [viewer EXCEPT ![v] = [shown EXCEPT !.phase = "attached"]]
           r == reconcile(f, attached \cup {v}, vw)
<1>1. /\ viewer' = vw /\ fan' = r.fan /\ unsent' = [unsent EXCEPT ![v] = r.act]
      /\ attached' = attached \cup {v} /\ remembered' = 0
      /\ UNCHANGED <<clock, hub, wire, node, screen, page>>
  BY DEF add_viewer
<1>2. Larger(remembered, clock) \in Nat /\ Larger(remembered, clock) >= clock
  BY DEF IInv, TypeOK, Larger
<1>3. f \in Fanout /\ f.epoch >= Ceiling /\ f.epoch \in Nat
  <2>1. fan \in Fanout /\ fan.epoch \in Nat
    BY Types DEF IInv, TypeOK
  <2>2. CASE attached = {}
    <3>1. f = NewFan(Larger(remembered, clock)) /\ Ceiling = clock
      BY <2>2 DEF Ceiling
    <3> QED BY <1>2, <3>1, Constants
  <2>3. CASE attached # {}
    <3>1. f = fan /\ Ceiling = fan.epoch
      BY <2>3 DEF Ceiling
    <3> QED BY <2>1, <3>1
  <2> QED BY <2>2, <2>3
<1>4. f.last \in Frame
  BY <1>3 DEF Fanout
<1>5. shown \in ViewerState
  BY <1>4, Types, OfferTyped DEF IInv
<1>6. [shown EXCEPT !.phase = "attached"] \in ViewerState
  <2> HIDE DEF shown
  <2> QED BY <1>5 DEF ViewerState
<1>7. vw \in [Viewer -> ViewerState]
  <2> HIDE DEF shown
  <2> QED BY <1>6 DEF IInv, TypeOK
<1>8. r.fan \in Fanout /\ r.act \in Action /\ r.fan.epoch >= f.epoch /\ r.act.epoch <= r.fan.epoch
  <2> HIDE DEF f, vw
  <2>1. attached \cup {v} \subseteq Viewer /\ hub \in HubState
    BY DEF IInv, TypeOK
  <2> QED BY <2>1, <1>3, <1>7, ReconcileTyped
<1> HIDE DEF f, shown, vw, r
<1>9. TypeOK'
  BY <1>1, <1>7, <1>8 DEF IInv, TypeOK
<1>10. Ceiling' = r.fan.epoch /\ r.fan.epoch \in Nat
  BY <1>1, <1>8 DEF Ceiling, Fanout
<1>11. Ceiling' >= Ceiling
  <2>1. Ceiling \in Nat
    BY Types DEF IInv
  <2> QED BY <1>10, <1>3, <1>8, <2>1
<1>12. \A a \in Task : unsent'[a] = unsent[a] \/ unsent'[a].epoch <= Ceiling'
  <2>1. unsent \in [Task -> Action] /\ v \in Task
    BY DEF IInv, TypeOK, Task
  <2>2. unsent'[v] = r.act /\ \A a \in Task \ {v} : unsent'[a] = unsent[a]
    BY <1>1, <2>1
  <2>3. r.act.epoch <= Ceiling'
    BY <1>8, <1>10
  <2> QED BY <2>2, <2>3
<1>13. remembered' <= clock'
  BY <1>1, Types DEF IInv
<1>14. wire' = wire /\ node' = node /\ node.newest <= Ceiling
  BY <1>1 DEF IInv, NextStartWins
<1> QED BY <1>9, <1>11, <1>12, <1>13, <1>14, OrderKept

(* The end of a fan-out does not lower the ceiling.                        *)
LEMMA RetireKeeps ==
    ASSUME TypeOK, NEW f \in Fanout, f.epoch >= Ceiling \/ attached = {},
           NEW r \in BOOLEAN, retire(f, r)
    PROVE  /\ attached' = {} /\ fan' \in Fanout /\ clock' \in Nat /\ remembered' \in Nat
           /\ remembered' <= clock' /\ f.epoch <= clock' /\ Ceiling' >= Ceiling
<1>1. f.epoch \in Nat
  BY DEF Fanout
<1>2. /\ fan.epoch \in Nat /\ clock \in Nat
      /\ attached' = {} /\ fan' \in Fanout
      /\ clock' = Larger(clock, f.epoch) /\ remembered' \in {f.epoch, 0}
  BY Constants, Types DEF retire
<1>3. clock' \in Nat /\ clock <= clock' /\ f.epoch <= clock'
  BY <1>1, <1>2 DEF Larger
<1>4. remembered' \in Nat /\ remembered' <= clock'
  BY <1>1, <1>2, <1>3
<1>5. Ceiling' = clock' /\ Ceiling' >= Ceiling
  BY <1>1, <1>2, <1>3 DEF Ceiling
<1> QED BY <1>2, <1>3, <1>4, <1>5

LEMMA DropInv ==
    ASSUME IInv, NEW v \in Viewer, Drop(v), UNCHANGED <<hub, wire, node, screen, page>>
    PROVE  IInv'
<1> DEFINE vw == [viewer EXCEPT ![v] = [@ EXCEPT !.phase = "closed", !.inbox = <<>>, !.slot = NoFrame]]
           r == reconcile(fan, attached \ {v}, vw)
<1>1. vw \in [Viewer -> ViewerState]
  <2>1. viewer[v] \in ViewerState
    BY Types DEF IInv
  <2> DEFINE w == [viewer[v] EXCEPT !.phase = "closed", !.inbox = <<>>, !.slot = NoFrame]
  <2>2. w \in ViewerState
    <3>1. [viewer[v] EXCEPT !.phase = "closed"] \in ViewerState
      BY <2>1 DEF ViewerState
    <3>2. [[viewer[v] EXCEPT !.phase = "closed"] EXCEPT !.inbox = <<>>] \in ViewerState
      <4>1. <<>> \in Seq(Frame)
        OBVIOUS
      <4> QED BY <3>1, <4>1 DEF ViewerState
    <3> QED BY <3>2, Constants DEF ViewerState
  <2>3. vw = [viewer EXCEPT ![v] = w]
    BY DEF IInv, TypeOK
  <2> HIDE DEF w
  <2> QED BY <2>2, <2>3 DEF IInv, TypeOK
<1>2. r.fan \in Fanout /\ r.act \in Action /\ r.fan.epoch >= fan.epoch /\ r.act.epoch <= r.fan.epoch
  <2> HIDE DEF vw
  <2>1. attached \ {v} \subseteq Viewer /\ hub \in HubState /\ fan \in Fanout
    BY DEF IInv, TypeOK
  <2> QED BY <2>1, <1>1, ReconcileTyped
<1>3. viewer' = vw
  BY DEF Drop
<1>4. r.fan.epoch \in Nat /\ r.act.epoch \in Nat /\ fan.epoch \in Nat
  BY <1>2, Types DEF Fanout, IInv
<1>5. CASE v \notin attached /\ UNCHANGED <<streams, unsent>>
  <2>1. TypeOK'
    BY <1>1, <1>3, <1>5 DEF IInv, TypeOK, streams
  <2> QED BY <2>1, <1>5 DEF IInv, NextStartWins, Ceiling, streams
<1>6. CASE attached = {v} /\ retire(r.fan, TRUE) /\ unsent' = [unsent EXCEPT ![v] = r.act]
  <2> HIDE DEF vw, r
  <2>1. r.fan.epoch >= Ceiling
    BY <1>2, <1>6 DEF Ceiling
  <2>2. /\ attached' = {} /\ fan' \in Fanout /\ clock' \in Nat /\ remembered' \in Nat
        /\ remembered' <= clock' /\ r.fan.epoch <= clock' /\ Ceiling' >= Ceiling
    BY <2>1, <1>2, <1>6, RetireKeeps DEF IInv
  <2>3. TypeOK'
    BY <1>1, <1>2, <1>3, <1>6, <2>2 DEF IInv, TypeOK
  <2>4. Ceiling' = clock'
    BY <2>2 DEF Ceiling
  <2>5. r.act.epoch <= Ceiling'
    BY <2>2, <2>4, <1>2, <1>4
  <2>6. \A a \in Task : unsent'[a] = unsent[a] \/ unsent'[a].epoch <= Ceiling'
    BY <1>6, <2>5 DEF IInv, TypeOK, Task
  <2> QED BY <2>2, <2>3, <2>6, OrderKept DEF IInv, NextStartWins
<1>7. CASE /\ v \in attached /\ attached # {v}
           /\ attached' = attached \ {v} /\ fan' = r.fan
           /\ unsent' = [unsent EXCEPT ![v] = r.act]
           /\ UNCHANGED <<clock, remembered>>
  <2> HIDE DEF vw, r
  <2>1. TypeOK'
    BY <1>1, <1>2, <1>3, <1>7 DEF IInv, TypeOK
  <2>2. Ceiling = fan.epoch /\ Ceiling' = r.fan.epoch
    BY <1>7 DEF Ceiling
  <2>3. \A a \in Task : unsent'[a] = unsent[a] \/ unsent'[a].epoch <= Ceiling'
    BY <1>7, <1>2, <2>2 DEF IInv, TypeOK, Task
  <2> QED BY <1>2, <1>7, <2>1, <2>2, <2>3, OrderKept DEF IInv, NextStartWins
<1> QED BY <1>5, <1>6, <1>7 DEF Drop

LEMMA RecheckInv == ASSUME IInv, NEW v \in Viewer, Recheck(v) PROVE IInv'
<1>1. CASE hub.known = "yes" /\ viewer' = [viewer EXCEPT ![v].phase = "open"] /\ UNCHANGED <<streams, unsent>>
  <2>1. viewer' \in [Viewer -> ViewerState]
    BY <1>1, PhaseTyped DEF IInv, TypeOK
  <2>2. TypeOK'
    BY <1>1, <2>1 DEF IInv, TypeOK, Recheck, streams
  <2> QED BY <1>1, <2>2 DEF IInv, NextStartWins, Ceiling, Recheck, streams
<1>2. CASE Drop(v)
  BY <1>2, DropInv DEF Recheck
<1> QED BY <1>1, <1>2 DEF Recheck

LEMMA SetParamsInv == ASSUME IInv, NEW v \in Viewer, NEW s \in Size, set_params(v, s) PROVE IInv'
<1> DEFINE vw == [viewer EXCEPT ![v].size = s]
           r == reconcile(fan, attached, vw)
<1>1. vw \in [Viewer -> ViewerState]
  <2> DEFINE w == [viewer[v] EXCEPT !.size = s]
  <2>1. viewer \in [Viewer -> ViewerState]
    BY DEF IInv, TypeOK
  <2>2. w \in ViewerState /\ vw = [viewer EXCEPT ![v] = w]
    BY <2>1 DEF ViewerState
  <2> HIDE DEF w
  <2> QED BY <2>1, <2>2
<1>2. r.fan \in Fanout /\ r.act \in Action /\ r.fan.epoch >= fan.epoch /\ r.act.epoch <= r.fan.epoch
  <2> HIDE DEF vw
  <2>1. attached \subseteq Viewer /\ hub \in HubState /\ fan \in Fanout
    BY DEF IInv, TypeOK
  <2> QED BY <2>1, <1>1, ReconcileTyped
<1>3. /\ viewer' = vw /\ fan' = r.fan /\ unsent' = [unsent EXCEPT ![v] = r.act] /\ v \in attached
      /\ UNCHANGED <<attached, clock, remembered, hub, wire, node, screen, page>>
  BY DEF set_params
<1> HIDE DEF vw, r
<1>4. TypeOK'
  BY <1>1, <1>2, <1>3 DEF IInv, TypeOK
<1>5. Ceiling = fan.epoch /\ Ceiling' = r.fan.epoch
  BY <1>3 DEF Ceiling
<1>6. \A a \in Task : unsent'[a] = unsent[a] \/ unsent'[a].epoch <= Ceiling'
  BY <1>2, <1>3, <1>5 DEF IInv, TypeOK, Task
<1> QED BY <1>2, <1>3, <1>4, <1>5, <1>6, OrderKept DEF IInv, NextStartWins

LEMMA ViewerAckInv == ASSUME IInv, NEW v \in Viewer, viewer_ack(v) PROVE IInv'
<1> DEFINE w == [viewer[v] EXCEPT !.shown = Head(viewer[v].inbox).page, !.inbox = Tail(@)]
           free == [w EXCEPT !.waiting = "no", !.slot = NoFrame]
           acks == v \in attached /\ w.waiting = "yes"
           news == acks /\ w.sent > fan.acked
           x == IF ~acks THEN w ELSE IF w.slot = NoFrame THEN free ELSE Offer(free, w.slot)
<1>1. viewer[v] \in ViewerState /\ viewer[v].inbox \in Seq(Frame) /\ viewer[v].inbox # <<>>
  BY Types DEF IInv, viewer_ack
<1>2. Head(viewer[v].inbox) \in Frame /\ Tail(viewer[v].inbox) \in Seq(Frame)
  BY <1>1, TailTyped
<1>3. Head(viewer[v].inbox).page \in Nat
  BY <1>2 DEF Frame
<1>4. w \in ViewerState
  BY <1>1, <1>2, <1>3 DEF ViewerState
<1>5. free \in ViewerState /\ w.slot \in Frame /\ w.sent \in Nat
  <2> HIDE DEF w
  <2> QED BY <1>4, Constants DEF ViewerState
<1>6. x \in ViewerState
  <2> HIDE DEF w, free
  <2> QED BY <1>4, <1>5, OfferTyped
<1>7. viewer' \in [Viewer -> ViewerState]
  <2>1. viewer' = [viewer EXCEPT ![v] = x]
    BY DEF viewer_ack
  <2> HIDE DEF x
  <2> QED BY <2>1, <1>6 DEF IInv, TypeOK
<1>8. /\ fan' = IF news THEN [fan EXCEPT !.acked = w.sent] ELSE fan
      /\ unsent' = IF news THEN [unsent EXCEPT ![v] = Ack] ELSE unsent
      /\ UNCHANGED <<attached, clock, remembered, hub, wire, node, screen, page>>
  BY DEF viewer_ack
<1> HIDE DEF w, free, x
<1>9. fan' \in Fanout /\ fan'.epoch = fan.epoch
  BY <1>5, <1>8 DEF IInv, TypeOK, Fanout
<1>10. unsent' \in [Task -> Action]
  BY <1>8, Constants DEF IInv, TypeOK, Task
<1>11. TypeOK'
  BY <1>7, <1>8, <1>9, <1>10 DEF IInv, TypeOK
<1>12. Ceiling' = Ceiling
  BY <1>8, <1>9 DEF Ceiling
<1>13. Ceiling \in Nat
  BY Types DEF IInv
<1>14. \A a \in Task : unsent'[a] = unsent[a] \/ unsent'[a].epoch <= Ceiling'
  BY <1>8, <1>12, <1>13, Constants DEF IInv, TypeOK, Task
<1> QED BY <1>8, <1>11, <1>12, <1>13, <1>14, OrderKept DEF IInv, NextStartWins

LEMMA SendInv == ASSUME IInv, NEW a \in Task, send_node_action(a) PROVE IInv'
<1>1. unsent[a] \in Action /\ wire.down \in Seq(Action) /\ Ceiling \in Nat
  BY Types DEF IInv
<1>2. /\ unsent' = [unsent EXCEPT ![a] = NoAction]
      /\ wire' = wire \/ wire' = [wire EXCEPT !.down = Append(@, unsent[a])]
      /\ UNCHANGED <<viewer, attached, fan, clock, remembered, hub, node, screen, page>>
  BY DEF send_node_action, streams
<1>3. Append(wire.down, unsent[a]) \in Seq(Action)
  BY <1>1, AppendTyped
<1>4. TypeOK'
  BY <1>2, <1>3, Constants DEF IInv, TypeOK
<1>5. Ceiling' = Ceiling
  BY <1>2 DEF Ceiling
<1>6. \A b \in Task : unsent'[b] = unsent[b] \/ unsent'[b].epoch <= Ceiling'
  BY <1>1, <1>2, <1>5, Constants DEF IInv, TypeOK
<1>7. wire'.down = wire.down \/ (\A i \in 1..Len(wire'.down) : wire'.down[i].epoch <= Ceiling)
  <2>1. CASE wire' = wire
    BY <2>1
  <2>2. CASE wire' = [wire EXCEPT !.down = Append(@, unsent[a])]
    <3>1. wire'.down = Append(wire.down, unsent[a])
      BY <2>2 DEF IInv, TypeOK
    <3>2. \A i \in 1..Len(wire.down) : wire.down[i].epoch <= Ceiling
      BY DEF IInv, NextStartWins
    <3>3. unsent[a].epoch <= Ceiling
      BY DEF IInv, NextStartWins
    <3>4. Len(wire.down) \in Nat
      BY <1>1
    <3> QED BY <3>1, <3>2, <3>3, <3>4, <1>1, AppendTyped
  <2> QED BY <1>2, <2>1, <2>2
<1> QED BY <1>1, <1>2, <1>4, <1>5, <1>6, <1>7, OrderKept DEF IInv, NextStartWins

LEMMA OtherRetiresInv == ASSUME IInv, OtherRetires PROVE IInv'
<1>1. TypeOK'
  BY DEF IInv, TypeOK, OtherRetires
<1>2. Ceiling' >= Ceiling /\ remembered' <= clock'
  BY Types DEF IInv, TypeOK, OtherRetires, Ceiling
<1> QED BY <1>1, <1>2, OrderKept DEF IInv, NextStartWins, OtherRetires

-----------------------------------------------------------------------------
(* The hub's handler.                                                      *)

LEMMA TakeTyped ==
    ASSUME TypeOK, NEW k, Take(k)
    PROVE  /\ wire' \in [down : Seq(Action), up : Seq(Message)] /\ wire'.down = wire.down
           /\ Head(wire.up) \in Message
<1>1. wire.up \in Seq(Message) /\ wire.up # <<>>
  BY Types DEF Take
<1>2. Head(wire.up) \in Message /\ Tail(wire.up) \in Seq(Message)
  BY <1>1, TailTyped
<1> QED BY <1>2 DEF Take, TypeOK

LEMMA OnFrameInv == ASSUME IInv, on_frame PROVE IInv'
<1>1. wire' \in [down : Seq(Action), up : Seq(Message)] /\ wire'.down = wire.down /\ Head(wire.up) \in Message
  BY TakeTyped DEF IInv, on_frame
<1>2. UNCHANGED <<attached, clock, remembered, hub, node, screen, page>>
  BY DEF on_frame
<1>3. Ceiling \in Nat
  BY Types DEF IInv
<1>4. CASE attached = {}
  <2> DEFINE e == IF remembered # 0 THEN remembered ELSE clock
  <2>1. unsent' = [unsent EXCEPT !["machine"] = Instruction(0, e)] /\ UNCHANGED <<viewer, fan>>
    BY <1>4 DEF on_frame
  <2>2. e \in Nat /\ e <= Ceiling
    BY <1>4, Types DEF IInv, Ceiling
  <2>3. Instruction(0, e) \in Action /\ Instruction(0, e).epoch = e
    <3> HIDE DEF e
    <3> QED BY <2>2, Types DEF IInv, Instruction, Action
  <2> HIDE DEF e
  <2>4. TypeOK'
    BY <1>1, <1>2, <2>1, <2>3, Constants DEF IInv, TypeOK
  <2>5. Ceiling' = Ceiling
    BY <1>2, <2>1 DEF Ceiling
  <2>6. \A a \in Task : unsent'[a] = unsent[a] \/ unsent'[a].epoch <= Ceiling'
    BY <2>1, <2>2, <2>3, <2>5, Constants DEF IInv, TypeOK
  <2> QED BY <1>1, <1>2, <1>3, <2>4, <2>5, <2>6, OrderKept DEF IInv, NextStartWins
<1>5. CASE attached # {}
  <2> DEFINE f == [seq |-> fan.seq + 1, page |-> Head(wire.up).page]
  <2>1. /\ fan' = [fan EXCEPT !.seq = f.seq, !.last = f]
        /\ viewer' = [v \in Viewer |-> IF v \in attached THEN Offer(viewer[v], f) ELSE viewer[v]]
        /\ UNCHANGED unsent
    BY <1>5 DEF on_frame
  <2>2. fan.seq \in Nat /\ Head(wire.up).page \in Nat
    BY <1>1 DEF IInv, TypeOK, Fanout, Message
  <2>3. f \in Frame /\ f.seq \in Nat
    BY <2>2 DEF Frame
  <2> HIDE DEF f
  <2>4. fan' \in Fanout /\ fan'.epoch = fan.epoch
    BY <2>1, <2>3 DEF IInv, TypeOK, Fanout
  <2>5. viewer' \in [Viewer -> ViewerState]
    BY <2>1, <2>3, Types, OfferTyped DEF IInv
  <2>6. TypeOK'
    BY <1>1, <1>2, <2>1, <2>4, <2>5 DEF IInv, TypeOK
  <2>7. Ceiling' = Ceiling
    BY <1>2, <2>4 DEF Ceiling
  <2> QED BY <1>1, <1>2, <1>3, <2>1, <2>6, <2>7, OrderKept DEF IInv, NextStartWins
<1> QED BY <1>4, <1>5

LEMMA KnownInv == ASSUME IInv, AgentBrowserDestroyed \/ replace_agent_browsers PROVE IInv'
<1>1. PICK k : Take(k)
  BY DEF AgentBrowserDestroyed, replace_agent_browsers
<1>2. wire' \in [down : Seq(Action), up : Seq(Message)] /\ wire'.down = wire.down /\ Head(wire.up) \in Message
  BY <1>1, TakeTyped DEF IInv
<1>3. Head(wire.up).present \in {"no", "yes"}
  BY <1>2 DEF Message
<1>4. hub' \in HubState
  BY <1>3 DEF IInv, TypeOK, HubState, AgentBrowserDestroyed, replace_agent_browsers
<1>5. UNCHANGED <<viewer, streams, unsent, node, screen, page>>
  BY DEF AgentBrowserDestroyed, replace_agent_browsers
<1>6. TypeOK'
  BY <1>2, <1>4, <1>5 DEF IInv, TypeOK, streams
<1> QED BY <1>2, <1>5, <1>6 DEF IInv, NextStartWins, Ceiling, streams

(* Telling the viewers and ending the fan-out.                             *)
LEMMA DestroyKeeps ==
    ASSUME IInv, DestroyStream
    PROVE  /\ viewer' \in [Viewer -> ViewerState]
           /\ attached' = {} /\ fan' \in Fanout /\ clock' \in Nat /\ remembered' \in Nat
           /\ remembered' <= clock' /\ Ceiling' >= Ceiling
<1>1. viewer' \in [Viewer -> ViewerState]
  <2>1. \A v \in Viewer : viewer[v] \in ViewerState /\ viewer[v].inbox \in Seq(Frame)
    BY Types DEF IInv
  <2>2. \A v \in Viewer : Append(viewer[v].inbox, Destroyed) \in Seq(Frame)
    BY <2>1, AppendTyped, Constants
  <2>3. \A v \in Viewer : [viewer[v] EXCEPT !.inbox = Append(@, Destroyed)] \in ViewerState
    BY <2>1, <2>2 DEF ViewerState
  <2> QED BY <2>1, <2>3 DEF DestroyStream
<1>2. fan \in Fanout /\ (fan.epoch >= Ceiling \/ attached = {})
  BY Types DEF IInv, TypeOK, Ceiling
<1> QED BY <1>1, <1>2, RetireKeeps DEF DestroyStream, IInv

LEMMA DestroyInv == ASSUME IInv, destroy PROVE IInv'
<1>1. hub' \in HubState
  BY DEF IInv, TypeOK, HubState, destroy
<1>2. TypeOK'
  BY <1>1, DestroyKeeps DEF IInv, TypeOK, destroy
<1> QED BY <1>2, DestroyKeeps, OrderKept DEF IInv, NextStartWins, destroy

LEMMA ResyncInv == ASSUME IInv, resync_machine PROVE IInv'
<1>1. hub' \in HubState /\ UNCHANGED <<wire, node, screen, page>>
  BY DEF IInv, TypeOK, HubState, resync_machine
<1>2. CASE UNCHANGED <<viewer, streams, unsent>>
  <2>1. TypeOK'
    BY <1>1, <1>2 DEF IInv, TypeOK, streams
  <2> QED BY <1>1, <1>2, <2>1 DEF IInv, NextStartWins, Ceiling, streams
<1>3. CASE /\ attached # {} /\ fan' = restart_action.fan
           /\ unsent' = [unsent EXCEPT !["machine"] = restart_action.act]
           /\ UNCHANGED <<viewer, attached, clock, remembered>>
  <2> DEFINE f == [fan EXCEPT !.started = 0, !.acked = fan.seq]
             r == reconcile(f, attached, viewer)
  <2>1. f \in Fanout /\ f.epoch = fan.epoch
    BY DEF IInv, TypeOK, Fanout
  <2>2. r.fan \in Fanout /\ r.act \in Action /\ r.fan.epoch >= f.epoch /\ r.act.epoch <= r.fan.epoch
    <3> HIDE DEF f
    <3>1. attached \subseteq Viewer /\ hub \in HubState /\ viewer \in [Viewer -> ViewerState]
      BY DEF IInv, TypeOK
    <3> QED BY <3>1, <2>1, ReconcileTyped
  <2>3. fan' = r.fan /\ unsent' = [unsent EXCEPT !["machine"] = r.act]
    BY <1>3 DEF restart_action
  <2> HIDE DEF f, r
  <2>4. TypeOK'
    BY <1>1, <1>3, <2>2, <2>3, Constants DEF IInv, TypeOK
  <2>5. Ceiling = fan.epoch /\ Ceiling' = r.fan.epoch
    BY <1>3, <2>3 DEF Ceiling
  <2>6. \A a \in Task : unsent'[a] = unsent[a] \/ unsent'[a].epoch <= Ceiling'
    BY <2>2, <2>3, <2>5, Constants DEF IInv, TypeOK
  <2> QED BY <1>1, <1>3, <2>1, <2>2, <2>4, <2>5, <2>6, OrderKept DEF IInv, NextStartWins
<1>4. CASE DestroyStream /\ UNCHANGED unsent
  <2>1. TypeOK'
    BY <1>1, <1>4, DestroyKeeps DEF IInv, TypeOK
  <2> QED BY <1>1, <1>4, <2>1, DestroyKeeps, OrderKept DEF IInv, NextStartWins
<1> QED BY <1>2, <1>3, <1>4 DEF resync_machine

LEMMA UnregisterInv == ASSUME IInv, unregister_machine PROVE IInv'
<1>1. hub' \in HubState
  BY DEF HubState, unregister_machine
<1>2. wire' \in [down : Seq(Action), up : Seq(Message)] /\ wire'.down = wire.down
  <2>1. <<>> \in Seq(Message)
    OBVIOUS
  <2> QED BY <2>1 DEF IInv, TypeOK, unregister_machine
<1>3. unsent' \in [Task -> Action]
  BY Constants DEF IInv, TypeOK, unregister_machine
<1>4. TypeOK'
  BY <1>1, <1>2, <1>3, DestroyKeeps DEF IInv, TypeOK, unregister_machine
<1>5. Ceiling \in Nat /\ Ceiling' >= Ceiling /\ Ceiling' \in Nat /\ remembered' <= clock'
  BY Types, DestroyKeeps DEF IInv, unregister_machine, Ceiling
<1>6. \A a \in Task : unsent'[a] = unsent[a] \/ unsent'[a].epoch <= Ceiling'
  BY <1>5, Constants DEF IInv, TypeOK, unregister_machine
<1> QED BY <1>2, <1>4, <1>5, <1>6, OrderKept DEF IInv, NextStartWins, unregister_machine

-----------------------------------------------------------------------------
(* The node.                                                               *)

(* Steps that leave the hub and the instructions alone.                    *)
LEMMA NodeOnly ==
    ASSUME IInv, UNCHANGED <<viewer, streams, unsent, hub>>,
           wire' \in [down : Seq(Action), up : Seq(Message)],
           node' \in NodeState, screen' \in Screen,
           page' \in [version : Nat, casting : {"no", "yes"}, frames : Seq(Nat)],
           wire'.down = wire.down \/ (\A i \in 1..Len(wire'.down) : wire'.down[i].epoch <= Ceiling),
           \A t \in node'.tasks : t \in node.tasks \/ t.epoch <= Ceiling,
           node'.newest <= Ceiling
    PROVE  IInv'
<1>1. TypeOK'
  BY DEF IInv, TypeOK, streams
<1>2. Ceiling' = Ceiling /\ Ceiling \in Nat /\ remembered' <= clock'
  BY Types DEF IInv, Ceiling, streams
<1> QED BY <1>1, <1>2, OrderKept

LEMMA MessageTyped ==
    /\ \A p \in Nat : FrameOf(p) \in Message
    /\ TypeOK => ListNow \in Message
    /\ [kind |-> "gone", page |-> 0, present |-> "no"] \in Message
<1>1. TypeOK => node.alive \in {"no", "yes"}
  BY Types
<1> QED BY <1>1 DEF FrameOf, ListNow, Message

LEMMA EmitTyped ==
    ASSUME TypeOK, NEW m \in Message
    PROVE  Emit(m) \in [down : Seq(Action), up : Seq(Message)] /\ Emit(m).down = wire.down
<1>1. wire.up \in Seq(Message)
  BY Types
<1>2. Append(wire.up, m) \in Seq(Message)
  BY <1>1, AppendTyped
<1> QED BY <1>2 DEF Emit, TypeOK

LEMMA FlushTyped ==
    ASSUME TypeOK, NEW s \in Screen, flush_frame(s)
    PROVE  /\ screen' \in Screen /\ wire'.down = wire.down
           /\ wire' \in [down : Seq(Action), up : Seq(Message)]
<1>1. s.latest \in Nat
  BY DEF Screen
<1>2. FrameOf(s.latest) \in Message
  BY <1>1, MessageTyped
<1>3. [s EXCEPT !.inflight = "yes", !.latest = 0] \in Screen
  BY DEF Screen
<1>4. CASE screen' = s /\ UNCHANGED wire
  BY <1>4 DEF TypeOK
<1>5. CASE screen' = [s EXCEPT !.inflight = "yes", !.latest = 0] /\ wire' = Emit(FrameOf(s.latest))
  BY <1>2, <1>3, <1>5, EmitTyped
<1> QED BY <1>4, <1>5 DEF flush_frame

LEMMA LoseInv == ASSUME IInv, LoseConnection PROVE IInv'
<1>1. node' \in NodeState /\ node'.tasks = node.tasks /\ node'.newest = node.newest
  BY DEF IInv, TypeOK, NodeState, LoseConnection
<1>2. <<>> \in Seq(Action)
  OBVIOUS
<1>3. wire' \in [down : Seq(Action), up : Seq(Message)] /\ wire'.down = <<>>
  BY <1>2 DEF IInv, TypeOK, LoseConnection
<1> QED BY <1>1, <1>3, NodeOnly DEF IInv, TypeOK, NextStartWins, LoseConnection

LEMMA RegisterInv == ASSUME IInv, register_machine PROVE IInv'
<1>1. node.conns \in Nat
  BY Types DEF IInv
<1>2. node' \in NodeState /\ node'.tasks = node.tasks /\ node'.newest = node.newest
  <2> DEFINE c == node.conns + 1
  <2>1. c \in Nat /\ node' = [node EXCEPT !.conn = c, !.conns = c]
    BY <1>1 DEF register_machine
  <2> HIDE DEF c
  <2> QED BY <2>1 DEF IInv, TypeOK, NodeState
<1>3. hub' \in HubState
  BY <1>1 DEF HubState, register_machine
<1>4. <<ListNow>> \in Seq(Message)
  BY MessageTyped DEF IInv
<1>5. wire' \in [down : Seq(Action), up : Seq(Message)] /\ wire'.down = wire.down
  BY <1>4 DEF IInv, TypeOK, register_machine
<1>6. CASE DestroyStream
  <2>1. TypeOK'
    BY <1>2, <1>3, <1>5, <1>6, DestroyKeeps DEF IInv, TypeOK, register_machine
  <2> QED BY <1>2, <1>5, <1>6, <2>1, DestroyKeeps, OrderKept DEF IInv, NextStartWins, register_machine
<1>7. CASE UNCHANGED <<viewer, streams>>
  <2>1. TypeOK'
    BY <1>2, <1>3, <1>5, <1>7 DEF IInv, TypeOK, streams, register_machine
  <2> QED BY <1>2, <1>5, <1>7, <2>1 DEF IInv, NextStartWins, Ceiling, streams, register_machine
<1> QED BY <1>6, <1>7 DEF register_machine

LEMMA LaggedInv ==
    ASSUME IInv, NEW i \in 1..Len(wire.up), NEW j \in 1..Len(wire.up), Lagged(i, j)
    PROVE  IInv'
<1>1. node' \in NodeState /\ node'.tasks = node.tasks /\ node'.newest = node.newest
  <2> DEFINE c == node.lists + 1
  <2>1. c \in Nat /\ node' = [node EXCEPT !.lists = c]
    <3>1. node.lists \in Nat
      BY DEF IInv, TypeOK, NodeState
    <3> QED BY <3>1 DEF Lagged
  <2> HIDE DEF c
  <2> QED BY <2>1 DEF IInv, TypeOK, NodeState
<1>2. wire.up \in Seq(Message) /\ Len(wire.up) \in Nat
  BY Types DEF IInv
<1>3. SubSeq(wire.up, 1, i - 1) \in Seq(Message)
  BY <1>2, SubSeqProperties
<1>4. SubSeq(wire.up, j + 1, Len(wire.up)) \in Seq(Message)
  BY <1>2, SubSeqProperties
<1>5. <<ListNow>> \in Seq(Message)
  BY MessageTyped DEF IInv
<1>6. SubSeq(wire.up, 1, i - 1) \o <<ListNow>> \o SubSeq(wire.up, j + 1, Len(wire.up)) \in Seq(Message)
  BY <1>3, <1>4, <1>5, ConcatProperties
<1>7. wire' \in [down : Seq(Action), up : Seq(Message)] /\ wire'.down = wire.down
  BY <1>6 DEF IInv, TypeOK, Lagged
<1> QED BY <1>1, <1>7, NodeOnly DEF IInv, TypeOK, NextStartWins, Lagged

LEMMA ReceiveInv == ASSUME IInv, Receive PROVE IInv'
<1> DEFINE m == Head(wire.down)
           sends == m.kind = "ack" /\ node.alive = "yes" /\ screen.active = "yes" /\ screen.latest # 0
           up == IF sends THEN Append(wire.up, FrameOf(screen.latest)) ELSE wire.up
<1>1. wire.down \in Seq(Action) /\ wire.down # <<>> /\ wire.up \in Seq(Message) /\ screen.latest \in Nat
  BY Types DEF IInv, Receive
<1>2. /\ m \in Action /\ m = wire.down[1] /\ Tail(wire.down) \in Seq(Action)
      /\ Len(wire.down) \in Nat /\ Len(wire.down) > 0 /\ Len(Tail(wire.down)) = Len(wire.down) - 1
      /\ \A i \in 1..Len(Tail(wire.down)) : Tail(wire.down)[i] = wire.down[i + 1]
  BY <1>1, TailTyped
<1>3. m.epoch <= Ceiling /\ (\A i \in 1..Len(Tail(wire.down)) : Tail(wire.down)[i].epoch <= Ceiling)
  BY <1>2 DEF IInv, NextStartWins
<1>4. up \in Seq(Message)
  <2>1. FrameOf(screen.latest) \in Message
    BY <1>1, MessageTyped
  <2> QED BY <1>1, <2>1, AppendTyped
<1>5. wire' = [down |-> Tail(wire.down), up |-> up]
  BY DEF Receive
<1>6. screen' \in Screen
  BY DEF IInv, TypeOK, Receive, Screen
<1>7. node' = node \/ node' = [node EXCEPT !.tasks = @ \cup {m}]
  BY DEF Receive
<1> HIDE DEF m, sends, up
<1>8. node' \in NodeState /\ node'.newest = node.newest /\ node'.tasks \subseteq node.tasks \cup {m}
  <2>1. node.tasks \cup {m} \in SUBSET Action
    BY <1>2, Types DEF IInv
  <2>2. CASE node' = node
    BY <2>2 DEF IInv, TypeOK
  <2>3. CASE node' = [node EXCEPT !.tasks = @ \cup {m}]
    <3> DEFINE T == node.tasks \cup {m}
    <3>1. node' = [node EXCEPT !.tasks = T] /\ T \in SUBSET Action
      BY <2>1, <2>3
    <3>2. T = node.tasks \cup {m}
      OBVIOUS
    <3> HIDE DEF T
    <3>3. node' \in NodeState /\ node'.newest = node.newest /\ node'.tasks = T
      BY <3>1 DEF IInv, TypeOK, NodeState
    <3> QED BY <3>2, <3>3
  <2> QED BY <1>7, <2>2, <2>3
<1>9. wire' \in [down : Seq(Action), up : Seq(Message)] /\ wire'.down = Tail(wire.down)
  BY <1>2, <1>4, <1>5
<1>10. UNCHANGED <<viewer, streams, unsent, hub, page>>
  BY DEF Receive
<1>11. \A t \in node'.tasks : t \in node.tasks \/ t.epoch <= Ceiling
  BY <1>3, <1>8
<1>12. node'.newest <= Ceiling
  BY <1>8 DEF IInv, NextStartWins
<1>13. page' \in [version : Nat, casting : {"no", "yes"}, frames : Seq(Nat)]
  BY <1>10 DEF IInv, TypeOK
<1> QED BY <1>3, <1>6, <1>8, <1>9, <1>10, <1>11, <1>12, <1>13, NodeOnly

(* Tasks that start, stop or are ignored.                                  *)
LEMMA TaskInv ==
    ASSUME IInv, NEW t \in node.tasks,
           IgnoreTask(t) \/ screencast_start(t) \/ screencast_stop(t)
    PROVE  IInv'
<1>1. t \in Action /\ t.epoch \in Nat /\ t.size \in Nat /\ t.epoch <= Ceiling /\ node.newest <= Ceiling
  BY Types DEF IInv, NextStartWins
<1> DEFINE T == node.tasks \ {t}
<1>2. T \in SUBSET Action /\ T \subseteq node.tasks
  BY Types DEF IInv
<1>3. /\ UNCHANGED <<viewer, streams, unsent, hub, wire>>
      /\ page' = page \/ page' = [page EXCEPT !.casting = "no"]
  BY DEF IgnoreTask, screencast_start, screencast_stop
<1>4. page' \in [version : Nat, casting : {"no", "yes"}, frames : Seq(Nat)]
  BY <1>3 DEF IInv, TypeOK
<1>5. CASE IgnoreTask(t)
  <2>1. node' = [node EXCEPT !.tasks = T] /\ screen' = screen
    BY <1>5 DEF IgnoreTask
  <2> HIDE DEF T
  <2>2. node' \in NodeState /\ node'.tasks = T /\ node'.newest = node.newest
    BY <2>1, <1>2 DEF IInv, TypeOK, NodeState
  <2> QED BY <1>1, <1>2, <1>3, <1>4, <2>1, <2>2, NodeOnly DEF IInv, TypeOK
<1>6. CASE screencast_start(t)
  <2>1. PICK o \in {"no", "yes"} :
          node' = [node EXCEPT !.tasks = T, !.newest = t.epoch, !.starting = "yes",
                               !.fallback = "no", !.failed = "no", !.orphan = o]
    BY <1>6 DEF screencast_start
  <2>2. screen' = [IdleScreen EXCEPT !.active = "yes", !.size = t.size]
    BY <1>6 DEF screencast_start
  <2> HIDE DEF T
  <2>3. node' \in NodeState /\ node'.tasks = T /\ node'.newest = t.epoch
    BY <2>1, <1>1, <1>2 DEF IInv, TypeOK, NodeState
  <2>4. screen' \in Screen
    BY <2>2, <1>1 DEF IdleScreen, Screen
  <2> QED BY <1>1, <1>2, <1>3, <1>4, <2>3, <2>4, NodeOnly DEF IInv, TypeOK
<1>7. CASE screencast_stop(t)
  <2>1. node' = [node EXCEPT !.tasks = T, !.newest = t.epoch, !.orphan = "no", !.failed = "no"]
    BY <1>7 DEF screencast_stop
  <2> HIDE DEF T
  <2>2. node' \in NodeState /\ node'.tasks = T /\ node'.newest = t.epoch
    BY <2>1, <1>1, <1>2 DEF IInv, TypeOK, NodeState
  <2>3. screen' \in Screen
    BY <1>7 DEF IInv, TypeOK, Screen, screencast_stop
  <2> QED BY <1>1, <1>2, <1>3, <1>4, <2>2, <2>3, NodeOnly DEF IInv, TypeOK
<1> QED BY <1>5, <1>6, <1>7

LEMMA StartDoneInv == ASSUME IInv, StartDone PROVE IInv'
<1>1. node' \in NodeState /\ node'.tasks = node.tasks /\ node'.newest = node.newest
  BY DEF IInv, TypeOK, NodeState, StartDone
<1>2. page' \in [version : Nat, casting : {"no", "yes"}, frames : Seq(Nat)]
  BY DEF IInv, TypeOK, StartDone
<1> QED BY <1>1, <1>2, NodeOnly DEF IInv, TypeOK, NextStartWins, StartDone

LEMMA StartFailsInv == ASSUME IInv, StartFails PROVE IInv'
<1>1. node' \in NodeState /\ node'.tasks = node.tasks /\ node'.newest = node.newest
  BY DEF IInv, TypeOK, NodeState, StartFails
<1>2. page' \in [version : Nat, casting : {"no", "yes"}, frames : Seq(Nat)]
  BY DEF IInv, TypeOK, StartFails
<1>3. screen' \in Screen
  BY DEF IInv, TypeOK, Screen, StartFails
<1>4. UNCHANGED <<viewer, streams, unsent, hub, wire>>
  BY DEF StartFails
<1> QED BY <1>1, <1>2, <1>3, <1>4, NodeOnly DEF IInv, TypeOK, NextStartWins

LEMMA StopAllInv == ASSUME IInv, stop_all_screencasts PROVE IInv'
<1>1. node' \in NodeState /\ node'.tasks = node.tasks /\ node'.newest = node.newest
  BY DEF IInv, TypeOK, NodeState, stop_all_screencasts
<1>2. page' \in [version : Nat, casting : {"no", "yes"}, frames : Seq(Nat)]
  BY DEF IInv, TypeOK, stop_all_screencasts
<1>3. screen' \in Screen
  BY DEF IInv, TypeOK, Screen, stop_all_screencasts
<1> QED BY <1>1, <1>2, <1>3, NodeOnly DEF IInv, TypeOK, NextStartWins, stop_all_screencasts

LEMMA PaintInv == ASSUME IInv, Paint PROVE IInv'
<1>1. page.version \in Nat /\ page.frames \in Seq(Nat)
  BY DEF IInv, TypeOK
<1>2. page.version + 1 \in Nat
  BY <1>1
<1>3. Append(page.frames, page.version + 1) \in Seq(Nat)
  BY <1>1, <1>2, AppendTyped
<1>4. PICK n \in Nat, fs \in Seq(Nat) : page' = [page EXCEPT !.version = n, !.frames = fs]
  <2>1. CASE page.casting = "yes"
    <3>1. page' = [page EXCEPT !.version = page.version + 1,
                               !.frames = Append(page.frames, page.version + 1)]
      BY <2>1 DEF Paint
    <3> QED BY <1>2, <1>3, <3>1
  <2>2. CASE page.casting # "yes"
    <3>1. page' = [page EXCEPT !.version = page.version + 1, !.frames = page.frames]
      BY <2>2 DEF Paint
    <3> QED BY <1>1, <1>2, <3>1
  <2> QED BY <2>1, <2>2
<1>5. page' \in [version : Nat, casting : {"no", "yes"}, frames : Seq(Nat)]
  BY <1>4 DEF IInv, TypeOK
<1>6. UNCHANGED <<viewer, streams, unsent, hub, wire, node, screen>>
  BY DEF Paint
<1> QED BY <1>5, <1>6, NodeOnly DEF IInv, TypeOK, NextStartWins

LEMMA FrameInv == ASSUME IInv, on_screencast_frame PROVE IInv'
<1>1. page.frames \in Seq(Nat) /\ page.frames # <<>>
  BY DEF IInv, TypeOK, on_screencast_frame
<1>2. Head(page.frames) \in Nat /\ Tail(page.frames) \in Seq(Nat)
  BY <1>1, TailTyped
<1>3. page' \in [version : Nat, casting : {"no", "yes"}, frames : Seq(Nat)]
  BY <1>2 DEF IInv, TypeOK, on_screencast_frame
<1>4. UNCHANGED <<viewer, streams, unsent, hub, node>>
  BY DEF on_screencast_frame
<1>5. /\ screen' \in Screen /\ wire'.down = wire.down
      /\ wire' \in [down : Seq(Action), up : Seq(Message)]
  <2>1. CASE UNCHANGED <<screen, wire>>
    BY <2>1 DEF IInv, TypeOK
  <2>2. CASE flush_frame([screen EXCEPT !.got = "yes", !.latest = Head(page.frames)])
    <3>1. [screen EXCEPT !.got = "yes", !.latest = Head(page.frames)] \in Screen
      BY <1>2 DEF IInv, TypeOK, Screen
    <3> QED BY <2>2, <3>1, FlushTyped DEF IInv
  <2> QED BY <2>1, <2>2 DEF on_screencast_frame
<1> QED BY <1>3, <1>4, <1>5, NodeOnly DEF IInv, TypeOK, NextStartWins

LEMMA FallbackInv == ASSUME IInv, fallback_frame PROVE IInv'
<1>1. page.version \in Nat
  BY DEF IInv, TypeOK
<1>2. node' \in NodeState /\ node'.tasks = node.tasks /\ node'.newest = node.newest
  BY DEF IInv, TypeOK, NodeState, fallback_frame
<1>3. UNCHANGED <<viewer, streams, unsent, hub, page>>
  BY DEF fallback_frame
<1>4. /\ screen' \in Screen /\ wire'.down = wire.down
      /\ wire' \in [down : Seq(Action), up : Seq(Message)]
  <2>1. CASE UNCHANGED <<screen, wire>>
    BY <2>1 DEF IInv, TypeOK
  <2>2. CASE flush_frame([screen EXCEPT !.latest = page.version])
    <3>1. [screen EXCEPT !.latest = page.version] \in Screen
      BY <1>1 DEF IInv, TypeOK, Screen
    <3> QED BY <2>2, <3>1, FlushTyped DEF IInv
  <2> QED BY <2>1, <2>2 DEF fallback_frame
<1> QED BY <1>2, <1>3, <1>4, NodeOnly DEF IInv, TypeOK, NextStartWins

LEMMA TimeoutInv == ASSUME IInv, AckTimesOut PROVE IInv'
<1>1. screen' \in Screen
  BY DEF IInv, TypeOK, Screen, AckTimesOut
<1> QED BY <1>1, NodeOnly DEF IInv, TypeOK, NextStartWins, AckTimesOut

LEMMA CloseInv == ASSUME IInv, CloseBrowser PROVE IInv'
<1>1. node' \in NodeState /\ node'.tasks = node.tasks /\ node'.newest = node.newest
  BY DEF IInv, TypeOK, NodeState, CloseBrowser
<1>2. screen' \in Screen
  BY DEF Screen, IdleScreen, CloseBrowser
<1>3. <<>> \in Seq(Nat)
  OBVIOUS
<1>4. page' \in [version : Nat, casting : {"no", "yes"}, frames : Seq(Nat)]
  BY <1>3 DEF IInv, TypeOK, CloseBrowser
<1>5. wire' \in [down : Seq(Action), up : Seq(Message)] /\ wire'.down = wire.down
  BY MessageTyped, EmitTyped DEF IInv, CloseBrowser
<1>6. UNCHANGED <<viewer, streams, unsent, hub>>
  BY DEF CloseBrowser
<1> QED BY <1>1, <1>2, <1>4, <1>5, <1>6, NodeOnly DEF IInv, TypeOK, NextStartWins

-----------------------------------------------------------------------------
LEMMA NextInv == ASSUME IInv, Next PROVE IInv'
<1>1. CASE \E v \in Viewer : Admit(v) \/ ViewerStep(v) \/ Leave(v)
  <2>1. PICK v \in Viewer : Admit(v) \/ ViewerStep(v) \/ Leave(v)
    BY <1>1
  <2> QED BY <2>1, AdmitInv, AddViewerInv, RecheckInv, DropInv, ViewerAckInv
          DEF ViewerStep, Leave, ToldDestroyed
<1>2. CASE \E v \in Viewer, s \in Size : set_params(v, s)
  BY <1>2, SetParamsInv
<1>3. CASE \E a \in Task : send_node_action(a)
  BY <1>3, SendInv
<1>4. CASE HubStep
  BY <1>4, OnFrameInv, KnownInv, DestroyInv, ResyncInv DEF HubStep
<1>5. CASE \E i, j \in 1..Len(wire.up) : i <= j /\ Lagged(i, j)
  BY <1>5, LaggedInv
<1>6. CASE NodeStep
  BY <1>6, RegisterInv, ReceiveInv, StartDoneInv, StopAllInv, TaskInv DEF NodeStep
<1>7. CASE ChromiumStep
  BY <1>7, FrameInv, FallbackInv DEF ChromiumStep
<1>8. CASE OtherRetires \/ unregister_machine \/ LoseConnection \/ StartFails \/ Paint \/ AckTimesOut \/ CloseBrowser
  BY <1>8, OtherRetiresInv, UnregisterInv, LoseInv, StartFailsInv, PaintInv, TimeoutInv, CloseInv
<1> QED BY <1>1, <1>2, <1>3, <1>4, <1>5, <1>6, <1>7, <1>8 DEF Next

LEMMA StutterInv == ASSUME IInv, UNCHANGED vars PROVE IInv'
<1>1. TypeOK'
  BY DEF IInv, TypeOK, vars
<1> QED BY <1>1 DEF IInv, NextStartWins, Ceiling, vars

LEMMA Inductive == Spec => []IInv
<1>1. Init => IInv
  BY InitInv
<1>2. IInv /\ [Next]_vars => IInv'
  BY NextInv, StutterInv
<1> QED BY <1>1, <1>2, PTL DEF Spec

(* The fan-out, the viewer sockets, the wire and the tab keep their types  *)
(* whatever the number of viewers, sizes and connections.                  *)
THEOREM CastTypes == Spec => []TypeOK
<1>1. IInv => TypeOK
  BY DEF IInv
<1> QED BY <1>1, Inductive, PTL

(* The next start the hub decides is never taken for an old one at the     *)
(* node: nothing decided, under way, waiting or applied has an epoch above *)
(* the one the hub counts up from, over retired fan-outs and connections.  *)
THEOREM StartsWin == Spec => []NextStartWins
<1>1. IInv => NextStartWins
  BY DEF IInv
<1> QED BY <1>1, Inductive, PTL

(* Types and epochs together, as the run checks them. *)
THEOREM CastSound == Spec => []CastIsSound
<1>1. IInv => CastIsSound
  BY DEF IInv, CastIsSound
<1> QED BY <1>1, Inductive, PTL
=============================================================================
