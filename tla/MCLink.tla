------------------------------- MODULE MCLink -------------------------------
(* What comes back after a connection broke: the machine's link and its    *)
(* attaches, and a client's replica of the hub. A behaviour is of one      *)
(* scene: the other stands still in its first state.                       *)
EXTENDS MachineLink, TLC

CONSTANTS
    k1, k2, k3
VARIABLES
    scene, e_stage, e_seqOf, e_next_event_seq, e_persisted, e_event_history,
    e_crashes, e_phase, e_snapSeq, e_lastSeq, e_known, e_replay, e_inbox, e_receiver

E == INSTANCE EventBus WITH
       Change <- {k1, k2, k3}, Foreign <- {}, EVENT_HISTORY_LIMIT <- 2,
       BroadcastCapacity <- 1, SEQ_RECOVERY_OFFSET <- 2, Workers <- 2,
       InitialSeq <- 1, MaxCrashes <- 0, stage <- e_stage, seqOf <- e_seqOf,
       next_event_seq <- e_next_event_seq, persisted <- e_persisted,
       event_history <- e_event_history, crashes <- e_crashes, phase <- e_phase,
       snapSeq <- e_snapSeq, lastSeq <- e_lastSeq, known <- e_known,
       replay <- e_replay, inbox <- e_inbox, receiver <- e_receiver

e_vars ==
    <<e_stage, e_seqOf, e_next_event_seq, e_persisted, e_event_history, e_crashes,
      e_phase, e_snapSeq, e_lastSeq, e_known, e_replay, e_inbox, e_receiver>>

sceneVars == <<scene, vars, e_vars>>

SceneInit ==
    /\ scene \in {"link", "replica"}
    /\ Init
    /\ E!Init

SceneNext ==
    \/ /\ scene = "link" /\ Next
       /\ UNCHANGED <<scene, e_vars>>
    \/ /\ scene = "replica" /\ E!Next
       /\ UNCHANGED <<scene, vars>>


(* What each component's specification assumes, while its scene is on. *)
SceneFairness ==
    /\ \A c \in Conn : WF_vars(scene = "link" /\ HubStep(c))
    /\ \A s \in Sock : WF_vars(scene = "link" /\ SocketStep(s))
    /\ WF_vars(scene = "link" /\ Receive)
    /\ WF_vars(scene = "link" /\ LeaveClosed)
    /\ \A k \in {k1, k2, k3} : WF_e_vars(scene = "replica" /\ (E!Number(k) \/ E!Record(k) \/ E!Broadcast(k)))
    /\ WF_e_vars(scene = "replica" /\ E!ClientStep)

SceneSpec == SceneInit /\ [][SceneNext]_sceneVars /\ SceneFairness

(* A client of the event bus that stays up ends with every change, also    *)
(* over a history that overran and with changes announced out of order     *)
(* (EventBus).                                                             *)
ClientCatchesUp ==
    E!ClientCatchesUp

=============================================================================
