------------------------------ MODULE MCBrowser ------------------------------
(* Pages that people and agents share: control of the agent browser, and   *)
(* web previews of a machine's ports. A behaviour is of one scene: the     *)
(* other stands still in its first state.                                  *)
EXTENDS BrowserControl, WebPreview, TLC

VARIABLE scene

sceneVars == <<scene, vars, previewVars>>

SceneInit ==
    /\ scene \in {"control", "preview"}
    /\ Init
    /\ PreviewInit
    /\ scene # "preview" => framing = [s \in Streams |-> "length"]

SceneNext ==
    \/ /\ scene = "control" /\ Next
       /\ UNCHANGED <<scene, previewVars>>
    \/ /\ scene = "preview" /\ PreviewNext
       /\ UNCHANGED <<scene, vars>>

(* What each component's specification assumes, while its scene is on. *)
SceneFairness ==
    /\ \A r \in Reconciler : WF_vars(scene = "control" /\ ReconcileStep(r))
    /\ \A t \in Task : WF_vars(scene = "control" /\ ExpireStep(t))
    /\ WF_vars(scene = "control" /\ CheckControl)
    /\ WF_vars(scene = "control" /\ WakeUp)
    /\ \A s \in Streams : WF_previewVars(scene = "preview" /\ StreamStep(s))

SceneSpec == SceneInit /\ [][SceneNext]_sceneVars /\ SceneFairness
=============================================================================
