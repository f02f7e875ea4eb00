----------------------------- MODULE UiUpdates -----------------------------
(***************************************************************************)
(* The interface updates of the desktop application: the store of signed   *)
(* releases (crates/ui-updates/src/lib.rs) and the plugin that drives it   *)
(* (packages/desktop/src-tauri/src/ui_updates.rs).                         *)
(*                                                                         *)
(* A release is its sequence number; Bundled (0) stands for the assets     *)
(* built into the application, which the code keeps as None.  The store is *)
(* kept twice: in memory and in state.json; a save that fails, and a kill, *)
(* leave the two apart.                                                    *)
(***************************************************************************)
EXTENDS Naturals, FiniteSets

CONSTANTS
    Releases,       \* the sequence numbers of the releases ever published
    UiMaxFaults,    \* bound on failed writes, damaged files and kills
    NoStore,        \* no store is open
    Blank           \* the window shows no page yet

Bundled == 0
EmptyState == [current |-> Bundled, previous |-> Bundled, pending |-> Bundled,
               booting |-> FALSE, highest |-> 0]

VARIABLES
    published,   \* per pointer, the release its latest.json names
    broken,      \* releases whose page never gets as far as ui_ready
    saved,       \* state.json
    bundles,     \* releases whose bundle is whole under releases/
    store,       \* Inner.store: the state in memory, or NoStore
    loaded,      \* Inner.loaded
    ready,       \* Inner.ready
    running,     \* the application's process is up
    page,        \* what the window shows: a release, or Blank while it loads
    watchdog,    \* rounds the recovery task still has
    asking,      \* the check under way: which pointer, and what it has downloaded
    uiFaults,    \* faults so far
    reported,    \* history: the version of the last report that was accepted
    attempts     \* history: how often each release was handed to the window, up to 2

uiVars == <<published, broken, saved, bundles, store, loaded, ready, running, page,
            watchdog, asking, uiFaults, reported, attempts>>

NoCheck == [at |-> "idle", pointer |-> 0, answered |-> FALSE, release |-> Bundled]

UiStateType ==
    [current : Releases \cup {Bundled}, previous : Releases \cup {Bundled},
     pending : Releases \cup {Bundled}, booting : BOOLEAN,
     highest : Releases \cup {0}]

UiTypeOK ==
    /\ published \in [1..2 -> Releases \cup {Bundled}]
    /\ broken \subseteq Releases /\ bundles \subseteq Releases 
    /\ saved \in UiStateType /\ store \in UiStateType \cup {NoStore}
    /\ loaded \in Releases \cup {Bundled} /\ page \in Releases \cup {Bundled, Blank}
    /\ ready \in BOOLEAN /\ running \in BOOLEAN /\ watchdog \in 0..2
    /\ uiFaults \in 0..UiMaxFaults /\ attempts \in [Releases -> 0..2]

UiInit ==
    /\ published = [p \in 1..2 |-> Bundled]
    /\ broken \in SUBSET Releases
    /\ saved = EmptyState /\ store = NoStore /\ bundles = {}
    /\ loaded = Bundled /\ ready = FALSE /\ page = Blank /\ running = FALSE
    /\ watchdog = 0 /\ asking = NoCheck /\ uiFaults = 0
    /\ reported = Bundled /\ attempts = [r \in Releases |-> 0]

-----------------------------------------------------------------------------
(* The store.                                                              *)

\* load: the envelope verifies again and the bundle on disk has the signed
\* size and digest; a file that is gone or damaged is an error.
load(release) == release \in bundles

Refs(s) == {s.current, s.previous, s.pending} \ {Bundled}

\* begin_boot as a function of the state it starts from: an unfinished boot
\* falls back, a staged release takes over, and a release that does not load
\* gives way to the previous one.
Abandoned(s) ==
    IF s.booting THEN [s EXCEPT !.current = s.previous, !.previous = Bundled] ELSE s

Activated(s) ==
    IF s.pending # Bundled
    THEN [s EXCEPT !.previous = s.current, !.current = s.pending, !.pending = Bundled]
    ELSE s

Loadable(s) ==
    IF s.current = Bundled \/ load(s.current) THEN s
    ELSE [s EXCEPT !.current = IF load(s.previous) THEN s.previous ELSE Bundled,
                   !.previous = Bundled]

\* mutant: an unfinished boot is forgotten
TrustsEveryBoot(s) ==
    LET t == Loadable(Activated(s)) IN [t EXCEPT !.booting = (t.current # Bundled)]

begin_boot(s) ==
    LET t == Loadable(Activated(Abandoned(s)))
    IN  [t EXCEPT !.booting = (t.current # Bundled)]

\* mutant: the release kept to fall back to is pruned with the rest
KeepsWhatRuns(s) == bundles \cap {s.current, s.pending}

\* prune: only bundles that current, previous or pending name are kept.
prune(s) == bundles \cap Refs(s)

\* rollback: the state begin_boot is then called on.
RolledBack(s) ==
    [s EXCEPT !.current = s.previous, !.previous = Bundled, !.pending = Bundled,
              !.booting = FALSE]

Shows(r) ==
    /\ loaded' = r
    /\ attempts' = IF r = Bundled \/ attempts[r] = 2 THEN attempts ELSE [attempts EXCEPT ![r] = @ + 1]

Fault == uiFaults < UiMaxFaults /\ uiFaults' = uiFaults + 1

-----------------------------------------------------------------------------
(* The plugin.                                                             *)

\* setup: open the store and boot before the window exists, then start the
\* check and the recovery task.  A store that cannot be saved leaves the
\* bundled interface and no store; a kill after the save leaves bundles that
\* nothing names.
Launch ==
    /\ ~running
    /\ ready' = FALSE /\ page' = Blank /\ asking' = NoCheck
    /\ \/ /\ saved' = begin_boot(saved) /\ store' = saved'
          /\ Shows(saved'.current)
          /\ bundles' = prune(saved')
          /\ running' = TRUE /\ watchdog' = 2
          /\ UNCHANGED uiFaults
       \/ /\ Fault
          /\ saved' = begin_boot(saved) /\ store' = NoStore
          /\ loaded' = Bundled /\ running' = FALSE /\ watchdog' = 0
          /\ UNCHANGED <<bundles, attempts>>
       \/ /\ Fault
          /\ store' = NoStore /\ loaded' = Bundled /\ running' = TRUE /\ watchdog' = 2
          /\ UNCHANGED <<saved, bundles, attempts>>
    /\ UNCHANGED <<published, broken, reported>>

\* The window loads what the assets give it, whichever release that is now.
PageLoads ==
    /\ running /\ page = Blank
    /\ page' = loaded
    /\ UNCHANGED <<published, broken, saved, bundles, store, loaded, ready, running,
                   watchdog, asking, uiFaults, reported, attempts>>

\* mutant: any page's report marks the running release
AcceptsAnyPage(v) == TRUE

\* The version check of ui_ready and of Store::ready.
Accepts(v) == IF loaded # Bundled THEN store # NoStore /\ store.current = v ELSE v = Bundled

\* ui_ready: the page reports the version it is; the report may arrive after
\* a rollback has changed what is loaded.  A broken page never reports.
ui_ready ==
    /\ running /\ page # Blank /\ page \notin broken
    /\ Accepts(page)
    /\ IF loaded = Bundled
       THEN ready' = TRUE /\ UNCHANGED <<saved, store, uiFaults>>
       ELSE \/ /\ store' = [store EXCEPT !.booting = FALSE] /\ saved' = store'
               /\ ready' = TRUE /\ UNCHANGED uiFaults
            \/ /\ Fault
               /\ store' = [store EXCEPT !.booting = FALSE]
               /\ UNCHANGED <<saved, ready>>
    /\ reported' = page
    /\ UNCHANGED <<published, broken, bundles, loaded, running, page, watchdog, asking,
                   attempts>>

\* ui_recover: roll back, and reload the window.  A save that fails leaves
\* the store rolled back in memory only, and what is loaded as it was.
Recovers ==
    /\ store # NoStore
    /\ LET s == begin_boot(RolledBack(store))
       IN  /\ store' = s
           /\ \/ /\ saved' = s /\ Shows(s.current) /\ bundles' = prune(s)
                 /\ ready' = FALSE
                 /\ UNCHANGED uiFaults
              \/ Fault /\ UNCHANGED <<saved, loaded, attempts, bundles, ready>>

\* The window is reloaded after the lock is released, so the old page may
\* still report; it is not reloaded when the rollback failed.
ui_recover ==
    /\ running
    /\ Recovers
    /\ UNCHANGED <<published, broken, running, page, watchdog, asking, reported>>

Reload ==
    /\ running /\ page \notin {Blank, loaded}
    /\ page' = Blank
    /\ UNCHANGED <<published, broken, saved, bundles, store, loaded, ready, running,
                   watchdog, asking, uiFaults, reported, attempts>>

\* One round of the recovery task, 45 seconds after the one before: it ends
\* when the interface is ready or bundled, and when a rollback fails.
Watchdog ==
    /\ running /\ watchdog > 0
    /\ IF loaded # Bundled /\ ~ready
       THEN /\ Recovers
            /\ watchdog' = IF uiFaults' = uiFaults THEN watchdog - 1 ELSE 0
       ELSE /\ watchdog' = 0
            /\ UNCHANGED <<store, saved, loaded, attempts, bundles, ready, uiFaults>>
    /\ UNCHANGED <<published, broken, running, page, asking, reported>>

\* ui_check: one check at a time, and none without a store.
ui_check ==
    /\ running /\ store # NoStore /\ asking.at = "idle"
    /\ asking' = [NoCheck EXCEPT !.at = "pointer", !.pointer = 1]
    /\ UNCHANGED <<published, broken, saved, bundles, store, loaded, ready, running, page,
                   watchdog, uiFaults, reported, attempts>>

\* ask_in_turn: the next pointer, or the end of the check.
NextPointer(answered) ==
    asking' = IF asking.pointer = 2 THEN NoCheck
              ELSE [at |-> "pointer", pointer |-> asking.pointer + 1,
                    answered |-> answered, release |-> Bundled]

\* check_pointer up to the bundle's download: a pointer that cannot be read
\* or verified is an error; one that names nothing newer says "current".
AskPointer ==
    /\ running /\ asking.at = "pointer"
    /\ LET r == published[asking.pointer]
       IN  \/ /\ r # Bundled /\ r > store.highest
              /\ asking' = [asking EXCEPT !.at = "bundle", !.release = r]
           \/ /\ r # Bundled /\ r <= store.highest
              /\ NextPointer(TRUE)
           \/ NextPointer(asking.answered)
    /\ UNCHANGED <<published, broken, saved, bundles, store, loaded, ready, running, page,
                   watchdog, uiFaults, reported, attempts>>

\* The download of the bundle fails, or what came does not decode.
DownloadFails ==
    /\ running /\ asking.at = "bundle"
    /\ NextPointer(asking.answered)
    /\ UNCHANGED <<published, broken, saved, bundles, store, loaded, ready, running, page,
                   watchdog, uiFaults, reported, attempts>>

\* The replay check of stage, made again: the state may have changed since
\* check_pointer read it.
Newer(r) == r > store.highest

\* stage: the bundle is on disk before the state that names it is saved; a
\* write that fails ends the check with an error, and after a failed save the
\* release is staged in memory only.
stage ==
    /\ running /\ asking.at = "bundle"
    /\ LET r == asking.release
           s == [store EXCEPT !.highest = r, !.pending = r]
       IN  IF ~Newer(r)
           THEN asking' = NoCheck /\ UNCHANGED <<bundles, store, saved, uiFaults>>
           ELSE \/ /\ bundles' = bundles \cup {r} /\ store' = s /\ saved' = s
                   /\ asking' = NoCheck /\ UNCHANGED uiFaults
                \/ /\ Fault /\ NextPointer(asking.answered)
                   /\ bundles' = bundles \cup {r} /\ store' = s /\ UNCHANGED saved
                \/ /\ Fault /\ NextPointer(asking.answered)
                   /\ UNCHANGED <<bundles, store, saved>>
    /\ UNCHANGED <<published, broken, loaded, ready, running, page, watchdog, reported,
                   attempts>>

-----------------------------------------------------------------------------
(* The surroundings.                                                       *)

\* A pointer names a newer release; either may lag behind the other.
Publish(p) ==
    /\ \E r \in Releases :
          r > published[p] /\ published' = [published EXCEPT ![p] = r]
    /\ UNCHANGED <<broken, saved, bundles, store, loaded, ready, running, page, watchdog,
                   asking, uiFaults, reported, attempts>>

\* The application ends: a quit, a crash or a kill, at any point.
Quit ==
    /\ running
    /\ running' = FALSE /\ store' = NoStore /\ loaded' = Bundled /\ ready' = FALSE
    /\ page' = Blank /\ watchdog' = 0 /\ asking' = NoCheck
    /\ UNCHANGED <<published, broken, saved, bundles, uiFaults, reported, attempts>>

\* A bundle is damaged on disk.
Damage ==
    /\ Fault
    /\ \E r \in bundles : bundles' = bundles \ {r}
    /\ UNCHANGED <<published, broken, saved, store, loaded, ready, running, page, watchdog,
                   asking, reported, attempts>>

UiNext ==
    \/ Launch \/ PageLoads \/ ui_ready \/ ui_recover \/ Reload \/ Watchdog
    \/ ui_check \/ AskPointer \/ DownloadFails \/ stage
    \/ \E p \in 1..2 : Publish(p)
    \/ Quit \/ Damage

UiSpec == UiInit /\ [][UiNext]_uiVars

-----------------------------------------------------------------------------
(* Properties.                                                             *)

\* A release whose interface never comes up is given to the window once:
\* whatever is interrupted, damaged or rolled back meanwhile, neither the
\* next launch, nor the recovery task, nor a later check brings it back.
BrokenRunsOnce == \A r \in broken : attempts[r] <= 1

\* As long as nothing outside the store touches its files, every release that
\* state.json or the running store can still turn to has its bundle on disk:
\* stage writes before it names, and prune runs after the save.
BundlesStay ==
    uiFaults = 0 => Refs(saved) \cup (IF store = NoStore THEN {} ELSE Refs(store)) \subseteq bundles

\* What counts as up is what is loaded: the report of a page that a rollback
\* has since replaced never vouches for the release that replaced it.
ReadyIsWhatRuns == ready => reported = loaded

(* An update can only make the interface better: a broken one runs once,   *)
(* what may run is on disk, and only what runs is called ready.            *)
UiIsSound ==
    UiTypeOK /\ BrokenRunsOnce /\ BundlesStay /\ ReadyIsWhatRuns
=============================================================================
