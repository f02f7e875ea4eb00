----------------------------- MODULE PageFrames -----------------------------
(***************************************************************************)
(* What an agent reads of a page and does in it (machine/src/agent_browser,*)
(* frames.rs and snapshot.rs): the frames of the page over the sessions of *)
(* their processes, the snapshot with its refs, the way from an element to *)
(* page coordinates, filling a login, and giving files to a file chooser.  *)
(*                                                                         *)
(* Every frame holds one button, one form and its iframes, in this order.  *)
(* Between the calls of a command the page may navigate any frame.         *)
(***************************************************************************)
EXTENDS Naturals, Sequences, SequencesExt, FiniteSets

CONSTANTS
    Frames,         \* frame ids, numbers: 1 is the main frame, a child is larger than its parent
    MAX_FRAME_DEPTH,
    MaxLines,       \* lines a snapshot may have (MAX_SNAPSHOT_BYTES)
    MaxNavigations, \* bound: frames that navigate, once each
    PageChanges,    \* may frames navigate, and what (a set of page kinds)
    NoFrame         \* no frame, no field

VARIABLES
    parent,         \* per frame
    own,            \* frames that are a target of their own (out of process)
    hidden,         \* frames nobody can see
    form,           \* per frame: "none", "user", "pass"
    allowed,        \* per frame: its document is on an allowed domain
    document,       \* per frame: how often it navigated
    command,        \* what the agent does: "idle", "login", "upload"
    listed, todo,   \* login: the frames listed, and those whose script is yet to run
    candidates, filled, \* login: the forms found; the fields that were filled
    intercepting, dialog \* upload: choosers are intercepted; the page shows a dialog

frameVars == <<parent, own, hidden, form, allowed, document, command, listed, todo, candidates, filled, intercepting, dialog>>
pageShape == <<parent, own, hidden>>

-----------------------------------------------------------------------------
(* The frame tree. *)

Inner == Frames \ {1}
Children(f) == SetToSortSeq({g \in Inner : parent[g] = f}, <)
Local(f) == SelectSeq(Children(f), LAMBDA g : g \notin own)
Targets(f) == SelectSeq(Children(f), LAMBDA g : g \in own)

(* Page.getFrameTree of a session shows the frames of its own process. *)
RECURSIVE flatten_tree(_, _, _, _)
flatten_tree(f, up, depth, session) ==
    IF depth > MAX_FRAME_DEPTH THEN <<>>
    ELSE <<[id |-> f, session |-> session, parent |-> up, depth |-> depth, url |-> allowed[f]]>>
         \o FlattenSeq([i \in DOMAIN Local(f) |-> flatten_tree(Local(f)[i], f, depth + 1, session)])

(* Mutant of ChildDepth: an iframe of its own process is as deep as its parent. *)
SameDepth(meta) == meta.depth

ChildDepth(meta) == meta.depth + 1

(* A session is named after its root frame. *)
RECURSIVE visit_session(_, _, _)
visit_session(session, up, depth) ==
    LET flat == flatten_tree(session, up, depth, session)
        Below(m) == FlattenSeq([i \in DOMAIN Targets(m.id) |->
                        visit_session(Targets(m.id)[i], m.id, ChildDepth(m))])
        Deeper(m) == IF m.depth >= MAX_FRAME_DEPTH THEN <<>> ELSE Below(m)
    IN  flat \o FlattenSeq([i \in DOMAIN flat |-> Deeper(flat[i])])

enumerate_frames == visit_session(1, NoFrame, 0)

Meta(s, f) == CHOOSE m \in ToSet(s) : m.id = f
IsListed(s, f) == \E m \in ToSet(s) : m.id = f

(* The iframe elements whose boxes are added up, innermost first. *)
RECURSIVE owner_chain(_, _)
owner_chain(s, meta) ==
    IF meta.session = 1 THEN <<>>
    ELSE <<meta.session>> \o owner_chain(s, Meta(s, Meta(s, meta.session).parent))

-----------------------------------------------------------------------------
(* The snapshot. *)

(* The frames inside f whose trees were read. *)
collect_frame(s, f) ==
    SelectSeq(Children(f), LAMBDA g : g \notin hidden /\ IsListed(s, g) /\ Meta(s, f).depth < MAX_FRAME_DEPTH)

Blank == [lines |-> <<>>, refs |-> <<>>, truncated |-> FALSE]
PushLine(ctx, line) ==
    IF ctx.truncated \/ Len(ctx.lines) = MaxLines THEN [ctx EXCEPT !.truncated = TRUE]
    ELSE [ctx EXCEPT !.lines = Append(@, line)]

(* Mutant of RefName: refs are numbered within their frame. *)
RefOfFrame(ctx, f) == Len(SelectSeq(ctx.refs, LAMBDA r : r.frame = f)) + 1

RefName(ctx, f) == Len(ctx.refs) + 1

render_node(ctx, f) ==
    IF ctx.truncated THEN ctx
    ELSE PushLine([ctx EXCEPT !.refs = Append(@, [name |-> RefName(ctx, f), frame |-> f])], f)

RECURSIVE render_frame(_, _, _)
render_frame(s, ctx, f) ==
    LET Inside(c, g) == IF c.truncated THEN c ELSE render_frame(s, PushLine(c, g), g)
    IN  FoldLeft(Inside, render_node(ctx, f), collect_frame(s, f))

frames_to_text(s) == render_frame(s, Blank, 1)

-----------------------------------------------------------------------------
(* What the page does meanwhile. *)

Navigate(f) ==
    /\ command = "login" /\ document[f] = 0 /\ Cardinality({g \in Frames : document[g] > 0}) < MaxNavigations
    /\ \E page \in PageChanges, domain \in BOOLEAN :
          form' = [form EXCEPT ![f] = page] /\ allowed' = [allowed EXCEPT ![f] = domain]
    /\ document' = [document EXCEPT ![f] = @ + 1]
    /\ UNCHANGED <<pageShape, command, listed, todo, candidates, filled, intercepting, dialog>>

-----------------------------------------------------------------------------
(* Filling a login. *)

login ==
    /\ command = "idle" /\ command' = "login"
    /\ listed' = enumerate_frames
    /\ todo' = [i \in DOMAIN listed' |-> listed'[i].id]
    /\ candidates' = <<>> /\ filled' = <<>>
    /\ UNCHANGED <<pageShape, form, allowed, document, intercepting, dialog>>

(* Mutant of FoundForm: the domain is the one the frame was listed with. *)
FormAsListed(f) == [frame |-> f, form |-> form[f], allowed |-> Meta(listed, f).url, document |-> document[f]]

(* The script reports its document's origin together with its fields. *)
FoundForm(f) == [frame |-> f, form |-> form[f], allowed |-> allowed[f], document |-> document[f]]

eval_props ==
    /\ command = "login" /\ todo # <<>> /\ todo' = Tail(todo)
    /\ LET f == Head(todo) IN candidates' = IF form[f] = "none" THEN candidates ELSE Append(candidates, FoundForm(f))
    /\ UNCHANGED <<pageShape, form, allowed, document, command, listed, filled, intercepting, dialog>>

(* The first form with a password on an allowed domain, else the first     *)
(* without one.                                                            *)
FirstOf(kind) == SelectInSeq(candidates, LAMBDA c : c.form = kind /\ c.allowed)
chosen == IF FirstOf("pass") > 0 THEN FirstOf("pass") ELSE FirstOf("user")

(* The script's object lives as long as its document does. *)
fill_login_field ==
    /\ command = "login" /\ todo = <<>> /\ command' = "idle"
    /\ filled' = IF chosen > 0 /\ candidates[chosen].document = document[candidates[chosen].frame]
                 THEN <<candidates[chosen].frame, allowed[candidates[chosen].frame]>> ELSE <<>>
    /\ UNCHANGED <<pageShape, form, allowed, document, listed, todo, candidates, intercepting, dialog>>

-----------------------------------------------------------------------------
(* Giving files to the chooser that a click opens. *)

open_file_chooser ==
    /\ command = "idle" /\ ~dialog /\ command' = "upload" /\ intercepting' = TRUE
    /\ UNCHANGED <<pageShape, form, allowed, document, listed, todo, candidates, filled, dialog>>

(* It opened, or not in time: interception ends. *)
click_for_chooser ==
    /\ command = "upload" /\ ~dialog /\ command' = "idle" /\ intercepting' = FALSE
    /\ UNCHANGED <<pageShape, form, allowed, document, listed, todo, candidates, filled, dialog>>

(* The click makes the page show a dialog, and the command waits no longer. *)
ClickShowsDialog ==
    /\ command = "upload" /\ ~dialog /\ dialog' = TRUE /\ command' = "idle"
    /\ UNCHANGED <<pageShape, form, allowed, document, listed, todo, candidates, filled, intercepting>>

DialogAnswered ==
    /\ dialog /\ dialog' = FALSE
    /\ UNCHANGED <<pageShape, form, allowed, document, command, listed, todo, candidates, filled, intercepting>>

-----------------------------------------------------------------------------

FramesInit ==
    /\ parent \in {p \in [Inner -> Frames] : \A f \in Inner : p[f] < f}
    /\ own \in SUBSET Inner /\ hidden \in SUBSET Inner
    /\ form = [f \in Frames |-> IF f = 1 THEN "user" ELSE "none"]
    /\ allowed = [f \in Frames |-> f = 1] /\ document = [f \in Frames |-> 0]
    /\ command = "idle" /\ listed = <<>> /\ todo = <<>> /\ candidates = <<>> /\ filled = <<>>
    /\ intercepting = FALSE /\ dialog = FALSE

FramesNext ==
    \/ login \/ eval_props \/ fill_login_field
    \/ open_file_chooser \/ click_for_chooser \/ ClickShowsDialog \/ DialogAnswered
    \/ \E f \in Frames : Navigate(f)

FramesSpec == FramesInit /\ [][FramesNext]_frameVars

-----------------------------------------------------------------------------

RECURSIVE Depth(_)
Depth(f) == IF f = 1 THEN 0 ELSE 1 + Depth(parent[f])
RECURSIVE Path(_)
Path(f) == IF f = 1 THEN <<1>> ELSE <<f>> \o Path(parent[f])

(* Every frame no deeper than the limit is listed exactly once, however    *)
(* the processes cut the tree, and the way from an element to the page's   *)
(* coordinates crosses every process boundary above it, innermost first.   *)
FramesAreListed ==
    command = "login" =>
        /\ {listed[i].id : i \in DOMAIN listed} = {f \in Frames : Depth(f) <= MAX_FRAME_DEPTH}
        /\ Len(listed) = Cardinality({f \in Frames : Depth(f) <= MAX_FRAME_DEPTH})
        /\ \A m \in ToSet(listed) : owner_chain(listed, m) = SelectSeq(Path(m.id), LAMBDA f : f \in own)

(* A snapshot that was not cut short names the button of every frame that  *)
(* can be seen and read once, under a ref of its own.                      *)
Shown(f) == Depth(f) <= MAX_FRAME_DEPTH /\ \A i \in DOMAIN Path(f) : Path(f)[i] \notin hidden
SnapshotNamesEverything ==
    command = "login" =>
        LET snap == frames_to_text(listed) IN
        /\ \A i, j \in DOMAIN snap.refs : i # j => snap.refs[i].name # snap.refs[j].name /\ snap.refs[i].frame # snap.refs[j].frame
        /\ ~snap.truncated => {snap.refs[i].frame : i \in DOMAIN snap.refs} = {f \in Frames : Shown(f)}

(* A login is only ever filled into a document of an allowed domain,       *)
(* whatever navigated since its frame was listed.                          *)
LoginStaysOnItsDomains == filled # <<>> /\ command = "idle" => filled[2]

(* A command on a page with frames reaches the whole page and nothing      *)
(* else: every frame is listed, every visible button named, and a login    *)
(* stays on its domains.                                                   *)
FramesAreSound ==
    FramesAreListed /\ SnapshotNamesEverything /\ LoginStaysOnItsDomains
=============================================================================
