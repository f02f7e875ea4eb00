--------------------------- MODULE AgentIdentity ---------------------------
(***************************************************************************)
(* Which coding agent runs in a pane, and the command that resumes it after *)
(* a reboot (crates/machine/src/revive.rs, codex_title.rs, agent_detect.rs): *)
(* pure functions over a process snapshot, Claude's session files and an    *)
(* argv, each compared with what its comment promises.                      *)
(*                                                                          *)
(* A token of an argv is abstracted to what the sanitizer tells apart: the  *)
(* list its name is in, whether it carries "=value", whether it starts with *)
(* a dash.  Process 1 is the pane's root; a parent may have exited (0) and, *)
(* with reused pids, even be a descendant.                                  *)
(***************************************************************************)
EXTENDS Naturals, Sequences, FiniteSets

CONSTANTS
    Flags,         \* the tokens an argv is made of, see Token
    Pids,          \* 1..n, the processes of a snapshot
    Names,         \* program names
    MaxArgs        \* bound: tokens after argv[0]

VARIABLES
    argv,          \* of the process that runs, without argv[0]
    parent, name,  \* the snapshot: pid -> parent, program name
    files          \* pids whose conversation can be told: a session file names this
                   \* pane's session (claude), exactly one rollout is open (codex)

identityVars == <<argv, parent, name, files>>

(* list: boolean, value, optional, strip_value, strip_bare, unknown, or word *)
Token == [list : {"boolean", "value", "optional", "strip_value", "strip_bare", "unknown", "word"},
          eq : BOOLEAN, dash : BOOLEAN]
FlagsAreTokens == Flags \subseteq Token

IdentityInit ==
    /\ argv = <<>>
    /\ parent = [p \in Pids |-> 0] /\ name = [p \in Pids |-> "sh"] /\ files = {}

-----------------------------------------------------------------------------
(* The sanitizer *)

Bare(tok) == tok.dash /\ ~tok.eq
(* Mutant: the token after a value flag is taken for its value, flag or not. *)
AnyValue(args, i) == i < Len(args)

HasValue(args, i) == i < Len(args) /\ ~args[i + 1].dash

(* How many tokens are consumed at i, and which of them are kept. *)
Consumed(args, i) ==
    IF Bare(args[i]) /\ args[i].list \in {"strip_value", "value"} /\ HasValue(args, i)
    THEN 2 ELSE 1

(* Mutant: positional arguments are kept. *)
KeepsWords(args, i) ==
    IF args[i].list = "word" \/ args[i].list = "boolean" THEN <<args[i]>> ELSE <<>>

KeptAt(args, i) ==
    LET tok == args[i] IN
    IF tok.eq THEN IF tok.dash /\ tok.list \in {"value", "optional"} THEN <<tok>> ELSE <<>>
    ELSE IF ~tok.dash \/ tok.list \in {"strip_bare", "strip_value", "unknown"} THEN <<>>
    ELSE IF tok.list \in {"boolean", "optional"} THEN <<tok>>
    ELSE IF tok.list = "value" /\ HasValue(args, i) THEN <<tok, args[i + 1]>> ELSE <<>>

sanitize_flags(args) ==
    LET from[i \in 1..Len(args) + 2] ==
            IF i > Len(args) THEN <<>> ELSE KeptAt(args, i) \o from[i + Consumed(args, i)]
    IN from[1]

Word == [list |-> "word", eq |-> FALSE, dash |-> FALSE]
ResumeFlag == [list |-> "strip_value", eq |-> FALSE, dash |-> TRUE]

(* argv[0] apart, "claude --resume <id>" and "codex resume <id>". *)
sanitize_claude_argv(args) == <<ResumeFlag, Word>> \o sanitize_flags(args)
sanitize_codex_argv(args) == <<Word, Word>> \o sanitize_flags(args)

-----------------------------------------------------------------------------
(* The process tree *)

Children(p) == {q \in Pids : parent[q] = p}

(* Mutant: the walk goes on below a match. *)
NestedToo(p, n) == FALSE

StopsAt(p, n) == p \in Pids /\ name[p] = n

(* One walk from the root; a match is not descended into. *)
find_named_descendants(root, n) ==
    LET reached[k \in 0..Cardinality(Pids)] ==
            IF k = 0 THEN {root}
            ELSE reached[k - 1] \cup
                 UNION {Children(p) : p \in {q \in reached[k - 1] : ~StopsAt(q, n)}}
    IN {p \in reached[Cardinality(Pids)] : name[p] = n}

(* At most one step more than there are processes up the parent links. *)
is_descendant(pid, ancestor) ==
    LET up[k \in 0..Cardinality(Pids) + 1] ==
            IF k = 0 THEN pid ELSE IF up[k - 1] = 0 \/ up[k - 1] = ancestor THEN up[k - 1]
            ELSE parent[up[k - 1]]
    IN pid # ancestor /\ up[Cardinality(Pids)] = ancestor

NoSession == 0

(* Exactly one candidate, or none. *)
match_claude_session(root) ==
    LET found == {p \in files : name[p] = "claude" /\ is_descendant(p, root)}
    IN IF Cardinality(found) = 1 THEN CHOOSE p \in found : TRUE ELSE NoSession

(* Exactly one codex process, with exactly one rollout open: never a guess. *)
rollout_for_pane(root) ==
    LET codex == find_named_descendants(root, "codex")
    IN IF Cardinality(codex) = 1 /\ codex \subseteq files THEN CHOOSE p \in codex : TRUE
       ELSE NoSession

(* The tri-state of one pane: "keep", "clear" or the process to resume.    *)
resume_command_for_pane(root) ==
    LET claude == find_named_descendants(root, "claude")
        codex == find_named_descendants(root, "codex") IN
    IF claude = {} /\ codex = {} THEN "clear"
    ELSE IF claude # {}
    THEN IF match_claude_session(root) = NoSession THEN "keep" ELSE "claude"
    ELSE IF rollout_for_pane(root) = NoSession THEN "keep" ELSE "codex"

(* In front of a pane that shows "node". *)
agent_for_pane(root) ==
    IF find_named_descendants(root, "claude") # {} THEN "claude"
    ELSE IF find_named_descendants(root, "codex") # {} THEN "codex" ELSE "none"

-----------------------------------------------------------------------------
(* Every argv and every snapshot is an input: an argv grows, or processes  *)
(* start, exec and are orphaned (one of the two: they do not meet).        *)

AddToken(tok) ==
    /\ parent = [p \in Pids |-> 0] /\ name = [p \in Pids |-> "sh"]
    /\ Len(argv) < MaxArgs /\ argv' = Append(argv, tok) /\ UNCHANGED <<parent, name, files>>

Reparent(p, q) ==
    /\ argv = <<>> /\ parent[p] # q /\ parent' = [parent EXCEPT ![p] = q]
    /\ UNCHANGED <<argv, name, files>>

Exec(p, n) ==
    /\ argv = <<>> /\ name[p] # n /\ name' = [name EXCEPT ![p] = n]
    /\ files' = files \ {p} /\ UNCHANGED <<argv, parent>>

WriteSessionFile(p) ==
    /\ argv = <<>> /\ name[p] # "sh" /\ p \notin files /\ files' = files \cup {p}
    /\ UNCHANGED <<argv, parent, name>>

IdentityNext ==
    \/ \E tok \in Flags : AddToken(tok)
    \/ \E p \in Pids :
          \/ \E q \in Pids \cup {0} : Reparent(p, q)
          \/ \E n \in Names : Exec(p, n)
          \/ WriteSessionFile(p)

IdentitySpec == IdentityInit /\ [][IdentityNext]_identityVars

-----------------------------------------------------------------------------
(* Properties *)

Owner(args, i) == i > 1 /\ Bare(args[i - 1]) /\ args[i - 1].list = "value"

(* What is kept is exactly what the sanitizer's rules say, position by     *)
(* position: allowlisted flags, and a word only as the value of one; the   *)
(* prompt a person started the agent with is never typed again.            *)
KeepsOnlyAllowed ==
    LET keep == {i \in 1..Len(argv) :
                    LET tok == argv[i] IN
                    \/ tok.dash /\ tok.eq /\ tok.list \in {"value", "optional"}
                    \/ Bare(tok) /\ tok.list \in {"boolean", "optional"}
                    \/ Bare(tok) /\ tok.list = "value" /\ i < Len(argv) /\ ~argv[i + 1].dash
                    \/ ~tok.dash /\ Owner(argv, i)}
        rank[i \in 0..Len(argv)] == IF i = 0 THEN 0 ELSE rank[i - 1] + (IF i \in keep THEN 1 ELSE 0)
        kept == sanitize_flags(argv)
    IN Len(kept) = rank[Len(argv)] /\ \A i \in keep : kept[rank[i]] = argv[i]

(* Captured again from the process that was resumed with it, the command   *)
(* stays the same: a second reboot resumes the same conversation with the  *)
(* same flags.                                                             *)
ResumeIsStable ==
    LET claude == sanitize_claude_argv(argv) codex == sanitize_codex_argv(argv)
    IN sanitize_claude_argv(claude) = claude /\ sanitize_codex_argv(codex) = codex

Ancestors(p) ==
    LET above[k \in 0..Cardinality(Pids)] ==
            IF k = 0 THEN {parent[p]}
            ELSE above[k - 1] \cup {parent[q] : q \in above[k - 1] \cap Pids}
    IN above[Cardinality(Pids)]

(* An agent started by another agent is not taken for the pane's own, and  *)
(* a session is resumed only when it is the only one below the pane, even  *)
(* when a reused pid has made the parent links circular.                   *)
NestedAgentsAreIgnored ==
    /\ \A n \in Names \ {"sh"} : \A p \in find_named_descendants(1, n) :
          p = 1 \/ (1 \in Ancestors(p) /\ (name[1] = n => p = 1))
    /\ \A n \in Names \ {"sh"} : \A p \in find_named_descendants(1, n) \ {1} :
          name[parent[p]] # n
    /\ match_claude_session(1) # NoSession => 1 \in Ancestors(match_claude_session(1))
    /\ resume_command_for_pane(1) \in {"claude", "codex"}
          => agent_for_pane(1) = resume_command_for_pane(1)

(* The agent of a pane is recognised as what it is and resumed as it was   *)
(* started.                                                                *)
IdentityIsSound ==
    KeepsOnlyAllowed /\ ResumeIsStable /\ NestedAgentsAreIgnored
=============================================================================
