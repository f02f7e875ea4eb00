------------------------------- MODULE Access -------------------------------
(***************************************************************************)
(* Who may use a hub: accounts and how a first one comes to be             *)
(* (routes/auth.rs, first_run.rs), sessions, login codes, API tokens with  *)
(* their scopes (auth.rs, routes/api_tokens.rs, db/tokens.rs) and the      *)
(* registration of machines (routes/registration.rs, db/machines.rs).      *)
(*                                                                         *)
(* Handlers run side by side on pooled connections; what a handler has     *)
(* read and not yet acted on is a job of a worker, and every statement is  *)
(* a step.  Secrets are known to principals: people, the owner at the      *)
(* terminal the hub prints its links on, the development user, and agents, *)
(* the programs that people hand scoped tokens to.  Random ids and hashes  *)
(* are model values that are never reused.                                 *)
(***************************************************************************)
EXTENDS Naturals, FiniteSets

CONSTANTS
    People,      \* identities a provider (GitHub, Google) vouches for
    Agents,      \* programs that hold scoped API tokens
    Nodes,       \* machines that register
    Workers,     \* handlers that run at the same time
    Codes, Tokens, RegTokens,   \* bounds: codes and tokens ever minted
    Accesses,    \* scope lists people give tokens; {} is one that does not read
    AccessMixes  \* bounds: who signs in and what is minted in a behaviour: one of these

Identities == People \cup {"owner", "dev"}
Principals == Identities \cup Agents
Full == {"full"}               \* stored as no access list at all
NoOne == "no one"

VARIABLES
    use,         \* the member of AccessMixes this behaviour keeps to
    role,        \* per identity: the role of its account, or "none"
    job,         \* per worker: the handler it runs
    session,     \* pairs of a principal and the account its unexpired JWTs are for
    code,        \* per login code: its row and who knows it
    token,       \* per API token: its row and who holds it
    reg,         \* per registration token: its row
    machine,     \* pairs of a node and the account it is registered to
    socket,      \* principals with an open WebSocket
    redeemed     \* history: per login code, the sessions it was traded for

accessVars == <<use, role, job, session, code, token, reg, machine, socket, redeemed>>
Idle == [does |-> "nothing"]
NewCode == [state |-> "none", expired |-> FALSE, user |-> NoOne, known |-> {}]
NewToken == [state |-> "none", access |-> {}, user |-> NoOne, holder |-> NoOne]
NewReg == [state |-> "none", expired |-> FALSE, user |-> NoOne]

AccessTypeOK ==
    /\ role \in [Identities -> {"none", "admin", "user"}]
    /\ session \subseteq Principals \X Identities /\ socket \subseteq Principals
    /\ machine \subseteq Nodes \X Identities
    /\ \A c \in Codes : code[c].state \in {"none", "fresh", "used"} /\ code[c].known \subseteq Principals
    /\ \A t \in Tokens : token[t].state \in {"none", "live", "deleted"}
    /\ \A r \in RegTokens : reg[r].state \in {"none", "fresh", "used"}

AccessInit ==
    /\ use \in AccessMixes
    /\ role = [i \in Identities |-> "none"]
    /\ job = [w \in Workers |-> Idle]
    /\ session = {} /\ socket = {} /\ machine = {}
    /\ code = [c \in Codes |-> NewCode]
    /\ token = [t \in Tokens |-> NewToken]
    /\ reg = [r \in RegTokens |-> NewReg]
    /\ redeemed = [c \in Codes |-> 0]

Work(w, does) == job[w] = Idle /\ job' = [job EXCEPT ![w] = does]
Finish(w) == job' = [job EXCEPT ![w] = Idle]
count_users == Cardinality({i \in Identities : role[i] # "none"})
sign_jwt(p, user) == session' = session \cup {<<p, user>>}

-----------------------------------------------------------------------------
(* Signing in.  A provider vouches for a person, development mode for      *)
(* anyone, the hub's own terminal for the owner.                           *)

(* What a provider answers for a code, or the terminal or development mode *)
(* for itself: an identity.                                                *)
Vouched(i) == i \in use.who

find_user_by_provider(w, i) ==
    /\ Vouched(i)
    /\ \/ /\ role[i] # "none" /\ job[w] = Idle /\ sign_jwt(i, i)
          /\ UNCHANGED <<role, job, code, token, reg, machine, socket, redeemed>>
       \/ /\ role[i] = "none" /\ Work(w, [does |-> "sign in", who |-> i, role |-> "unknown"])
          /\ UNCHANGED <<role, session, code, token, reg, machine, socket, redeemed>>

(* Mutant of ChooseRole: the first of several at once counts itself too. *)
ChooseRoleLate(w) ==
    /\ job[w].does = "sign in" /\ job[w].role = "unknown"
    /\ LET busy == Cardinality({v \in Workers : job[v].does = "sign in"})
       IN job' = [job EXCEPT ![w].role = IF count_users + busy <= 1 THEN "admin" ELSE "user"]
    /\ UNCHANGED <<role, session, code, token, reg, machine, socket, redeemed>>

(* The first account is the administrator's; the owner's link is only for  *)
(* a hub that has no other account.                                        *)
ChooseRole(w) ==
    /\ job[w].does = "sign in" /\ job[w].role = "unknown"
    /\ \/ count_users = 0 /\ job' = [job EXCEPT ![w].role = "admin"]
       \/ count_users > 0 /\ job[w].who # "owner" /\ job' = [job EXCEPT ![w].role = "user"]
       \/ count_users > 0 /\ job[w].who = "owner" /\ Finish(w)
    /\ UNCHANGED <<role, session, code, token, reg, machine, socket, redeemed>>

(* The row of an identity is unique: the second of two inserts fails, and  *)
(* with it the sign-in.                                                    *)
create_user(w) ==
    /\ job[w].does = "sign in" /\ job[w].role # "unknown" /\ Finish(w)
    /\ LET i == job[w].who IN
       \/ role[i] = "none" /\ role' = [role EXCEPT ![i] = job[w].role] /\ sign_jwt(i, i)
       \/ role[i] # "none" /\ UNCHANGED <<role, session>>
    /\ UNCHANGED <<code, token, reg, machine, socket, redeemed>>

upsert_oauth_user_and_sign(w) == \E p \in People : find_user_by_provider(w, p)
dev_login(w) == find_user_by_provider(w, "dev")
owner_session(w) == find_user_by_provider(w, "owner")

-----------------------------------------------------------------------------
(* Presenting a credential. *)

SeeRuns == {"runs:read", "runs:answer", "runs:approve"}
Answer == {"runs:answer", "runs:approve"}
Scopes == SeeRuns \cup {"runs:start", "runs:message"}

(* Mutant of scoped_route: every authenticated route that is not about     *)
(* machines is open to any scope.                                          *)
AnyScopeOpens(route) == Scopes

(* The scopes that open a route; none for every route that is not listed.  *)
scoped_route(route) ==
    CASE route = "see runs" -> SeeRuns
      [] route = "answer" -> Answer
      [] route \in {"start", "agents"} -> {"runs:start"}
      [] route = "control" -> Answer \cup {"runs:start"}
      [] route = "machines" -> Scopes
      [] OTHER -> {}

(* The accounts a principal can prove to act for, by a session or by an    *)
(* API token that still exists, and with which access.                     *)
verify_bearer(p) ==
    {[user |-> s[2], access |-> Full] : s \in {s \in session : s[1] = p}} \cup
    {[user |-> token[t].user, access |-> token[t].access] :
        t \in {t \in Tokens : token[t].state = "live" /\ token[t].holder = p}}

(* Every route starts with this; a scoped token must name its scope. *)
from_request_parts(p, route) ==
    {a.user : a \in {a \in verify_bearer(p) : a.access = Full \/ a.access \cap scoped_route(route) # {}}}

(* A WebSocket takes full access only. *)
verify_bearer_token(p) ==
    /\ \E a \in verify_bearer(p) : a.access = Full
    /\ socket' = socket \cup {p}
    /\ UNCHANGED <<role, job, session, code, token, reg, machine, redeemed>>

session_token(p) ==
    /\ \E u \in from_request_parts(p, "session token") : sign_jwt(p, u)
    /\ UNCHANGED <<role, job, code, token, reg, machine, socket, redeemed>>

mint_login_code_with(p, u) ==
    \E c \in use.codes :
        /\ code[c].state = "none"
        /\ code' = [code EXCEPT ![c] = [state |-> "fresh", expired |-> FALSE, user |-> u, known |-> {p}]]
login_code(p) ==
    /\ \E u \in from_request_parts(p, "login code") : mint_login_code_with(p, u)
    /\ UNCHANGED <<role, job, session, token, reg, machine, socket, redeemed>>

(* The hub's terminal prints a link with a session and a code beside it. *)
PrintLink ==
    /\ role["owner"] # "none" /\ sign_jwt("owner", "owner") /\ mint_login_code_with("owner", "owner")
    /\ UNCHANGED <<role, job, token, reg, machine, socket, redeemed>>

(* Two phones that scan one code look it up before either has used it. *)
find_login_code(w) ==
    /\ \E c \in Codes : \E p \in code[c].known :
         /\ code[c].state = "fresh" /\ ~code[c].expired
         /\ Work(w, [does |-> "redeem", code |-> c, who |-> p])
    /\ UNCHANGED <<role, session, code, token, reg, machine, socket, redeemed>>

(* Mutant of consume_login_code: the row is marked whoever was first. *)
ConsumeAgain(c) == code' = [code EXCEPT ![c].state = "used"]

(* Only the update that finds the row unused has changed it. *)
consume_login_code(c) == code[c].state = "fresh" /\ code' = [code EXCEPT ![c].state = "used"]

redeem_login_code(w) ==
    /\ job[w].does = "redeem" /\ Finish(w)
    /\ LET c == job[w].code IN
       \/ /\ consume_login_code(c) /\ sign_jwt(job[w].who, code[c].user)
          /\ redeemed' = [redeemed EXCEPT ![c] = @ + 1]
       \/ code[c].state = "used" /\ UNCHANGED <<code, session, redeemed>>
    /\ UNCHANGED <<role, token, reg, machine, socket>>

(* A person keeps a full token for their own command line and hands a      *)
(* scoped one to an agent.  The list must not be empty.                    *)
create_token(p) ==
    /\ \E u \in from_request_parts(p, "api tokens"), t \in use.tokens :
         /\ token[t].state = "none"
         /\ \E q \in {p} \cup Agents, a \in (Accesses \ {{}}) \cup {Full} :
              /\ q # p => a # Full
              /\ token' = [token EXCEPT ![t] = [state |-> "live", access |-> a, user |-> u, holder |-> q]]
    /\ UNCHANGED <<role, job, session, code, reg, machine, socket, redeemed>>

(* A stored list that a newer hub wrote and this one cannot read opens     *)
(* nothing, and never everything.                                          *)
UnreadableAccess ==
    /\ {} \in Accesses
    /\ \E t \in Tokens : /\ token[t].state = "live" /\ token[t].access # Full
                         /\ token' = [token EXCEPT ![t].access = {}]
    /\ UNCHANGED <<role, job, session, code, reg, machine, socket, redeemed>>

delete_token(p) ==
    /\ \E u \in from_request_parts(p, "api tokens"), t \in Tokens :
         /\ token[t].state = "live" /\ token[t].user = u
         /\ token' = [token EXCEPT ![t].state = "deleted"]
    /\ UNCHANGED <<role, job, session, code, reg, machine, socket, redeemed>>

-----------------------------------------------------------------------------
(* Registering machines. *)

create_register_token(p) ==
    /\ \E u \in from_request_parts(p, "register token"), r \in use.regs :
         /\ reg[r].state = "none"
         /\ reg' = [reg EXCEPT ![r] = [state |-> "fresh", expired |-> FALSE, user |-> u]]
    /\ UNCHANGED <<role, job, session, code, token, machine, socket, redeemed>>

mint_registration_token ==
    /\ role["owner"] # "none"
    /\ \E r \in use.regs :
         /\ reg[r].state = "none"
         /\ reg' = [reg EXCEPT ![r] = [state |-> "fresh", expired |-> FALSE, user |-> "owner"]]
    /\ UNCHANGED <<role, job, session, code, token, machine, socket, redeemed>>

(* `service install` registers the machine it runs on by itself, and then  *)
(* prints a link; `link` prints one and starts nothing.                    *)
register_local_node == mint_registration_token
run_service == register_local_node \/ PrintLink
run_link == PrintLink

find_registration_token(w) ==
    /\ \E r \in RegTokens, n \in Nodes :
         /\ reg[r].state = "fresh" /\ ~reg[r].expired
         /\ ~\E v \in Workers : job[v].does \in {"register", "consume"} /\ job[v].node = n
         /\ Work(w, [does |-> "register", reg |-> r, node |-> n])
    /\ UNCHANGED <<role, session, code, token, reg, machine, socket, redeemed>>

create_machine(w) ==
    /\ job[w].does = "register"
    /\ machine' = machine \cup {<<job[w].node, reg[job[w].reg].user>>}
    /\ job' = [job EXCEPT ![w].does = "consume"]
    /\ UNCHANGED <<role, session, code, token, reg, socket, redeemed>>

(* The row is marked whether or not another machine was first. *)
consume_registration_token(w) ==
    /\ job[w].does = "consume" /\ Finish(w)
    /\ reg' = [reg EXCEPT ![job[w].reg].state = "used"]
    /\ UNCHANGED <<role, session, code, token, machine, socket, redeemed>>

-----------------------------------------------------------------------------
(* Time passes: codes after 15 minutes, registration tokens after a day,   *)
(* sessions after 180 days.  The hub stops and forgets what it was doing.  *)
TimePasses ==
    /\ \/ \E c \in Codes : /\ code[c].state = "fresh" /\ ~code[c].expired
                           /\ code' = [code EXCEPT ![c].expired = TRUE] /\ UNCHANGED <<reg, session>>
       \/ \E r \in RegTokens : /\ reg[r].state = "fresh" /\ ~reg[r].expired
                               /\ reg' = [reg EXCEPT ![r].expired = TRUE] /\ UNCHANGED <<code, session>>
       \/ \E s \in session : session' = session \ {s} /\ UNCHANGED <<code, reg>>
    /\ UNCHANGED <<role, job, token, machine, socket, redeemed>>

HubStops ==
    /\ job' = [w \in Workers |-> Idle] /\ socket' = {}
    /\ UNCHANGED <<role, session, code, token, reg, machine, redeemed>>

AccessStep ==
    \/ \E w \in Workers :
         \/ upsert_oauth_user_and_sign(w) \/ dev_login(w) \/ owner_session(w)
         \/ ChooseRole(w) \/ create_user(w)
         \/ find_login_code(w) \/ redeem_login_code(w)
         \/ find_registration_token(w) \/ create_machine(w) \/ consume_registration_token(w)
    \/ \E p \in Principals :
         \/ verify_bearer_token(p) \/ session_token(p) \/ login_code(p)
         \/ create_token(p) \/ delete_token(p) \/ create_register_token(p)
    \/ run_service \/ run_link \/ UnreadableAccess \/ TimePasses \/ HubStops

AccessNext == AccessStep /\ UNCHANGED use

AccessSpec == AccessInit /\ [][AccessNext]_accessVars

-----------------------------------------------------------------------------
(* Properties *)

(* A scoped token is never a way to more: whatever an agent does with its  *)
(* token, over any number of requests, it never holds a session, a login   *)
(* code, a full token or a WebSocket (scoped_route, verify_bearer_token).  *)
NoEscalation ==
    \A a \in Agents :
        /\ \A s \in session : s[1] # a
        /\ a \notin socket
        /\ \A c \in Codes : a \notin code[c].known
        /\ \A t \in Tokens : token[t].holder = a => token[t].access # Full

(* Two phones racing on one login code get one session between them        *)
(* (redeem_login_code, consume_login_code).                                *)
OneSessionPerCode == \A c \in Codes : redeemed[c] <= 1

(* As soon as anyone has an account some account is an administrator's,    *)
(* whatever sign-ins raced on the empty table and whichever inserts failed *)
(* or were cut off (upsert_oauth_user_and_sign, owner_user_id).            *)
SomeAdmin ==
    (\E i \in Identities : role[i] # "none") => \E i \in Identities : role[i] = "admin"

(* Nobody gets in by a sequence of allowed requests: scoped tokens stay    *)
(* scoped, a code is one session, and an installation with people has an   *)
(* administrator.                                                          *)
AccessIsSafe ==
    AccessTypeOK /\ NoEscalation /\ OneSessionPerCode /\ SomeAdmin
=============================================================================
