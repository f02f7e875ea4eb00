---------------------------- MODULE InstallProofs ----------------------------
(***************************************************************************)
(* Proofs about an installation: who may use it (Access), for any number   *)
(* of people, agents, handlers, codes and tokens; the interface that its   *)
(* desktop application shows (UiUpdates), for any number of releases,      *)
(* faults and restarts; and the hubs a device saved (SavedHubs), for any   *)
(* number of hubs, keys, codes, slots and faults. The components share no  *)
(* variable.                                                               *)
(***************************************************************************)
EXTENDS Access, UiUpdates, SavedHubs, SequenceTheorems, FiniteSetTheorems, TLAPS

(* What a handler keeps between two of its statements. *)
SignIns == [does : {"sign in"}, who : Identities, role : {"unknown", "admin", "user"}]
Redeems == [does : {"redeem"}, code : Codes, who : Principals]
Registers == [does : {"register", "consume"}, reg : RegTokens, node : Nodes]
Jobs == {Idle} \cup SignIns \cup Redeems \cup Registers

Users == Identities \cup {NoOne}
CodeRows == [state : {"none", "fresh", "used"}, expired : BOOLEAN, user : Users, known : SUBSET Principals]
TokenRows == [state : {"none", "live", "deleted"}, access : Accesses \cup {Full, {}}, user : Users,
              holder : Principals \cup {NoOne}]
RegRows == [state : {"none", "fresh", "used"}, expired : BOOLEAN, user : Users]

Shape ==
    /\ role \in [Identities -> {"none", "admin", "user"}]
    /\ job \in [Workers -> Jobs]
    /\ session \subseteq Principals \X Identities /\ socket \subseteq Principals
    /\ machine \subseteq Nodes \X Identities
    /\ code \in [Codes -> CodeRows]
    /\ token \in [Tokens -> TokenRows]
    /\ reg \in [RegTokens -> RegRows]
    /\ redeemed \in [Codes -> Nat]

(* A row that was ever written names an account; so does the row that a    *)
(* registration is about.                                                  *)
RowsNameAccounts ==
    /\ \A c \in Codes : code[c].state # "none" => code[c].user \in Identities
    /\ \A t \in Tokens : token[t].state # "none" => token[t].user \in Identities
    /\ \A r \in RegTokens : reg[r].state # "none" => reg[r].user \in Identities
    /\ \A w \in Workers : job[w] \in Registers => reg[job[w].reg].state # "none"

(* No agent is about to be given a session for a code. *)
NoAgentRedeems == \A w \in Workers : job[w] \in Redeems => job[w].who \notin Agents

(* A code that was traded is used up. *)
TradedIsUsed ==
    \A c \in Codes : redeemed[c] <= 1 /\ (redeemed[c] = 1 => code[c].state = "used")

(* Who is to be a mere user is not the first. *)
UserIsNotFirst ==
    (\E w \in Workers : job[w] \in SignIns /\ job[w].role = "user") => \E i \in Identities : role[i] # "none"

AccessInv ==
    /\ Shape
    /\ RowsNameAccounts
    /\ NoEscalation
    /\ NoAgentRedeems
    /\ TradedIsUsed
    /\ SomeAdmin
    /\ UserIsNotFirst

-----------------------------------------------------------------------------
(* Who can prove what *)

(* A principal that a route without scopes lets in holds full access to    *)
(* the account, so it is no agent, and the account is one.                 *)
LEMMA FullOnly ==
    ASSUME Shape, RowsNameAccounts, NoEscalation, NEW p \in Principals,
           NEW route \in {"session token", "login code", "api tokens", "register token"},
           NEW u \in from_request_parts(p, route)
    PROVE  p \notin Agents /\ u \in Identities
<1>1. scoped_route(route) = {}
  BY DEF scoped_route
<1>2. PICK a \in verify_bearer(p) : a.user = u /\ a.access = Full
  BY <1>1 DEF from_request_parts
<1>3. CASE \E s \in session : s[1] = p /\ a = [user |-> s[2], access |-> Full]
  <2>1. PICK s \in session : s[1] = p /\ a = [user |-> s[2], access |-> Full]
    BY <1>3
  <2>2. s \in Principals \X Identities
    BY <2>1 DEF Shape
  <2>3. a.user = s[2] /\ s[2] \in Identities
    BY <2>1, <2>2
  <2> QED BY <1>2, <2>1, <2>3 DEF NoEscalation
<1>4. CASE \E t \in Tokens : /\ token[t].state = "live" /\ token[t].holder = p
                             /\ a = [user |-> token[t].user, access |-> token[t].access]
  <2>1. PICK t \in Tokens : /\ token[t].state = "live" /\ token[t].holder = p
                            /\ a = [user |-> token[t].user, access |-> token[t].access]
    BY <1>4
  <2>2. a.user = token[t].user /\ a.access = token[t].access
    BY <2>1
  <2> QED BY <1>2, <2>1, <2>2 DEF NoEscalation, RowsNameAccounts
<1> QED BY <1>2, <1>3, <1>4 DEF verify_bearer

(* Nor is a principal with any full credential. *)
LEMMA FullHolder ==
    ASSUME NoEscalation, NEW p \in Principals, \E a \in verify_bearer(p) : a.access = Full
    PROVE  p \notin Agents
<1>1. PICK a \in verify_bearer(p) : a.access = Full
  OBVIOUS
<1>2. \/ \E s \in session : s[1] = p
      \/ \E t \in Tokens : token[t].holder = p /\ token[t].access = Full
  <2>1. \/ \E s \in session : s[1] = p /\ a = [user |-> s[2], access |-> Full]
        \/ \E t \in Tokens : token[t].holder = p /\ a = [user |-> token[t].user, access |-> token[t].access]
    BY <1>1 DEF verify_bearer
  <2> QED BY <1>1, <2>1
<1> QED BY <1>2 DEF NoEscalation

-----------------------------------------------------------------------------
(* One lemma per group of handlers *)

LEMMA JobKinds ==
    ASSUME NEW j \in Jobs
    PROVE  /\ j.does = "nothing" <=> j = Idle
           /\ j.does = "sign in" <=> j \in SignIns
           /\ j.does = "redeem" <=> j \in Redeems
           /\ j.does \in {"register", "consume"} <=> j \in Registers
           /\ j = Idle => j \notin SignIns /\ j \notin Redeems /\ j \notin Registers
           /\ j \in SignIns => j \notin Redeems /\ j \notin Registers
           /\ j \in Redeems => j \notin Registers
<1>1. Idle.does = "nothing"
  BY DEF Idle
<1>2. \A k \in SignIns : k.does = "sign in"
  BY DEF SignIns
<1>3. \A k \in Redeems : k.does = "redeem"
  BY DEF Redeems
<1>4. \A k \in Registers : k.does \in {"register", "consume"}
  BY DEF Registers
<1>5. j = Idle \/ j \in SignIns \/ j \in Redeems \/ j \in Registers
  BY DEF Jobs
<1> QED BY <1>1, <1>2, <1>3, <1>4, <1>5

LEMMA AccessInvInit ==
    ASSUME AccessInit
    PROVE  AccessInv
<1>1. Shape
  BY DEF AccessInit, Shape, Jobs, CodeRows, TokenRows, RegRows, Users, NewCode, NewToken, NewReg
<1>2. RowsNameAccounts /\ NoAgentRedeems /\ UserIsNotFirst
  <2>1. Idle \notin Registers /\ Idle \notin Redeems /\ Idle \notin SignIns
    BY JobKinds DEF Jobs
  <2>2. \A w \in Workers : job[w] = Idle
    BY DEF AccessInit
  <2>3. RowsNameAccounts
    BY <2>1, <2>2 DEF AccessInit, NewCode, NewToken, NewReg, RowsNameAccounts
  <2> QED BY <2>1, <2>2, <2>3 DEF NoAgentRedeems, UserIsNotFirst
<1>3. NoEscalation /\ TradedIsUsed /\ SomeAdmin
  <2>1. {} # Full
    BY DEF Full
  <2>2. NoEscalation
    BY <2>1 DEF AccessInit, NewCode, NewToken, NoEscalation
  <2> QED BY <2>2 DEF AccessInit, TradedIsUsed, SomeAdmin
<1> QED BY <1>1, <1>2, <1>3 DEF AccessInv

(* Steps that start, end or change nobody's sign-in keep what is known of  *)
(* the sign-ins.                                                           *)
LEMMA SignInsKept ==
    ASSUME SomeAdmin, UserIsNotFirst, UNCHANGED role,
           \A w \in Workers : job'[w] \in SignIns => job'[w] = job[w]
    PROVE  SomeAdmin' /\ UserIsNotFirst'
BY DEF SomeAdmin, UserIsNotFirst

LEMMA FindUser ==
    ASSUME AccessInv, Agents \cap Identities = {}, NEW w \in Workers, NEW i \in Identities,
           find_user_by_provider(w, i)
    PROVE  AccessInv'
<1> USE DEF AccessInv
<1>0. i \in Principals /\ i \notin Agents
  BY DEF Principals
<1>1. CASE role[i] # "none" /\ job[w] = Idle /\ sign_jwt(i, i)
           /\ UNCHANGED <<role, job, code, token, reg, machine, socket, redeemed>>
  <2>1. Shape'
    BY <1>0, <1>1 DEF Shape, sign_jwt
  <2>2. NoEscalation'
    BY <1>0, <1>1 DEF NoEscalation, sign_jwt
  <2> QED BY <1>1, <2>1, <2>2 DEF RowsNameAccounts, NoAgentRedeems, TradedIsUsed, SomeAdmin, UserIsNotFirst
<1>2. CASE role[i] = "none" /\ Work(w, [does |-> "sign in", who |-> i, role |-> "unknown"])
           /\ UNCHANGED <<role, session, code, token, reg, machine, socket, redeemed>>
  <2> DEFINE j == [does |-> "sign in", who |-> i, role |-> "unknown"]
  <2>1. j \in SignIns /\ j \in Jobs /\ j \notin Redeems /\ j \notin Registers /\ j.role = "unknown"
    BY DEF SignIns, Jobs, Redeems, Registers
  <2>2. job' = [job EXCEPT ![w] = j] /\ \A v \in Workers : job'[v] = (IF v = w THEN j ELSE job[v])
    BY <1>2 DEF Work, Shape
  <2> HIDE DEF j
  <2>3. Shape'
    BY <1>2, <2>1, <2>2 DEF Shape
  <2>4. RowsNameAccounts' /\ NoAgentRedeems'
    BY <1>2, <2>1, <2>2 DEF RowsNameAccounts, NoAgentRedeems
  <2>5. UserIsNotFirst'
    BY <1>2, <2>1, <2>2 DEF UserIsNotFirst
  <2> QED BY <1>2, <2>3, <2>4, <2>5 DEF NoEscalation, TradedIsUsed, SomeAdmin
<1> QED BY <1>1, <1>2 DEF find_user_by_provider

(* Only who finds an account is told to be a mere user. *)
LEMMA RoleChosen ==
    ASSUME AccessInv, NEW w \in Workers, ChooseRole(w)
    PROVE  AccessInv'
<1> USE DEF AccessInv
<1>1. job[w] \in SignIns
  BY JobKinds DEF ChooseRole, Shape
<1>2. PICK j \in Jobs : /\ \A v \in Workers : job'[v] = (IF v = w THEN j ELSE job[v])
                        /\ job' = [job EXCEPT ![w] = j]
                        /\ j \notin Redeems /\ j \notin Registers
                        /\ j \in SignIns /\ j.role = "user" => count_users > 0
  <2>1. CASE job' = [job EXCEPT ![w].role = "admin"]
    <3> DEFINE k == [job[w] EXCEPT !.role = "admin"]
    <3>1. k \in SignIns /\ k \in Jobs /\ k.role = "admin" /\ k \notin Redeems /\ k \notin Registers
      BY <1>1 DEF SignIns, Jobs, Redeems, Registers
    <3> QED BY <2>1, <3>1 DEF Shape
  <2>2. CASE job' = [job EXCEPT ![w].role = "user"] /\ count_users > 0
    <3> DEFINE k == [job[w] EXCEPT !.role = "user"]
    <3>1. k \in SignIns /\ k \in Jobs /\ k \notin Redeems /\ k \notin Registers
      BY <1>1 DEF SignIns, Jobs, Redeems, Registers
    <3> QED BY <2>2, <3>1 DEF Shape
  <2>3. CASE Finish(w)
    <3>1. Idle \in Jobs /\ Idle \notin Redeems /\ Idle \notin Registers /\ Idle \notin SignIns
      BY JobKinds DEF Jobs
    <3> QED BY <2>3, <3>1 DEF Shape, Finish
  <2> QED BY <2>1, <2>2, <2>3 DEF ChooseRole
<1>3. count_users > 0 => \E i \in Identities : role[i] # "none"
  <2>1. ASSUME ~\E i \in Identities : role[i] # "none"
        PROVE  count_users = 0
    <3>1. {i \in Identities : role[i] # "none"} = {}
      BY <2>1
    <3> QED BY <3>1, FS_EmptySet DEF count_users
  <2> QED BY <2>1
<1>4. UNCHANGED <<role, session, code, token, reg, machine, socket, redeemed>>
  BY DEF ChooseRole
<1>5. Shape'
  BY <1>2, <1>4 DEF Shape
<1>6. RowsNameAccounts' /\ NoAgentRedeems'
  BY <1>2, <1>4 DEF RowsNameAccounts, NoAgentRedeems
<1>7. UserIsNotFirst'
  BY <1>2, <1>3, <1>4 DEF UserIsNotFirst
<1> QED BY <1>4, <1>5, <1>6, <1>7 DEF NoEscalation, TradedIsUsed, SomeAdmin

(* An account that is not the first joins an administrator's. *)
LEMMA UserCreated ==
    ASSUME AccessInv, Agents \cap Identities = {}, NEW w \in Workers, create_user(w)
    PROVE  AccessInv'
<1> USE DEF AccessInv
<1>1. job[w] \in SignIns
  BY JobKinds DEF create_user, Shape
<1> DEFINE i == job[w].who
<1>2. i \in Identities /\ i \in Principals /\ i \notin Agents /\ job[w].role \in {"admin", "user"}
  BY <1>1 DEF SignIns, Principals, create_user
<1>3. /\ Idle \in Jobs /\ Idle \notin Redeems /\ Idle \notin Registers /\ Idle \notin SignIns
      /\ job' = [job EXCEPT ![w] = Idle]
      /\ \A v \in Workers : job'[v] = (IF v = w THEN Idle ELSE job[v])
  <2>1. Idle \in Jobs /\ Idle \notin Redeems /\ Idle \notin Registers /\ Idle \notin SignIns
    BY JobKinds DEF Jobs
  <2> QED BY <2>1 DEF create_user, Finish, Shape
<1>4. UNCHANGED <<code, token, reg, machine, socket, redeemed>>
  BY DEF create_user
<1>5. session' \subseteq session \cup {<<i, i>>}
  BY DEF create_user, sign_jwt
<1>6. \/ role' = role
      \/ role[i] = "none" /\ role' = [role EXCEPT ![i] = job[w].role]
  BY DEF create_user
<1>7. Shape'
  BY <1>2, <1>3, <1>4, <1>5, <1>6 DEF Shape
<1>8. RowsNameAccounts' /\ NoAgentRedeems' /\ TradedIsUsed'
  BY <1>3, <1>4 DEF RowsNameAccounts, NoAgentRedeems, TradedIsUsed
<1>9. NoEscalation'
  BY <1>2, <1>4, <1>5 DEF NoEscalation
<1>10. SomeAdmin' /\ UserIsNotFirst'
  <2>1. CASE role' = role
    BY <2>1, <1>3, SignInsKept
  <2>2. CASE role[i] = "none" /\ role' = [role EXCEPT ![i] = job[w].role]
    <3>1. role'[i] # "none" /\ \A k \in Identities : role[k] # "none" => role'[k] = role[k]
      BY <2>2, <1>2 DEF Shape
    <3>2. job[w].role = "user" => \E k \in Identities : role[k] = "admin"
      BY <1>1 DEF SomeAdmin, UserIsNotFirst
    <3>3. \E k \in Identities : role'[k] = "admin"
      <4>1. CASE job[w].role = "admin"
        BY <4>1, <2>2, <1>2 DEF Shape
      <4>2. CASE job[w].role = "user"
        BY <4>2, <3>1, <3>2
      <4> QED BY <1>2, <4>1, <4>2
    <3> QED BY <3>3 DEF SomeAdmin, UserIsNotFirst
  <2> QED BY <1>6, <2>1, <2>2
<1> QED BY <1>7, <1>8, <1>9, <1>10

(* What a handler that only adds to sessions, sockets or rows leaves alone: *)
(* the jobs and the accounts.                                              *)
LEMMA JobsKept ==
    ASSUME Shape, SomeAdmin, UserIsNotFirst, NoAgentRedeems, UNCHANGED <<role, job>>
    PROVE  SomeAdmin' /\ UserIsNotFirst' /\ NoAgentRedeems'
BY DEF SomeAdmin, UserIsNotFirst, NoAgentRedeems

LEMMA Session ==
    ASSUME AccessInv, NEW p \in Principals, verify_bearer_token(p) \/ session_token(p)
    PROVE  AccessInv'
<1> USE DEF AccessInv
<1>1. p \notin Agents /\ UNCHANGED <<role, job, code, token, reg, machine, redeemed>>
  BY FullHolder, FullOnly DEF verify_bearer_token, session_token
<1>2. session' = session \/ \E u \in Identities : session' = session \cup {<<p, u>>}
  BY FullOnly DEF verify_bearer_token, session_token, sign_jwt
<1>3. socket' = socket \/ socket' = socket \cup {p}
  BY DEF verify_bearer_token, session_token
<1>4. Shape'
  BY <1>1, <1>2, <1>3 DEF Shape
<1>5. NoEscalation'
  BY <1>1, <1>2, <1>3 DEF NoEscalation
<1> QED BY <1>1, <1>4, <1>5, JobsKept DEF RowsNameAccounts, TradedIsUsed

(* Codes are made by people, for accounts. *)
LEMMA CodeMinted ==
    ASSUME AccessInv, NEW p \in Principals, p \notin Agents, NEW u \in Identities,
           mint_login_code_with(p, u), UNCHANGED <<role, job, token, reg, machine, socket, redeemed>>,
           session' \subseteq session \cup (Identities \X Identities), Agents \cap Identities = {}
    PROVE  AccessInv'
<1> USE DEF AccessInv
<1> DEFINE row == [state |-> "fresh", expired |-> FALSE, user |-> u, known |-> {p}]
<1>1. PICK c : code[c].state = "none" /\ code' = [code EXCEPT ![c] = row]
  BY DEF mint_login_code_with
<1>2. row \in CodeRows
  BY DEF CodeRows, Users
<1>3. \A d \in Codes : code'[d] = (IF d = c THEN row ELSE code[d])
  BY <1>1 DEF Shape
<1>4. row.state = "fresh" /\ row.user = u /\ row.known = {p}
  OBVIOUS
<1> HIDE DEF row
<1>5. Shape'
  BY <1>1, <1>2 DEF Shape, Principals
<1>6. RowsNameAccounts'
  BY <1>3, <1>4 DEF RowsNameAccounts
<1>7. NoEscalation'
  BY <1>3, <1>4 DEF NoEscalation
<1>8. TradedIsUsed'
  BY <1>1, <1>3, <1>4 DEF TradedIsUsed
<1> QED BY <1>5, <1>6, <1>7, <1>8, JobsKept

(* A code is for who scanned it, and it is traded once. *)
LEMMA CodeRedeemed ==
    ASSUME AccessInv, NEW w \in Workers, find_login_code(w) \/ redeem_login_code(w)
    PROVE  AccessInv'
<1> USE DEF AccessInv
<1>1. CASE find_login_code(w)
  <2>1. PICK c \in Codes : \E p \in code[c].known : Work(w, [does |-> "redeem", code |-> c, who |-> p])
    BY <1>1 DEF find_login_code
  <2> PICK p \in code[c].known : Work(w, [does |-> "redeem", code |-> c, who |-> p])
    BY <2>1
  <2> DEFINE j == [does |-> "redeem", code |-> c, who |-> p]
  <2>2. p \in Principals /\ p \notin Agents
    BY <2>1 DEF Shape, CodeRows, NoEscalation
  <2>3. j \in Redeems /\ j \in Jobs /\ j \notin SignIns /\ j \notin Registers /\ j.who = p
    BY <2>2, JobKinds DEF Redeems, Jobs
  <2>4. job' = [job EXCEPT ![w] = j] /\ \A v \in Workers : job'[v] = (IF v = w THEN j ELSE job[v])
    BY <2>1 DEF Work, Shape
  <2>5. UNCHANGED <<role, session, code, token, reg, machine, socket, redeemed>>
    BY <1>1 DEF find_login_code
  <2> HIDE DEF j
  <2>6. Shape'
    BY <2>3, <2>4, <2>5 DEF Shape
  <2>7. RowsNameAccounts' /\ NoAgentRedeems'
    BY <2>2, <2>3, <2>4, <2>5 DEF RowsNameAccounts, NoAgentRedeems
  <2>8. SomeAdmin' /\ UserIsNotFirst'
    BY <2>3, <2>4, <2>5, SignInsKept
  <2> QED BY <2>5, <2>6, <2>7, <2>8 DEF NoEscalation, TradedIsUsed
<1>2. CASE redeem_login_code(w)
  <2>1. job[w] \in Redeems
    BY <1>2, JobKinds DEF redeem_login_code, Shape
  <2> DEFINE c == job[w].code
             p == job[w].who
  <2>2. c \in Codes /\ p \in Principals /\ p \notin Agents
    BY <2>1 DEF Redeems, NoAgentRedeems
  <2>3. /\ job' = [job EXCEPT ![w] = Idle]
        /\ Idle \in Jobs /\ \A v \in Workers : job'[v] = Idle \/ job'[v] = job[v]
        /\ Idle \notin SignIns /\ Idle \notin Redeems /\ Idle \notin Registers
    BY <1>2, JobKinds DEF redeem_login_code, Finish, Shape, Jobs
  <2>4. UNCHANGED <<role, token, reg, machine, socket>>
    BY <1>2 DEF redeem_login_code
  <2>5. NoAgentRedeems' /\ SomeAdmin' /\ UserIsNotFirst'
    BY <2>3, <2>4, SignInsKept DEF NoAgentRedeems
  <2>6. CASE UNCHANGED <<code, session, redeemed>>
    <3>1. Shape' /\ RowsNameAccounts'
      BY <2>3, <2>4, <2>6 DEF Shape, RowsNameAccounts
    <3> QED BY <2>4, <2>5, <2>6, <3>1 DEF NoEscalation, TradedIsUsed
  <2>7. CASE /\ code[c].state = "fresh" /\ code' = [code EXCEPT ![c].state = "used"]
             /\ session' = session \cup {<<p, code[c].user>>}
             /\ redeemed' = [redeemed EXCEPT ![c] = @ + 1]
    <3>1. /\ \A d \in Codes : /\ code'[d].user = code[d].user /\ code'[d].known = code[d].known
                              /\ code'[d].state = (IF d = c THEN "used" ELSE code[d].state)
          /\ code' \in [Codes -> CodeRows]
      BY <2>2, <2>7 DEF Shape, CodeRows
    <3>2. code[c].user \in Identities
      BY <2>2, <2>7 DEF RowsNameAccounts
    <3>3. redeemed[c] = 0
      BY <2>2, <2>7 DEF TradedIsUsed, Shape
    <3>4. redeemed' \in [Codes -> Nat] /\ \A d \in Codes : redeemed'[d] = (IF d = c THEN 1 ELSE redeemed[d])
      BY <2>2, <2>7, <3>3 DEF Shape
    <3>5. Shape'
      BY <2>2, <2>3, <2>4, <2>7, <3>1, <3>2, <3>4 DEF Shape
    <3>6. RowsNameAccounts'
      BY <2>3, <2>4, <3>1, <3>2 DEF RowsNameAccounts
    <3>7. NoEscalation'
      BY <2>2, <2>4, <2>7, <3>1 DEF NoEscalation
    <3>8. TradedIsUsed'
      BY <3>1, <3>4 DEF TradedIsUsed
    <3> QED BY <2>5, <3>5, <3>6, <3>7, <3>8
  <2> QED BY <1>2, <2>6, <2>7 DEF redeem_login_code, consume_login_code, sign_jwt
<1> QED BY <1>1, <1>2

(* A full token stays with the person who made it. *)
LEMMA TokenMade ==
    ASSUME AccessInv, NEW p \in Principals, create_token(p)
    PROVE  AccessInv'
<1> USE DEF AccessInv
<1>1. PICK u \in from_request_parts(p, "api tokens") : \E t \in use.tokens :
         /\ token[t].state = "none"
         /\ \E q \in {p} \cup Agents, a \in (Accesses \ {{}}) \cup {Full} :
              /\ q # p => a # Full
              /\ token' = [token EXCEPT ![t] = [state |-> "live", access |-> a, user |-> u, holder |-> q]]
  BY DEF create_token
<1>2. p \notin Agents /\ u \in Identities
  BY FullOnly
<1>2x. PICK t : \E q \in {p} \cup Agents, a \in (Accesses \ {{}}) \cup {Full} :
         /\ q # p => a # Full
         /\ token' = [token EXCEPT ![t] = [state |-> "live", access |-> a, user |-> u, holder |-> q]]
  BY <1>1
<1>3. PICK q \in {p} \cup Agents, a \in (Accesses \ {{}}) \cup {Full} :
         /\ q # p => a # Full
         /\ token' = [token EXCEPT ![t] = [state |-> "live", access |-> a, user |-> u, holder |-> q]]
  BY <1>2x
<1> DEFINE row == [state |-> "live", access |-> a, user |-> u, holder |-> q]
<1>4. row \in TokenRows /\ row.user = u /\ row.holder = q /\ row.access = a /\ q \in Principals
  BY <1>2 DEF TokenRows, Users, Principals
<1>5. token' = [token EXCEPT ![t] = row] /\ \A s \in Tokens : token'[s] = (IF s = t THEN row ELSE token[s])
  BY <1>3 DEF Shape
<1> HIDE DEF row
<1>6. UNCHANGED <<role, job, session, code, reg, machine, socket, redeemed>>
  BY DEF create_token
<1>7. Shape'
  BY <1>4, <1>5, <1>6 DEF Shape
<1>8. RowsNameAccounts'
  BY <1>2, <1>4, <1>5, <1>6 DEF RowsNameAccounts
<1>9. NoEscalation'
  <2>1. NoEscalation
    BY <1>2
  <2>2. \A g \in Agents : q = g => row.access # Full
    BY <1>2, <1>3, <1>4
  <2>3. \A g \in Agents, s \in Tokens : token'[s].holder = g => token'[s].access # Full
    BY <1>4, <1>5, <2>1, <2>2 DEF NoEscalation
  <2> QED BY <1>6, <2>1, <2>3 DEF NoEscalation
<1> QED BY <1>6, <1>7, <1>8, <1>9, JobsKept DEF TradedIsUsed

(* A token that is deleted or cannot be read opens less. *)
LEMMA TokenNarrowed ==
    ASSUME AccessInv, UnreadableAccess \/ \E p \in Principals : delete_token(p)
    PROVE  AccessInv'
<1> USE DEF AccessInv
<1>1. PICK t \in Tokens : /\ token[t].state = "live"
                          /\ \/ token' = [token EXCEPT ![t].access = {}]
                             \/ token' = [token EXCEPT ![t].state = "deleted"]
  BY DEF UnreadableAccess, delete_token
<1>2. UNCHANGED <<role, job, session, code, reg, machine, socket, redeemed>>
  BY DEF UnreadableAccess, delete_token
<1>3. /\ token' \in [Tokens -> TokenRows]
      /\ \A s \in Tokens : /\ token'[s].user = token[s].user /\ token'[s].holder = token[s].holder
                           /\ token'[s].access = token[s].access \/ token'[s].access = {}
                           /\ token[s].state = "none" => token'[s].state = "none"
  <2>1. CASE token' = [token EXCEPT ![t].access = {}]
    BY <1>1, <2>1 DEF Shape, TokenRows
  <2>2. CASE token' = [token EXCEPT ![t].state = "deleted"]
    BY <1>1, <2>2 DEF Shape, TokenRows
  <2> QED BY <1>1, <2>1, <2>2
<1>4. \A s \in Tokens : token'[s].state # "none" => token[s].state # "none"
  BY <1>3
<1>5. Shape' /\ RowsNameAccounts'
  BY <1>2, <1>3, <1>4 DEF Shape, RowsNameAccounts
<1>6. NoEscalation'
  BY <1>2, <1>3 DEF NoEscalation, Full
<1> QED BY <1>2, <1>5, <1>6, JobsKept DEF TradedIsUsed

(* Registration tokens are made for accounts. *)
LEMMA RegMade ==
    ASSUME AccessInv, (\E p \in Principals : create_register_token(p)) \/ mint_registration_token
    PROVE  AccessInv'
<1> USE DEF AccessInv
<1>0. PICK u \in Identities : \E r : reg' = [reg EXCEPT ![r] = [state |-> "fresh", expired |-> FALSE, user |-> u]]
  <2>1. CASE mint_registration_token
    BY <2>1 DEF mint_registration_token, Identities
  <2>2. ASSUME NEW p \in Principals, create_register_token(p)
        PROVE  \E u \in Identities : \E r : reg' = [reg EXCEPT ![r] = [state |-> "fresh", expired |-> FALSE, user |-> u]]
    BY <2>2, FullOnly DEF create_register_token
  <2> QED BY <2>1, <2>2
<1>1. PICK r : reg' = [reg EXCEPT ![r] = [state |-> "fresh", expired |-> FALSE, user |-> u]]
  BY <1>0
<1> DEFINE row == [state |-> "fresh", expired |-> FALSE, user |-> u]
<1>2. UNCHANGED <<role, job, session, code, token, machine, socket, redeemed>>
  BY DEF create_register_token, mint_registration_token
<1>3. row \in RegRows /\ row.state # "none" /\ row.user \in Identities
  BY DEF RegRows, Users
<1>4. reg' = [reg EXCEPT ![r] = row] /\ \A s \in RegTokens : reg'[s] = (IF s = r THEN row ELSE reg[s])
  BY <1>1 DEF Shape
<1> HIDE DEF row
<1>5. Shape'
  BY <1>2, <1>3, <1>4 DEF Shape
<1>6. RowsNameAccounts'
  <2>1. \A w \in Workers : job[w] \in Registers => job[w].reg \in RegTokens
    BY DEF Registers
  <2> QED BY <1>2, <1>3, <1>4, <2>1 DEF RowsNameAccounts
<1> QED BY <1>2, <1>5, <1>6, JobsKept DEF NoEscalation, TradedIsUsed

(* A machine is registered to the account of its token. *)
LEMMA Registered ==
    ASSUME AccessInv, NEW w \in Workers,
           find_registration_token(w) \/ create_machine(w) \/ consume_registration_token(w)
    PROVE  AccessInv'
<1> USE DEF AccessInv
<1>1. CASE find_registration_token(w)
  <2>1. PICK r \in RegTokens, n \in Nodes : /\ reg[r].state = "fresh"
                                            /\ Work(w, [does |-> "register", reg |-> r, node |-> n])
    BY <1>1 DEF find_registration_token
  <2> DEFINE j == [does |-> "register", reg |-> r, node |-> n]
  <2>2. j \in Registers /\ j \in Jobs /\ j.reg = r /\ j \notin SignIns /\ j \notin Redeems
    BY JobKinds DEF Registers, Jobs
  <2>3. job' = [job EXCEPT ![w] = j] /\ \A v \in Workers : job'[v] = (IF v = w THEN j ELSE job[v])
    BY <2>1 DEF Work, Shape
  <2>4. UNCHANGED <<role, session, code, token, reg, machine, socket, redeemed>>
    BY <1>1 DEF find_registration_token
  <2> HIDE DEF j
  <2>5. Shape'
    BY <2>2, <2>3, <2>4 DEF Shape
  <2>6. RowsNameAccounts' /\ NoAgentRedeems' /\ SomeAdmin' /\ UserIsNotFirst'
    BY <2>1, <2>2, <2>3, <2>4, SignInsKept DEF RowsNameAccounts, NoAgentRedeems
  <2> QED BY <2>4, <2>5, <2>6 DEF NoEscalation, TradedIsUsed
<1>2. CASE create_machine(w)
  <2>1. job[w] \in Registers /\ job[w].reg \in RegTokens /\ job[w].node \in Nodes
    BY <1>2, JobKinds DEF create_machine, Shape, Registers
  <2> DEFINE j == [job[w] EXCEPT !.does = "consume"]
  <2>2. j \in Registers /\ j \in Jobs /\ j.reg = job[w].reg /\ j \notin SignIns /\ j \notin Redeems
    BY <2>1, JobKinds DEF Registers, Jobs
  <2>3. job' = [job EXCEPT ![w] = j] /\ \A v \in Workers : job'[v] = (IF v = w THEN j ELSE job[v])
    BY <1>2 DEF create_machine, Shape
  <2>4. /\ UNCHANGED <<role, session, code, token, reg, socket, redeemed>>
        /\ machine' = machine \cup {<<job[w].node, reg[job[w].reg].user>>}
    BY <1>2 DEF create_machine
  <2> HIDE DEF j
  <2>5. reg[job[w].reg].user \in Identities
    BY <2>1 DEF RowsNameAccounts
  <2>6. Shape'
    BY <2>1, <2>2, <2>3, <2>4, <2>5 DEF Shape
  <2>7. RowsNameAccounts' /\ NoAgentRedeems' /\ SomeAdmin' /\ UserIsNotFirst'
    BY <2>1, <2>2, <2>3, <2>4, SignInsKept DEF RowsNameAccounts, NoAgentRedeems
  <2> QED BY <2>4, <2>6, <2>7 DEF NoEscalation, TradedIsUsed
<1>3. CASE consume_registration_token(w)
  <2>1. job[w] \in Registers /\ job[w].reg \in RegTokens
    BY <1>3, JobKinds DEF consume_registration_token, Shape, Registers
  <2>2. /\ job' = [job EXCEPT ![w] = Idle]
        /\ Idle \in Jobs /\ \A v \in Workers : job'[v] = Idle \/ job'[v] = job[v]
        /\ Idle \notin SignIns /\ Idle \notin Redeems /\ Idle \notin Registers
    BY <1>3, JobKinds DEF consume_registration_token, Finish, Shape, Jobs
  <2>3. /\ UNCHANGED <<role, session, code, token, machine, socket, redeemed>>
        /\ reg' = [reg EXCEPT ![job[w].reg].state = "used"]
    BY <1>3 DEF consume_registration_token
  <2>4. /\ reg' \in [RegTokens -> RegRows]
        /\ \A r \in RegTokens : reg'[r].user = reg[r].user /\ reg'[r].state \in {reg[r].state, "used"}
    BY <2>1, <2>3 DEF Shape, RegRows
  <2>5. reg[job[w].reg].state # "none" /\ \A r \in RegTokens : reg'[r].state # "none" => r = job[w].reg \/ reg[r].state # "none"
    BY <2>1, <2>3 DEF RowsNameAccounts, Shape, RegRows
  <2>6. Shape'
    BY <2>2, <2>3, <2>4 DEF Shape
  <2>7. \A v \in Workers : job'[v] \in Registers => job'[v].reg \in RegTokens /\ reg'[job'[v].reg].state # "none"
    BY <2>2, <2>4 DEF RowsNameAccounts, Registers
  <2>8. RowsNameAccounts'
    BY <2>3, <2>4, <2>5, <2>7 DEF RowsNameAccounts
  <2>9. NoAgentRedeems' /\ SomeAdmin' /\ UserIsNotFirst'
    BY <2>2, <2>3, SignInsKept DEF NoAgentRedeems
  <2> QED BY <2>3, <2>6, <2>8, <2>9 DEF NoEscalation, TradedIsUsed
<1> QED BY <1>1, <1>2, <1>3

(* What expires opens less, and a hub that stops forgets its handlers. *)
LEMMA Expired ==
    ASSUME AccessInv, TimePasses
    PROVE  AccessInv'
<1> USE DEF AccessInv
<1>1. UNCHANGED <<role, job, token, machine, socket, redeemed>> /\ session' \subseteq session
  BY DEF TimePasses
<1>2. /\ code' \in [Codes -> CodeRows]
      /\ \A c \in Codes : /\ code'[c].state = code[c].state /\ code'[c].user = code[c].user
                          /\ code'[c].known = code[c].known
  <2>1. code' = code \/ \E c \in Codes : code' = [code EXCEPT ![c].expired = TRUE]
    BY DEF TimePasses
  <2>2. CASE code' = code
    BY <2>2 DEF Shape
  <2>3. ASSUME NEW c \in Codes, code' = [code EXCEPT ![c].expired = TRUE]
        PROVE  <1>2!1 /\ <1>2!2
    BY <2>3 DEF Shape, CodeRows
  <2> QED BY <2>1, <2>2, <2>3
<1>3. /\ reg' \in [RegTokens -> RegRows]
      /\ \A r \in RegTokens : reg'[r].state = reg[r].state /\ reg'[r].user = reg[r].user
  <2>1. reg' = reg \/ \E r \in RegTokens : reg' = [reg EXCEPT ![r].expired = TRUE]
    BY DEF TimePasses
  <2>2. CASE reg' = reg
    BY <2>2 DEF Shape
  <2>3. ASSUME NEW r \in RegTokens, reg' = [reg EXCEPT ![r].expired = TRUE]
        PROVE  <1>3!1 /\ <1>3!2
    BY <2>3 DEF Shape, RegRows
  <2> QED BY <2>1, <2>2, <2>3
<1>4. Shape'
  BY <1>1, <1>2, <1>3 DEF Shape
<1>5. RowsNameAccounts'
  <2>1. \A w \in Workers : job[w] \in Registers => job[w].reg \in RegTokens
    BY DEF Registers
  <2> QED BY <1>1, <1>2, <1>3, <2>1 DEF RowsNameAccounts
<1>6. NoEscalation' /\ TradedIsUsed'
  BY <1>1, <1>2 DEF NoEscalation, TradedIsUsed
<1> QED BY <1>1, <1>4, <1>5, <1>6, JobsKept

LEMMA Stopped ==
    ASSUME AccessInv, HubStops
    PROVE  AccessInv'
<1> USE DEF AccessInv
<1>1. /\ job' = [w \in Workers |-> Idle] /\ socket' = {}
      /\ UNCHANGED <<role, session, code, token, reg, machine, redeemed>>
  BY DEF HubStops
<1>2. Idle \in Jobs /\ Idle \notin SignIns /\ Idle \notin Redeems /\ Idle \notin Registers
  BY JobKinds DEF Jobs
<1>3. \A w \in Workers : job'[w] = Idle
  BY <1>1
<1>4. Shape'
  BY <1>1, <1>2 DEF Shape
<1>5. RowsNameAccounts' /\ NoAgentRedeems'
  BY <1>1, <1>2, <1>3 DEF RowsNameAccounts, NoAgentRedeems
<1>6. SomeAdmin' /\ UserIsNotFirst'
  BY <1>1, <1>2, <1>3, SignInsKept
<1> QED BY <1>1, <1>4, <1>5, <1>6 DEF NoEscalation, TradedIsUsed

-----------------------------------------------------------------------------
LEMMA AccessInvNext ==
    ASSUME AccessInv, Agents \cap Identities = {}, [AccessNext]_accessVars
    PROVE  AccessInv'
<1>1. CASE UNCHANGED accessVars
  BY <1>1 DEF accessVars, AccessInv, Shape, RowsNameAccounts, NoEscalation, NoAgentRedeems, TradedIsUsed,
              SomeAdmin, UserIsNotFirst
<1>2. CASE AccessStep
  <2>1. ASSUME NEW w \in Workers,
               upsert_oauth_user_and_sign(w) \/ dev_login(w) \/ owner_session(w)
        PROVE  AccessInv'
    BY <2>1, FindUser DEF upsert_oauth_user_and_sign, dev_login, owner_session, Identities
  <2>2. ASSUME NEW p \in Principals, login_code(p)
        PROVE  AccessInv'
    <3>1. PICK u \in from_request_parts(p, "login code") : mint_login_code_with(p, u)
      BY <2>2 DEF login_code
    <3>2. p \notin Agents /\ u \in Identities
      BY FullOnly DEF AccessInv
    <3> QED BY <2>2, <3>1, <3>2, CodeMinted DEF login_code
  <2>3. ASSUME PrintLink
        PROVE  AccessInv'
    <3>1. "owner" \in Identities /\ "owner" \in Principals /\ "owner" \notin Agents
      BY DEF Identities, Principals
    <3>2. session' \subseteq session \cup (Identities \X Identities)
      BY <2>3, <3>1 DEF PrintLink, sign_jwt
    <3> QED BY <2>3, <3>1, <3>2, CodeMinted DEF PrintLink
  <2> QED BY <1>2, <2>1, <2>2, <2>3, RoleChosen, UserCreated, CodeRedeemed, Registered, Session, TokenMade,
             TokenNarrowed, RegMade, Expired, Stopped
          DEF AccessStep, run_service, run_link, register_local_node
<1> QED BY <1>1, <1>2 DEF AccessNext

(* Nobody gets in by a sequence of allowed requests (from_request_parts,   *)
(* scoped_route, redeem_login_code, upsert_oauth_user_and_sign): an agent  *)
(* never holds more than its scoped tokens, a login code gives one session *)
(* however many scanned it, and who has an account has an administrator.   *)
(* Agents are programs, not people who sign in.                            *)
THEOREM AccessStaysSafe ==
    ASSUME Agents \cap Identities = {}
    PROVE  AccessSpec => []AccessIsSafe
<1>1. AccessInit => AccessInv
  BY AccessInvInit
<1>2. AccessInv /\ [AccessNext]_accessVars => AccessInv'
  BY AccessInvNext
<1>3. AccessInv => AccessIsSafe
  <2>1. ASSUME AccessInv PROVE AccessTypeOK
    BY <2>1 DEF AccessInv, Shape, CodeRows, TokenRows, RegRows, AccessTypeOK
  <2>2. ASSUME AccessInv PROVE OneSessionPerCode
    BY <2>2 DEF AccessInv, TradedIsUsed, OneSessionPerCode
  <2> QED BY <2>1, <2>2 DEF AccessInv, AccessIsSafe
<1> QED BY <1>1, <1>2, <1>3, PTL DEF AccessSpec

-----------------------------------------------------------------------------
(* Updates of the interface. *)

(* Releases are numbered from 1, and "no store" is not a store. *)
UiConstants == Releases \subseteq Nat \ {0} /\ UiMaxFaults \in Nat /\ NoStore \notin UiStateType

(* The check under way has a pointer to go on with, and a store. *)
CheckIsTyped ==
    /\ asking \in [at : {"idle", "pointer", "bundle"}, pointer : 0..2, answered : BOOLEAN,
                   release : Releases \cup {Bundled}]
    /\ asking.at # "idle" => asking.pointer \in 1..2 /\ store # NoStore
    /\ asking.at = "bundle" => asking.release \in Releases

(* A state of the store: what it falls back to is older, what it will turn *)
(* to is newer, and nothing is newer than the highest release staged; what *)
(* it falls back to came up, and one that does not is still booting.       *)
Steady(s) ==
    /\ s.previous <= s.current /\ s.current <= s.highest /\ s.pending <= s.highest
    /\ s.pending # Bundled => s.current < s.pending
    /\ s.previous \notin broken
    /\ s.current \in broken => s.booting

Untried(s) == s.pending \in broken => attempts[s.pending] = 0

(* Memory and disk may differ by a failed save, but the memory only knows  *)
(* of more releases, and only turns to an older one than is loaded.        *)
DiskIsSteady == Steady(saved) /\ Untried(saved)
MemoryIsSteady ==
    store # NoStore => /\ Steady(store) /\ Untried(store)
                       /\ saved.highest <= store.highest /\ store.current <= loaded

(* A page that is still shown after a rollback is of a newer release. *)
PageIsNotOlder == page # Blank => loaded <= page

TriedIsNotNewer == \A r \in Releases : attempts[r] > 0 => r <= saved.highest

UiInv ==
    /\ UiTypeOK /\ CheckIsTyped /\ DiskIsSteady /\ MemoryIsSteady /\ PageIsNotOlder
    /\ TriedIsNotNewer /\ BrokenRunsOnce /\ BundlesStay /\ ReadyIsWhatRuns

-----------------------------------------------------------------------------
LEMMA StateIsNat ==
    ASSUME UiConstants, NEW x \in UiStateType
    PROVE  /\ x.current \in Nat /\ x.previous \in Nat /\ x.pending \in Nat /\ x.highest \in Nat
           /\ 0 \notin Releases
<1>1. /\ x.current \in Releases \cup {0} /\ x.previous \in Releases \cup {0}
      /\ x.pending \in Releases \cup {0} /\ x.highest \in Releases \cup {0}
  BY DEF UiStateType, Bundled
<1>2. \A r \in Releases : r \in Nat /\ r # 0
  BY DEF UiConstants
<1> QED BY <1>1, <1>2

(* A boot never turns to a release that failed to come up: what it turns   *)
(* to is bundled, came up before, or was staged and not tried yet.         *)
LEMMA BootIsSteady ==
    ASSUME UiConstants, broken \subseteq Releases, bundles \subseteq Releases,
           NEW s \in UiStateType, Steady(s), NEW b, b = begin_boot(s)
    PROVE  /\ b \in UiStateType /\ Steady(b) /\ b.pending = Bundled /\ b.highest = s.highest
           /\ Refs(b) \subseteq Refs(s)
           /\ b.current \in broken => b.current = s.pending
           /\ s.pending = Bundled => b.current <= s.current
<1> USE DEF UiConstants, Bundled, UiStateType
<1> DEFINE a == Abandoned(s)
           t == Activated(a)
           l == Loadable(t)
<1>2. /\ s.current \in Nat /\ s.previous \in Nat /\ s.pending \in Nat /\ s.highest \in Nat
      /\ 0 \notin bundles /\ 0 \notin broken
  BY StateIsNat
<1>3. /\ a \in UiStateType /\ a.highest = s.highest /\ a.pending = s.pending
      /\ a.previous <= a.current /\ a.current <= s.current /\ a.current \notin broken
      /\ a.previous \notin broken
      /\ {a.current, a.previous} \subseteq {s.current, s.previous, 0}
  <2>1. CASE s.booting
    <3>1. /\ a \in UiStateType /\ a.highest = s.highest /\ a.pending = s.pending
          /\ a.current = s.previous /\ a.previous = 0
      BY <2>1 DEF Abandoned
    <3> QED BY <1>2, <3>1 DEF Steady
  <2>2. CASE ~s.booting
    <3>1. a = s
      BY <2>2 DEF Abandoned
    <3> QED BY <1>2, <2>2, <3>1 DEF Steady
  <2> QED BY <2>1, <2>2
<1> HIDE DEF a
<1>4. a.current \in Nat /\ a.previous \in Nat /\ a.pending \in Nat /\ a.highest \in Nat
  BY <1>3, StateIsNat
<1>5. /\ t \in UiStateType /\ t.highest = s.highest /\ t.pending = 0
      /\ t.previous <= t.current /\ t.current <= s.highest /\ t.previous \notin broken
      /\ t.current \in broken => t.current = s.pending
      /\ s.pending = 0 => t.current <= s.current
      /\ {t.current, t.previous} \subseteq {s.current, s.previous, s.pending, 0}
  <2>1. CASE a.pending # 0
    <3>1. /\ t \in UiStateType /\ t.highest = a.highest /\ t.pending = 0
          /\ t.current = a.pending /\ t.previous = a.current
      BY <1>3, <2>1 DEF Activated
    <3> QED BY <1>2, <1>3, <1>4, <2>1, <3>1 DEF Steady
  <2>2. CASE a.pending = 0
    <3>1. t = a
      BY <2>2 DEF Activated
    <3> QED BY <1>2, <1>3, <1>4, <2>2, <3>1 DEF Steady
  <2> QED BY <2>1, <2>2
<1> HIDE DEF t
<1>6. t.current \in Nat /\ t.previous \in Nat /\ t.pending \in Nat /\ t.highest \in Nat
  BY <1>5, StateIsNat
<1>7. /\ l \in UiStateType /\ l.highest = s.highest /\ l.pending = 0
      /\ l.previous <= l.current /\ l.current <= s.highest /\ l.previous \notin broken
      /\ l.current \in broken => l.current = s.pending
      /\ s.pending = 0 => l.current <= s.current
      /\ {l.current, l.previous} \subseteq {s.current, s.previous, s.pending, 0}
  <2>1. CASE l = t
    BY <1>5, <2>1
  <2>2. CASE l # t
    <3>1. PICK r \in {t.previous, 0} : l = [t EXCEPT !.current = r, !.previous = 0]
      BY <2>2 DEF Loadable
    <3>2. /\ l \in UiStateType /\ l.highest = t.highest /\ l.pending = t.pending
          /\ l.current = r /\ l.previous = 0
      BY <1>5, <3>1
    <3> QED BY <1>2, <1>5, <1>6, <3>2
  <2> QED BY <2>1, <2>2
<1>8. b = [l EXCEPT !.booting = (l.current # Bundled)]
  BY DEF begin_boot, t, a
<1> HIDE DEF l
<1>9. /\ b \in UiStateType /\ b.current = l.current /\ b.previous = l.previous /\ b.pending = l.pending
      /\ b.highest = l.highest /\ b.booting = (l.current # 0)
  BY <1>7, <1>8
<1>10. Steady(b)
  BY <1>2, <1>7, <1>9 DEF Steady
<1>11. Refs(b) \subseteq Refs(s)
  BY <1>7, <1>9 DEF Refs
<1> QED BY <1>7, <1>9, <1>10, <1>11

(* What a rollback starts the next boot from. *)
LEMMA RollbackIsSteady ==
    ASSUME UiConstants, broken \subseteq Releases, NEW s \in UiStateType, Steady(s), NEW b, b = RolledBack(s)
    PROVE  /\ b \in UiStateType /\ Steady(b) /\ b.pending = Bundled /\ b.highest = s.highest
           /\ b.current <= s.current /\ b.current \notin broken /\ Refs(b) \subseteq Refs(s)
<1> USE DEF UiConstants, Bundled, UiStateType, RolledBack
<1>1. /\ b \in UiStateType /\ b.current = s.previous /\ b.previous = 0 /\ b.pending = 0
      /\ b.highest = s.highest /\ ~b.booting
  OBVIOUS
<1> HIDE DEF RolledBack
<1>2. s.current \in Nat /\ s.previous \in Nat /\ s.highest \in Nat /\ 0 \notin broken
  BY StateIsNat
<1>3. Steady(b) /\ b.current <= s.current /\ b.current \notin broken
  BY <1>1, <1>2 DEF Steady
<1> QED BY <1>1, <1>3 DEF Refs

-----------------------------------------------------------------------------
LEMMA NoCheckIsTyped ==
    /\ NoCheck \in [at : {"idle", "pointer", "bundle"}, pointer : 0..2, answered : BOOLEAN,
                    release : Releases \cup {Bundled}]
    /\ NoCheck.at = "idle"
BY DEF NoCheck

(* A check goes on to its next pointer, or ends. *)
LEMMA NextPointerIsTyped ==
    ASSUME CheckIsTyped, asking.at # "idle", store' # NoStore,
           NEW answered \in BOOLEAN, NextPointer(answered) \/ asking' = NoCheck
    PROVE  CheckIsTyped'
<1>1. CASE asking' = NoCheck
  BY <1>1, NoCheckIsTyped DEF CheckIsTyped
<1>2. CASE asking' = [at |-> "pointer", pointer |-> asking.pointer + 1,
                      answered |-> answered, release |-> Bundled] /\ asking.pointer # 2
  <2>1. asking.pointer + 1 = 2
    BY <1>2 DEF CheckIsTyped
  <2> QED BY <1>2, <2>1 DEF CheckIsTyped
<1> QED BY <1>1, <1>2 DEF NextPointer

LEMMA UiInitInv == ASSUME UiConstants, UiInit PROVE UiInv
<1> USE DEF UiConstants, UiInit, Bundled, EmptyState, NoCheck
<1>1. CheckIsTyped
  BY NoCheckIsTyped DEF CheckIsTyped
<1>4. saved \in UiStateType
  BY DEF UiStateType
<1>5. UiTypeOK
  <2>1. published \in [1..2 -> Releases \cup {Bundled}] /\ attempts \in [Releases -> 0..2]
    OBVIOUS
  <2>2. uiFaults \in 0..UiMaxFaults /\ watchdog \in 0..2
    OBVIOUS
  <2> QED BY <1>4, <2>1, <2>2 DEF UiTypeOK
<1>2. DiskIsSteady /\ MemoryIsSteady /\ PageIsNotOlder /\ TriedIsNotNewer
  BY DEF DiskIsSteady, MemoryIsSteady, PageIsNotOlder, TriedIsNotNewer, Steady, Untried
<1>3. BrokenRunsOnce /\ BundlesStay /\ ReadyIsWhatRuns
  BY DEF BrokenRunsOnce, BundlesStay, ReadyIsWhatRuns, Refs
<1> QED BY <1>1, <1>2, <1>3, <1>5 DEF UiInv

(* Steps that change neither the store nor what is loaded. *)
LEMMA QuietInv ==
    ASSUME UiConstants, UiInv,
           \/ PageLoads \/ Reload \/ ui_check \/ AskPointer \/ DownloadFails
           \/ \E p \in 1..2 : Publish(p)
    PROVE  UiInv'
<1> USE DEF UiInv, UiConstants, Bundled
<1>1. UNCHANGED <<broken, saved, bundles, store, loaded, ready, running, watchdog, uiFaults, reported, attempts>>
  BY DEF PageLoads, Reload, ui_check, AskPointer, DownloadFails, Publish
<1>2. /\ published' \in [1..2 -> Releases \cup {Bundled}]
      /\ page' \in Releases \cup {Bundled, Blank} /\ PageIsNotOlder'
  <2>1. CASE PageLoads
    BY <2>1 DEF PageLoads, UiTypeOK, PageIsNotOlder
  <2>2. CASE Reload
    BY <2>2 DEF Reload, UiTypeOK, PageIsNotOlder
  <2>3. CASE ui_check \/ AskPointer \/ DownloadFails
    BY <2>3 DEF ui_check, AskPointer, DownloadFails, UiTypeOK, PageIsNotOlder
  <2>4. ASSUME NEW p \in 1..2, Publish(p)
        PROVE  /\ published' \in [1..2 -> Releases \cup {Bundled}]
               /\ page' \in Releases \cup {Bundled, Blank} /\ PageIsNotOlder'
    BY <2>4 DEF Publish, UiTypeOK, PageIsNotOlder
  <2> QED BY <2>1, <2>2, <2>3, <2>4
<1>3. UiTypeOK'
  BY <1>1, <1>2 DEF UiTypeOK
<1>4. CheckIsTyped'
  <2>1. CASE ui_check
    <3>1. /\ store # NoStore /\ store' = store
          /\ asking' = [at |-> "pointer", pointer |-> 1, answered |-> FALSE, release |-> Bundled]
      BY <2>1 DEF ui_check, NoCheck
    <3> QED BY <3>1 DEF CheckIsTyped
  <2>2. CASE AskPointer
    <3>1. asking.pointer \in 1..2 /\ asking.answered \in BOOLEAN /\ store' # NoStore /\ asking.at # "idle"
      BY <1>1, <2>2 DEF AskPointer, CheckIsTyped
    <3>2. CASE NextPointer(TRUE) \/ NextPointer(asking.answered)
      BY <3>1, <3>2, NextPointerIsTyped
    <3>3. CASE /\ published[asking.pointer] # Bundled
               /\ asking' = [asking EXCEPT !.at = "bundle", !.release = published[asking.pointer]]
      <4>1. published[asking.pointer] \in Releases
        BY <3>1, <3>3 DEF UiTypeOK
      <4> QED BY <3>1, <3>3, <4>1 DEF CheckIsTyped
    <3> QED BY <2>2, <3>2, <3>3 DEF AskPointer
  <2>3. CASE DownloadFails
    <3>1. asking.answered \in BOOLEAN /\ store' # NoStore /\ asking.at # "idle" /\ NextPointer(asking.answered)
      BY <1>1, <2>3 DEF DownloadFails, CheckIsTyped
    <3> QED BY <3>1, NextPointerIsTyped
  <2>4. CASE UNCHANGED asking
    BY <1>1, <2>4 DEF CheckIsTyped
  <2> QED BY <2>1, <2>2, <2>3, <2>4 DEF PageLoads, Reload, Publish
<1> QED BY <1>1, <1>2, <1>3, <1>4 DEF DiskIsSteady, MemoryIsSteady, TriedIsNotNewer,
         BrokenRunsOnce, BundlesStay, ReadyIsWhatRuns, Steady, Untried

(* The application ends, or a bundle is damaged. *)
LEMMA QuitInv ==
    ASSUME UiConstants, UiInv, Quit \/ Damage
    PROVE  UiInv'
<1> USE DEF UiInv, UiConstants, Bundled
<1>1. UNCHANGED <<published, broken, saved, reported, attempts>>
  BY DEF Quit, Damage
<1>2. CASE Quit
  <2> USE <1>2 DEF Quit
  <2>1. UiTypeOK' /\ CheckIsTyped'
    <3>1. UiTypeOK'
      <4>1. /\ store' = NoStore /\ loaded' = 0 /\ page' = Blank /\ watchdog' \in 0..2
            /\ UNCHANGED <<published, broken, saved, bundles, uiFaults, attempts>>
        OBVIOUS
      <4>2. ready' \in BOOLEAN /\ running' \in BOOLEAN
        BY Zenon
      <4> HIDE DEF Quit
      <4> QED BY <4>1, <4>2 DEF UiTypeOK
    <3>2. CheckIsTyped'
      BY NoCheckIsTyped DEF CheckIsTyped
    <3> QED BY <3>1, <3>2
  <2>2. BundlesStay'
    BY DEF BundlesStay
  <2> QED BY <1>1, <2>1, <2>2 DEF DiskIsSteady, MemoryIsSteady, PageIsNotOlder, TriedIsNotNewer,
           BrokenRunsOnce, ReadyIsWhatRuns, Steady, Untried
<1>3. CASE Damage
  <2> USE <1>3 DEF Damage
  <2>1. UiTypeOK'
    BY DEF UiTypeOK, Fault
  <2>2. CheckIsTyped'
    BY DEF CheckIsTyped
  <2>3. BundlesStay'
    BY DEF BundlesStay, Fault, UiTypeOK
  <2> QED BY <1>1, <2>1, <2>2, <2>3 DEF DiskIsSteady, MemoryIsSteady, PageIsNotOlder, TriedIsNotNewer,
           BrokenRunsOnce, ReadyIsWhatRuns, Steady, Untried
<1> QED BY <1>2, <1>3

-----------------------------------------------------------------------------
(* What is handed to the window is counted. *)
LEMMA ShowsIsTyped ==
    ASSUME UiTypeOK, NEW r \in Releases \cup {Bundled}, Shows(r)
    PROVE  /\ attempts' \in [Releases -> 0..2] /\ loaded' = r
           /\ \A q \in Releases : q # r => attempts'[q] = attempts[q]
           /\ \A q \in Releases : q = r => attempts'[q] <= attempts[q] + 1
<1>1. CASE r = Bundled \/ attempts[r] = 2
  <2>1. attempts' = attempts /\ loaded' = r
    BY <1>1 DEF Shows
  <2> QED BY <2>1 DEF UiTypeOK
<1>2. CASE ~(r = Bundled \/ attempts[r] = 2)
  <2>1. attempts' = [attempts EXCEPT ![r] = @ + 1] /\ loaded' = r /\ r \in Releases
    BY <1>2 DEF Shows
  <2>2. attempts[r] \in 0..2 /\ attempts[r] # 2
    BY <1>2, <2>1 DEF UiTypeOK
  <2> QED BY <2>1, <2>2 DEF UiTypeOK
<1> QED BY <1>1, <1>2

(* A fault is the end of what BundlesStay promises. *)
LEMMA FaultIsCounted ==
    ASSUME UiConstants, UiTypeOK, Fault
    PROVE  uiFaults' \in 0..UiMaxFaults /\ uiFaults' # 0 /\ uiFaults' # uiFaults
BY DEF UiConstants, UiTypeOK, Fault

(* At a launch the release that was staged is the only one that can be     *)
(* broken and is handed to the window: it was not tried before.            *)
LEMMA LaunchInv ==
    ASSUME UiConstants, UiInv, Launch
    PROVE  UiInv'
<1> USE DEF UiInv
<1> DEFINE b == begin_boot(saved)
<1>1. /\ UNCHANGED <<published, broken, reported>> /\ ready' = FALSE /\ page' = Blank
      /\ asking' = NoCheck
  BY DEF Launch
<1>2. saved \in UiStateType /\ Steady(saved) /\ broken \subseteq Releases /\ bundles \subseteq Releases
  BY DEF UiTypeOK, DiskIsSteady
<1>3. /\ b \in UiStateType /\ Steady(b) /\ b.pending = Bundled /\ b.highest = saved.highest
      /\ Refs(b) \subseteq Refs(saved)
      /\ b.current \in broken => b.current = saved.pending
  BY <1>2, BootIsSteady
<1>4. /\ b.current \in Nat /\ b.highest \in Nat /\ b.current \in Releases \cup {Bundled}
      /\ 0 \notin Releases /\ b # NoStore
  BY <1>3, StateIsNat DEF UiStateType, UiConstants
<1>5. \/ /\ saved' = b /\ store' = b /\ Shows(b.current) /\ bundles' = bundles \cap Refs(b)
         /\ uiFaults' = uiFaults
      \/ /\ Fault /\ (saved' = b \/ saved' = saved) /\ store' = NoStore /\ loaded' = Bundled
         /\ UNCHANGED <<bundles, attempts>>
  BY DEF Launch, prune
<1>9. running' \in BOOLEAN /\ ready' \in BOOLEAN
  BY Zenon DEF Launch
<1>10. watchdog' \in 0..2
  BY DEF Launch
<1>6. CheckIsTyped' /\ PageIsNotOlder' /\ ReadyIsWhatRuns'
  BY <1>1, NoCheckIsTyped DEF CheckIsTyped, PageIsNotOlder, ReadyIsWhatRuns
<1> HIDE DEF b
<1>7. CASE /\ saved' = b /\ store' = b /\ Shows(b.current) /\ bundles' = bundles \cap Refs(b)
           /\ uiFaults' = uiFaults
  <2>1. /\ attempts' \in [Releases -> 0..2] /\ loaded' = b.current
        /\ \A q \in Releases : q # b.current => attempts'[q] = attempts[q]
        /\ \A q \in Releases : q = b.current => attempts'[q] <= attempts[q] + 1
    BY <1>4, <1>7, ShowsIsTyped
  <2>2. UiTypeOK'
    BY <1>1, <1>3, <1>4, <1>7, <1>9, <1>10, <2>1 DEF UiTypeOK
  <2>3. DiskIsSteady' /\ MemoryIsSteady'
    BY <1>1, <1>2, <1>3, <1>4, <1>7, <2>1 DEF DiskIsSteady, MemoryIsSteady, Steady, Untried, Bundled
  <2>4. TriedIsNotNewer'
    BY <1>3, <1>7, <2>1 DEF TriedIsNotNewer, Steady
  <2>5. BrokenRunsOnce'
    <3> SUFFICES ASSUME NEW q \in broken PROVE attempts'[q] <= 1
      BY <1>1 DEF BrokenRunsOnce
    <3>1. CASE q = b.current
      <4>1. attempts[q] = 0
        BY <1>3, <3>1 DEF DiskIsSteady, Untried
      <4> QED BY <1>2, <2>1, <3>1, <4>1
    <3>2. CASE q # b.current
      BY <1>2, <2>1, <3>2 DEF BrokenRunsOnce
    <3> QED BY <3>1, <3>2
  <2>6. BundlesStay'
    BY <1>3, <1>4, <1>7 DEF BundlesStay
  <2> QED BY <1>6, <2>2, <2>3, <2>4, <2>5, <2>6
<1>8. CASE /\ Fault /\ (saved' = b \/ saved' = saved) /\ store' = NoStore /\ loaded' = Bundled
           /\ UNCHANGED <<bundles, attempts>>
  <2>1. uiFaults' \in 0..UiMaxFaults /\ uiFaults' # 0
    BY <1>8, FaultIsCounted
  <2>2. UiTypeOK'
    BY <1>1, <1>2, <1>3, <1>8, <1>9, <1>10, <2>1 DEF UiTypeOK
  <2>3. DiskIsSteady' /\ MemoryIsSteady' /\ TriedIsNotNewer'
    BY <1>1, <1>2, <1>3, <1>4, <1>8 DEF DiskIsSteady, MemoryIsSteady, TriedIsNotNewer, Steady, Untried, Bundled
  <2>4. BrokenRunsOnce' /\ BundlesStay'
    BY <1>1, <1>8, <2>1 DEF BrokenRunsOnce, BundlesStay
  <2> QED BY <1>6, <2>2, <2>3, <2>4
<1> QED BY <1>5, <1>7, <1>8

(* A rollback turns to a release that came up, and to an older one than is *)
(* loaded, also when only the memory knows of it.                          *)
LEMMA RecoversInv ==
    ASSUME UiConstants, UiInv, Recovers, watchdog' \in 0..2,
           UNCHANGED <<published, broken, running, page, asking, reported>>
    PROVE  UiInv'
<1> USE DEF UiInv
<1> DEFINE c == RolledBack(store)
           b == begin_boot(c)
<1>1. /\ store \in UiStateType /\ Steady(store) /\ broken \subseteq Releases /\ bundles \subseteq Releases
      /\ saved.highest <= store.highest /\ store.current <= loaded /\ saved \in UiStateType
  BY DEF UiTypeOK, MemoryIsSteady, Recovers
<1>2. /\ c \in UiStateType /\ Steady(c) /\ c.pending = Bundled /\ c.highest = store.highest
      /\ c.current <= store.current /\ Refs(c) \subseteq Refs(store)
  BY <1>1, RollbackIsSteady
<1> HIDE DEF c
<1>3. /\ b \in UiStateType /\ Steady(b) /\ b.pending = Bundled /\ b.highest = c.highest
      /\ Refs(b) \subseteq Refs(c) /\ b.current <= c.current
      /\ b.current \in broken => b.current = c.pending
  BY <1>1, <1>2, BootIsSteady
<1>4. \/ /\ store' = b /\ saved' = b /\ Shows(b.current) /\ bundles' = bundles \cap Refs(b)
         /\ ready' = FALSE /\ UNCHANGED uiFaults
      \/ store' = b /\ Fault /\ UNCHANGED <<saved, loaded, attempts, bundles, ready>>
  BY DEF Recovers, prune, c
<1> HIDE DEF b
<1>5. /\ b.current \in Nat /\ c.current \in Nat /\ store.current \in Nat /\ b.highest \in Nat
      /\ saved.highest \in Nat /\ 0 \notin Releases
  BY <1>1, <1>2, <1>3, StateIsNat
<1>6. /\ loaded \in Nat
      /\ page # Blank => page \in Nat
  BY DEF UiTypeOK, UiConstants, Bundled
<1>7. /\ b # NoStore /\ b.current \notin broken /\ b.current \in Releases \cup {Bundled}
      /\ b.current <= loaded /\ saved.highest <= b.highest
  BY <1>1, <1>2, <1>3, <1>5, <1>6 DEF UiStateType, UiConstants, Bundled
<1>8. CheckIsTyped'
  BY <1>4, <1>7 DEF CheckIsTyped
<1>9. CASE /\ store' = b /\ saved' = b /\ Shows(b.current) /\ bundles' = bundles \cap Refs(b)
           /\ ready' = FALSE /\ UNCHANGED uiFaults
  <2>1. /\ attempts' \in [Releases -> 0..2] /\ loaded' = b.current
        /\ \A q \in Releases : q # b.current => attempts'[q] = attempts[q]
        /\ \A q \in Releases : q = b.current => attempts'[q] <= attempts[q] + 1
    BY <1>7, <1>9, ShowsIsTyped
  <2>2. ready' \in BOOLEAN
    BY <1>9, Zenon
  <2>3. UiTypeOK'
    BY <1>1, <1>3, <1>7, <1>9, <2>1, <2>2 DEF UiTypeOK
  <2>4. DiskIsSteady' /\ MemoryIsSteady'
    BY <1>1, <1>3, <1>5, <1>9, <2>1 DEF DiskIsSteady, MemoryIsSteady, Steady, Untried, Bundled
  <2>5. PageIsNotOlder'
    BY <1>5, <1>6, <1>7, <2>1 DEF PageIsNotOlder
  <2>6. TriedIsNotNewer'
    <3> SUFFICES ASSUME NEW q \in Releases, attempts'[q] > 0 PROVE q <= b.highest
      BY <1>9 DEF TriedIsNotNewer
    <3>1. q \in Nat
      BY DEF UiConstants
    <3>2. CASE q = b.current
      BY <1>3, <3>2 DEF Steady
    <3>3. CASE q # b.current
      BY <1>5, <1>7, <2>1, <3>1, <3>3 DEF TriedIsNotNewer
    <3> QED BY <3>2, <3>3
  <2>7. BrokenRunsOnce'
    BY <1>1, <1>7, <2>1 DEF BrokenRunsOnce
  <2>8. BundlesStay' /\ ReadyIsWhatRuns'
    BY <1>2, <1>3, <1>9 DEF BundlesStay, ReadyIsWhatRuns, Recovers
  <2> QED BY <1>8, <2>3, <2>4, <2>5, <2>6, <2>7, <2>8
<1>10. CASE store' = b /\ Fault /\ UNCHANGED <<saved, loaded, attempts, bundles, ready>>
  <2>1. uiFaults' \in 0..UiMaxFaults /\ uiFaults' # 0
    BY <1>10, FaultIsCounted
  <2>2. UiTypeOK'
    BY <1>3, <1>10, <2>1 DEF UiTypeOK
  <2>3. DiskIsSteady'
    BY <1>10 DEF DiskIsSteady, Steady, Untried
  <2>4. MemoryIsSteady'
    BY <1>1, <1>3, <1>5, <1>7, <1>10 DEF MemoryIsSteady, Steady, Untried, Bundled
  <2>5. PageIsNotOlder' /\ TriedIsNotNewer' /\ BrokenRunsOnce' /\ BundlesStay' /\ ReadyIsWhatRuns'
    BY <1>10, <2>1 DEF PageIsNotOlder, TriedIsNotNewer, BrokenRunsOnce, BundlesStay, ReadyIsWhatRuns
  <2> QED BY <1>8, <2>2, <2>3, <2>4, <2>5
<1> QED BY <1>4, <1>9, <1>10

LEMMA RecoverInv ==
    ASSUME UiConstants, UiInv, ui_recover
    PROVE  UiInv'
<1>1. Recovers /\ watchdog' \in 0..2 /\ UNCHANGED <<published, broken, running, page, asking, reported>>
  BY DEF ui_recover, UiInv, UiTypeOK
<1> QED BY <1>1, RecoversInv

LEMMA WatchdogInv ==
    ASSUME UiConstants, UiInv, Watchdog
    PROVE  UiInv'
<1>1. watchdog' \in 0..2 /\ UNCHANGED <<published, broken, running, page, asking, reported>>
  BY DEF Watchdog, UiInv, UiTypeOK
<1>2. CASE Recovers
  BY <1>1, <1>2, RecoversInv
<1>3. CASE UNCHANGED <<store, saved, loaded, attempts, bundles, ready, uiFaults>>
  BY <1>1, <1>3 DEF UiInv, UiTypeOK, CheckIsTyped, DiskIsSteady, MemoryIsSteady, PageIsNotOlder,
       TriedIsNotNewer, BrokenRunsOnce, BundlesStay, ReadyIsWhatRuns, Steady, Untried
<1> QED BY <1>2, <1>3 DEF Watchdog

(* A report is of what is loaded: the store, what is loaded and the page   *)
(* only ever fall back in that order, so one that names the store's        *)
(* release is of all three.                                                *)
LEMMA ReadyInv ==
    ASSUME UiConstants, UiInv, ui_ready
    PROVE  UiInv'
<1> USE DEF UiInv
<1>1. /\ UNCHANGED <<published, broken, bundles, loaded, running, page, watchdog, asking, attempts>>
      /\ page # Blank /\ page \notin broken /\ Accepts(page) /\ reported' = page
  BY DEF ui_ready
<1>2. loaded \in Nat /\ page \in Nat /\ loaded <= page
  BY <1>1 DEF UiTypeOK, UiConstants, Bundled, PageIsNotOlder
<1>3. page = loaded
  <2>1. CASE loaded = Bundled
    BY <1>1, <2>1 DEF Accepts
  <2>2. CASE loaded # Bundled
    <3>1. store # NoStore /\ store.current = page /\ store.current <= loaded
      BY <1>1, <2>2 DEF Accepts, MemoryIsSteady
    <3> QED BY <1>2, <3>1
  <2> QED BY <2>1, <2>2
<1>4. ReadyIsWhatRuns'
  BY <1>1, <1>3 DEF ReadyIsWhatRuns
<1>5. CASE UNCHANGED <<saved, store, uiFaults>> /\ ready' = TRUE
  <2>1. ready' \in BOOLEAN
    BY <1>5, Zenon
  <2> QED BY <1>1, <1>4, <1>5, <2>1 DEF UiTypeOK, CheckIsTyped, DiskIsSteady, MemoryIsSteady, PageIsNotOlder,
       TriedIsNotNewer, BrokenRunsOnce, BundlesStay, Steady, Untried
<1>6. CASE /\ loaded # Bundled /\ store' = [store EXCEPT !.booting = FALSE]
           /\ \/ saved' = store' /\ ready' = TRUE /\ UNCHANGED uiFaults
              \/ Fault /\ UNCHANGED <<saved, ready>>
  <2> DEFINE b == store'
  <2>1. store \in UiStateType /\ store # NoStore /\ store.current = page /\ Steady(store)
    BY <1>1, <1>6 DEF Accepts, UiTypeOK, MemoryIsSteady
  <2>2. /\ b \in UiStateType /\ b.current = store.current /\ b.previous = store.previous
        /\ b.pending = store.pending /\ b.highest = store.highest /\ b # NoStore
    BY <1>6, <2>1 DEF UiStateType, UiConstants
  <2>3. Steady(b)
    BY <1>1, <2>1, <2>2 DEF Steady
  <2>4. uiFaults' \in 0..UiMaxFaults /\ (uiFaults' = 0 => uiFaults = 0 /\ saved' = b)
    BY <1>6, FaultIsCounted DEF UiTypeOK
  <2>5. ready' \in BOOLEAN
    <3>1. CASE ready' = TRUE
      BY <3>1, Zenon
    <3>2. CASE ready' = ready
      BY <3>2 DEF UiTypeOK
    <3> QED BY <1>6, <3>1, <3>2
  <2>6. saved' = b \/ saved' = saved
    BY <1>6
  <2>7. saved \in UiStateType /\ saved.highest <= store.highest /\ saved.highest \in Nat /\ store.highest \in Nat
    BY <2>1, StateIsNat DEF UiTypeOK, MemoryIsSteady
  <2> HIDE DEF b
  <2>8. store' = b
    BY DEF b
  <2>9. UiTypeOK' /\ CheckIsTyped'
    BY <1>1, <2>2, <2>4, <2>5, <2>6, <2>8 DEF UiTypeOK, CheckIsTyped
  <2>10. DiskIsSteady' /\ MemoryIsSteady' /\ PageIsNotOlder'
    BY <1>1, <2>1, <2>2, <2>3, <2>6, <2>7, <2>8 DEF DiskIsSteady, MemoryIsSteady, PageIsNotOlder, Steady, Untried
  <2>11. TriedIsNotNewer'
    <3> SUFFICES ASSUME NEW q \in Releases, attempts[q] > 0 PROVE q <= saved'.highest
      BY <1>1 DEF TriedIsNotNewer
    <3>1. q \in Nat /\ q <= saved.highest
      BY DEF UiConstants, TriedIsNotNewer
    <3> QED BY <2>2, <2>6, <2>7, <3>1
  <2>12. BrokenRunsOnce' /\ BundlesStay'
    BY <1>1, <2>1, <2>2, <2>4, <2>8 DEF BrokenRunsOnce, BundlesStay, Refs
  <2> QED BY <1>4, <2>9, <2>10, <2>11, <2>12
<1> QED BY <1>5, <1>6 DEF ui_ready

(* A staged release is newer than every one that was tried. *)
LEMMA StageInv ==
    ASSUME UiConstants, UiInv, stage
    PROVE  UiInv'
<1> USE DEF UiInv
<1> DEFINE r == asking.release
           b == [store EXCEPT !.highest = r, !.pending = r]
<1>1. /\ UNCHANGED <<published, broken, loaded, ready, running, page, watchdog, reported, attempts>>
      /\ asking.at = "bundle" /\ asking.at # "idle" /\ asking.answered \in BOOLEAN
      /\ r \in Releases /\ store \in UiStateType /\ store # NoStore
  BY DEF stage, CheckIsTyped, UiTypeOK
<1>2. /\ r \in Nat /\ r # 0 /\ r \in Releases
      /\ store.current \in Nat /\ store.pending \in Nat /\ store.highest \in Nat /\ saved.highest \in Nat
  BY <1>1, StateIsNat DEF UiConstants, UiTypeOK
<1>3. /\ b \in UiStateType /\ b.current = store.current /\ b.previous = store.previous
      /\ b.pending = r /\ b.highest = r /\ b.booting = store.booting /\ b # NoStore
  BY <1>1, <1>2 DEF UiStateType, UiConstants
<1>4. \/ asking' = NoCheck /\ UNCHANGED <<bundles, store, saved, uiFaults>>
      \/ /\ Newer(r) /\ bundles' = bundles \cup {r} /\ store' = b /\ saved' = b
         /\ asking' = NoCheck /\ UNCHANGED uiFaults
      \/ /\ Newer(r) /\ Fault /\ NextPointer(asking.answered)
         /\ bundles' = bundles \cup {r} /\ store' = b /\ UNCHANGED saved
      \/ Fault /\ NextPointer(asking.answered) /\ UNCHANGED <<bundles, store, saved>>
  BY DEF stage
<1>5. store' # NoStore /\ (store' = store \/ (store' = b /\ Newer(r)))
  BY <1>1, <1>3, <1>4
<1>6. CheckIsTyped'
  BY <1>1, <1>4, <1>5, NextPointerIsTyped
<1>7. /\ saved' = saved \/ (saved' = b /\ store' = b /\ Newer(r))
      /\ bundles' = bundles \/ bundles' = bundles \cup {r}
  BY <1>4
<1>8. /\ uiFaults' \in 0..UiMaxFaults
      /\ uiFaults' = 0 => /\ uiFaults = 0 /\ bundles \subseteq bundles'
                          /\ UNCHANGED <<store, saved>> \/ (store' = b /\ saved' = b /\ r \in bundles')
  BY <1>4, FaultIsCounted DEF UiTypeOK
<1> HIDE DEF b, r
<1>9. UiTypeOK'
  BY <1>1, <1>2, <1>3, <1>5, <1>7, <1>8 DEF UiTypeOK
<1>10. Newer(r) => Steady(b) /\ attempts[r] = 0 /\ saved.highest < r
  <2> SUFFICES ASSUME Newer(r) PROVE Steady(b) /\ attempts[r] = 0 /\ saved.highest < r
    OBVIOUS
  <2>1. store.highest < r /\ saved.highest <= store.highest /\ Steady(store)
    BY <1>1, <1>2 DEF Newer, MemoryIsSteady
  <2>2. Steady(b)
    BY <1>2, <1>3, <2>1 DEF Steady, Bundled
  <2>3. ~(attempts[r] > 0) /\ attempts[r] \in 0..2
    BY <1>2, <2>1 DEF TriedIsNotNewer, UiTypeOK
  <2> QED BY <1>2, <2>1, <2>2, <2>3
<1>11. DiskIsSteady'
  BY <1>1, <1>3, <1>5, <1>7, <1>10 DEF DiskIsSteady, Steady, Untried
<1>12. MemoryIsSteady'
  BY <1>1, <1>2, <1>3, <1>5, <1>7, <1>10 DEF MemoryIsSteady, Steady, Untried
<1>13. TriedIsNotNewer'
  <2> SUFFICES ASSUME NEW q \in Releases, attempts[q] > 0 PROVE q <= saved'.highest
    BY <1>1 DEF TriedIsNotNewer
  <2>1. q \in Nat /\ q <= saved.highest
    BY DEF UiConstants, TriedIsNotNewer
  <2> QED BY <1>2, <1>3, <1>5, <1>7, <1>10, <2>1
<1>14. BundlesStay'
  BY <1>1, <1>3, <1>5, <1>8 DEF BundlesStay, Refs
<1>15. PageIsNotOlder' /\ BrokenRunsOnce' /\ ReadyIsWhatRuns'
  BY <1>1 DEF PageIsNotOlder, BrokenRunsOnce, ReadyIsWhatRuns
<1> QED BY <1>6, <1>9, <1>11, <1>12, <1>13, <1>14, <1>15

-----------------------------------------------------------------------------
LEMMA UiStepInv == ASSUME UiConstants PROVE UiInv /\ [UiNext]_uiVars => UiInv'
<1> SUFFICES ASSUME UiInv, [UiNext]_uiVars PROVE UiInv'
  OBVIOUS
<1>1. CASE \/ PageLoads \/ Reload \/ ui_check \/ AskPointer \/ DownloadFails
           \/ \E p \in 1..2 : Publish(p)
  BY <1>1, QuietInv
<1>2. CASE Quit \/ Damage
  BY <1>2, QuitInv
<1>3. CASE Launch
  BY <1>3, LaunchInv
<1>4. CASE ui_recover
  BY <1>4, RecoverInv
<1>5. CASE Watchdog
  BY <1>5, WatchdogInv
<1>6. CASE ui_ready
  BY <1>6, ReadyInv
<1>7. CASE stage
  BY <1>7, StageInv
<1>8. CASE UNCHANGED uiVars
  BY <1>8 DEF uiVars, UiInv, UiTypeOK, CheckIsTyped, DiskIsSteady, MemoryIsSteady, PageIsNotOlder,
       TriedIsNotNewer, BrokenRunsOnce, BundlesStay, ReadyIsWhatRuns, Steady, Untried
<1> QED BY <1>1, <1>2, <1>3, <1>4, <1>5, <1>6, <1>7, <1>8 DEF UiNext

LEMMA UiSpecInv == ASSUME UiConstants PROVE UiSpec => []UiInv
BY UiInitInv, UiStepInv, PTL DEF UiSpec

(* An update can only make the interface better: whatever is published,    *)
(* damaged, rolled back, saved or not saved, a release whose page never    *)
(* comes up is given to the window once, what a launch may turn to is on   *)
(* disk, and only the release that is loaded is ever called ready.         *)
THEOREM UiSound ==
    ASSUME UiConstants PROVE UiSpec => []UiIsSound
<1>1. UiInv => UiIsSound
  BY DEF UiInv, UiIsSound
<1> QED BY <1>1, UiSpecInv, PTL

(* What the store falls back to, in memory or on disk, is a release that   *)
(* came up, and what it will turn to was never tried: no order of checks,  *)
(* failed saves and rollbacks leads it back to a broken one.               *)
FallsBackToGood ==
    /\ saved.previous \notin broken /\ Untried(saved)
    /\ store # NoStore => store.previous \notin broken /\ Untried(store)
THEOREM GoodToFallBackTo ==
    ASSUME UiConstants PROVE UiSpec => []FallsBackToGood
<1>1. UiInv => FallsBackToGood
  BY DEF UiInv, DiskIsSteady, MemoryIsSteady, Steady, FallsBackToGood
<1> QED BY <1>1, UiSpecInv, PTL

-----------------------------------------------------------------------------
(* Saved hubs *)

(* The session that is opened for a status. *)
SessionOf(s) == [hub |-> s.hub, key |-> s.key]

(* The hubs after one has been saved, or saved again. *)
With(s) == {h \in load_hubs : h.hub # s.hub} \cup {s}

(* No hub that readers see has this slot. *)
FreeSlot(i) == \A t \in load_hubs : t.slot # i

SavedTypes ==
    /\ marker \in Statuses \cup {Nil} /\ registry \subseteq Statuses
    /\ keychain \in [Slots -> Credentials \cup {Nil}]
    /\ client \in Sessions \cup {Nil} /\ connecting \in Statuses \cup {Nil}
    /\ cmd \in Commands \cup {Nil}
    /\ unused \in [keys : SUBSET Keys, slot : 1 .. MaxSlot + 1]
    /\ minted \in [PairCodes -> [hub : Hubs, state : {"live", "expired"}, bound : Keys \cup {Nil, "other"}]]
    /\ device \in [Keys -> Hubs \cup {Nil, "revoked"}]
    /\ forgot \subseteq Hubs /\ given_up \subseteq PairCodes /\ faults \in 0 .. MaxFaults

(* What readers see has one status per hub, each in a slot of its own; the *)
(* slots that were not given out are empty.                                *)
SlotsAreOwn ==
    /\ \A s, t \in load_hubs : s.hub = t.hub \/ s.slot = t.slot => s = t
    /\ \A s \in load_hubs : s.slot < unused.slot
    /\ \A i \in Slots : i >= unused.slot => keychain[i] = Nil

(* A key is bound to one code, and only once it was sent to a hub; the     *)
(* candidate's to no other code than the one it is kept for.               *)
KeysAreBoundOnce ==
    /\ \A c \in PairCodes : minted[c].bound \in Keys =>
          minted[c].bound \notin unused.keys /\ device[minted[c].bound] # Nil
    /\ \A c, d \in PairCodes : minted[c].bound \in Keys /\ minted[c].bound = minted[d].bound => c = d
    /\ keychain[candidate] # Nil =>
          /\ keychain[candidate].key \notin unused.keys
          /\ keychain[candidate].code \in PairCodes
          /\ \A c \in PairCodes : minted[c].bound = keychain[candidate].key => c = keychain[candidate].code

ActiveOrNil == client # Nil => marker # Nil /\ client = SessionOf(marker)

(* A session that is being opened is the active hub's, and nothing that    *)
(* could change that has the gate.                                         *)
OpensActive ==
    connecting # Nil =>
        /\ marker # Nil /\ SessionOf(connecting) = SessionOf(marker)
        /\ cmd = Nil \/ cmd.does \in {"remove", "rename"}

(* A check is of a hub that is saved; the gate keeps it so. *)
CheckIsCurrent ==
    checking # Nil =>
        /\ cmd = Nil /\ checking.status \in Statuses
        /\ \/ checking.at = "checking" /\ checking.status \in load_hubs
           \/ /\ checking.at = "marker" /\ marker # Nil
              /\ SessionOf(checking.status) = SessionOf(marker) /\ checking.status.slot = marker.slot

(* What is still to be written, in each command, and how it is related to  *)
(* what is already there.                                                  *)
Pairing ==
    /\ cmd.does = "pair" /\ ActiveOrNil
    /\ keychain[candidate] = [hub |-> minted[cmd.code].hub, key |-> cmd.key, code |-> cmd.code]

Renaming ==
    /\ cmd.does = "rename" /\ ActiveOrNil
    /\ cmd.todo = <<Write("registry", load_hubs, "stop")>>

Removing ==
    /\ cmd.does = "remove" /\ ActiveOrNil
    /\ \/ \E s \in load_hubs :
            \/ marker = Nil /\ cmd.todo = <<Write("registry", load_hubs \ {s}, "stop"),
                                            Write("marker", Nil, "stop"), Drop(s.slot, "stop")>>
            \/ /\ marker # Nil /\ marker.hub # s.hub
               /\ cmd.todo = <<Write("registry", load_hubs \ {s}, "stop"), Drop(s.slot, "stop")>>
       \/ \E i \in 1 .. MaxSlot :
            /\ FreeSlot(i)
            /\ \/ marker = Nil /\ cmd.todo = <<Write("marker", Nil, "stop"), Drop(i, "stop")>>
               \/ cmd.todo = <<Drop(i, "stop")>>

SwitchingRoute ==
    /\ cmd.does = "switch route" /\ marker # Nil
    /\ \/ \E url \in Urls :
            /\ ActiveOrNil /\ validate_credential(marker)
            /\ cmd.todo = <<Write("marker", [marker EXCEPT !.url = url], "stop"),
                            Write("client", SessionOf(marker), "go on")>>
       \/ cmd.todo = <<Write("client", SessionOf(marker), "go on")>>

SwitchingHub ==
    /\ cmd.does = "switch hub"
    /\ \/ \E s \in load_hubs, url \in Urls :
            LET new == [s EXCEPT !.url = url]
                last == <<Write("marker", new, "stop"), Write("client", SessionOf(s), "go on"),
                          Write("registry", (load_hubs \ {s}) \cup {new}, "go on")>>
            IN /\ ActiveOrNil /\ validate_credential(s)
               /\ \/ cmd.todo = <<Write("registry", load_hubs, "stop"), last[1], last[2], last[3]>>
                  \/ registry = load_hubs /\ cmd.todo = last
       \/ /\ marker # Nil
          /\ cmd.todo = <<Write("client", SessionOf(marker), "go on"), Write("registry", load_hubs, "go on")>>
       \/ ActiveOrNil /\ cmd.todo = <<Write("registry", load_hubs, "go on")>>

Forgetting ==
    /\ cmd.does = "forget" /\ client = Nil
    /\ marker # Nil => marker.hub \in forgot
    /\ LET others == load_hubs \ (IF marker = Nil THEN {} ELSE {marker})
           last == <<Write("registry", others, "stop"), Write("marker", Nil, "stop")>>
       IN \/ cmd.todo = <<Drop(IF marker = Nil THEN Nil ELSE marker.slot, "stop"), Drop(candidate, "stop"),
                          last[1], last[2]>>
          \/ cmd.todo = <<Drop(candidate, "stop"), last[1], last[2]>>
          \/ cmd.todo = last
          \/ /\ marker # Nil => \A t \in registry : t.hub # marker.hub
             /\ cmd.todo = <<Write("marker", Nil, "stop")>>

(* The candidate keeps the key of the pairing until its slot is in use. *)
CandidateHas(key) == keychain[candidate] # Nil /\ keychain[candidate].key = key

SaveSession(s) == Write("client", SessionOf(s), "go on")
SaveCredential(s) == Store(s.slot, [hub |-> s.hub, key |-> s.key, code |-> Nil], "undo")
EraseCandidate == Erase(candidate, "go on")

(* The status s of the new pairing is not the active one yet; old is the   *)
(* slot of the status that it will replace.                                *)
SavingStatus(s, old) ==
    LET last == <<Write("marker", s, "undo"), Write("registry", With(s), "skip"), Drop(old, "go on"),
                  SaveSession(s), EraseCandidate>>
    IN /\ ActiveOrNil /\ CandidateHas(s.key) /\ cmd.undo = <<Erase(s.slot, "go on")>>
       /\ s.slot < unused.slot /\ FreeSlot(s.slot) /\ old # candidate /\ old # s.slot
       /\ \A t \in load_hubs : t.slot = old => t.hub = s.hub
       /\ \/ /\ keychain[s.slot] = Nil
             /\ \/ cmd.todo = <<Write("registry", load_hubs, "undo"), SaveCredential(s),
                                last[1], last[2], last[3], last[4], last[5]>>
                \/ /\ registry = load_hubs
                   /\ cmd.todo = <<SaveCredential(s), last[1], last[2], last[3], last[4], last[5]>>
          \/ keychain[s.slot] = SaveCredential(s).val /\ registry = load_hubs /\ cmd.todo = last

(* The new pairing is the active hub. *)
SavedStatus(old) ==
    /\ marker # Nil /\ validate_credential(marker) /\ CandidateHas(marker.key)
    /\ old # candidate /\ FreeSlot(old)
    /\ \/ cmd.todo = <<Write("registry", load_hubs, "skip"), Drop(old, "go on"), SaveSession(marker), EraseCandidate>>
       \/ cmd.todo = <<Drop(old, "go on"), SaveSession(marker), EraseCandidate>>
       \/ cmd.todo = <<SaveSession(marker), EraseCandidate>>
       \/ ActiveOrNil /\ cmd.todo = <<EraseCandidate>>

(* The new pairing could not be saved; slot i is erased again. *)
Undoing(i) ==
    /\ ActiveOrNil /\ FreeSlot(i) /\ cmd.todo = <<Erase(i, "go on")>>
    /\ keychain[i] # Nil => CandidateHas(keychain[i].key)

Saving ==
    /\ cmd.does = "saving"
    /\ \/ \E s \in Statuses, old \in Slots \cup {Nil} : SavingStatus(s, old)
       \/ \E old \in Slots \cup {Nil} : SavedStatus(old)
       \/ \E i \in 1 .. MaxSlot : Undoing(i)

CommandFits ==
    \/ cmd = Nil /\ ActiveOrNil
    \/ /\ cmd # Nil
       /\ Pairing \/ Renaming \/ Removing \/ SwitchingRoute \/ SwitchingHub \/ Forgetting \/ Saving

SavedInv ==
    /\ SavedTypes
    /\ SlotsAreOwn
    /\ KeysAreBoundOnce
    /\ OpensActive
    /\ CheckIsCurrent
    /\ CommandFits
    /\ SavedHubsHaveKeys
    /\ LostAnswerIsRetried
-----------------------------------------------------------------------------
(* Lists of writes *)

LEMMA ListsIn ==
    ASSUME NEW S, NEW a \in S, NEW b \in S, NEW c \in S, NEW d \in S,
           NEW e \in S, NEW f \in S, NEW g \in S
    PROVE  /\ <<>> \in Seq(S)
           /\ <<a>> \in Seq(S)
           /\ <<a, b>> \in Seq(S)
           /\ <<a, b, c>> \in Seq(S)
           /\ <<a, b, c, d>> \in Seq(S)
           /\ <<a, b, c, d, e>> \in Seq(S)
           /\ <<a, b, c, d, e, f>> \in Seq(S)
           /\ <<a, b, c, d, e, f, g>> \in Seq(S)
OBVIOUS

(* The first write of a list, and the others. *)
LEMMA List1 == \A a : Head(<<a>>) = a /\ Tail(<<a>>) = <<>> /\ <<a>> # <<>>
OBVIOUS

LEMMA List2 == \A a, b : Head(<<a, b>>) = a /\ Tail(<<a, b>>) = <<b>> /\ <<a, b>> # <<>>
OBVIOUS

LEMMA List3 == \A a, b, c : Head(<<a, b, c>>) = a /\ Tail(<<a, b, c>>) = <<b, c>> /\ <<a, b, c>> # <<>>
OBVIOUS

LEMMA List4 == \A a, b, c, d : Head(<<a, b, c, d>>) = a /\ Tail(<<a, b, c, d>>) = <<b, c, d>> /\ <<a, b, c, d>> # <<>>
OBVIOUS

LEMMA List5 ==
    \A a, b, c, d, e :
        Head(<<a, b, c, d, e>>) = a /\ Tail(<<a, b, c, d, e>>) = <<b, c, d, e>> /\ <<a, b, c, d, e>> # <<>>
OBVIOUS

LEMMA List6 ==
    \A a, b, c, d, e, f :
        Head(<<a, b, c, d, e, f>>) = a /\ Tail(<<a, b, c, d, e, f>>) = <<b, c, d, e, f>> /\ <<a, b, c, d, e, f>> # <<>>
OBVIOUS

LEMMA List7 ==
    \A a, b, c, d, e, f, g :
        Head(<<a, b, c, d, e, f, g>>) = a /\ Tail(<<a, b, c, d, e, f, g>>) = <<b, c, d, e, f, g>> /\ <<a, b, c, d, e, f, g>> # <<>>
OBVIOUS

LEMMA SameList ==
    ASSUME NEW S, NEW s \in Seq(S), NEW t \in Seq(S), Len(s) = Len(t), Len(s) \in {2, 3}, s[1] = t[1], s[2] = t[2],
           Len(s) = 3 => s[3] = t[3]
    PROVE  s = t
<1>1. \A i \in 1 .. Len(s) : i = 1 \/ i = 2 \/ (i = 3 /\ Len(s) = 3)
  OBVIOUS
<1>2. \A i \in 1 .. Len(s) : s[i] = t[i]
  BY <1>1
<1> QED
  BY <1>2, SeqEqual

LEMMA ListItems ==
    ASSUME NEW S, NEW a \in S, NEW b \in S, NEW c \in S
    PROVE  /\ Len(<<a>>) = 1 /\ <<a>>[1] = a
           /\ Len(<<a, b>>) = 2 /\ <<a, b>>[1] = a /\ <<a, b>>[2] = b
           /\ Len(<<a, b, c>>) = 3 /\ <<a, b, c>>[1] = a /\ <<a, b, c>>[2] = b /\ <<a, b, c>>[3] = c
OBVIOUS

LEMMA JoinTwo ==
    ASSUME NEW S, NEW a \in S, NEW b \in S, NEW x \in Seq(S), NEW y \in Seq(S), NEW z \in Seq(S),
           x = <<a>>, y = <<b>>, z = <<a, b>>
    PROVE  x \o y = z
<1>1. Len(x) = 1 /\ Len(y) = 1 /\ Len(z) = 2 /\ x[1] = a /\ y[1] = b /\ z[1] = a /\ z[2] = b
  BY ListItems
<1>2. x \o y \in Seq(S) /\ Len(x \o y) = 2
  BY <1>1, ConcatProperties
<1>3. 1 \in 1 .. Len(x) + Len(y) /\ 2 \in 1 .. Len(x) + Len(y) /\ 2 - Len(x) = 1
  BY <1>1
<1>4. (x \o y)[1] = a /\ (x \o y)[2] = b
  BY <1>1, <1>3, ConcatProperties
<1> QED
  BY <1>1, <1>2, <1>4, SameList

LEMMA JoinThree ==
    ASSUME NEW S, NEW a \in S, NEW b \in S, NEW c \in S, NEW x \in Seq(S), NEW y \in Seq(S), NEW z \in Seq(S),
           x = <<a, b>>, y = <<c>>, z = <<a, b, c>>
    PROVE  x \o y = z
<1>1. Len(x) = 2 /\ Len(y) = 1 /\ Len(z) = 3 /\ x[1] = a /\ x[2] = b /\ y[1] = c /\ z[1] = a /\ z[2] = b /\ z[3] = c
  BY ListItems
<1>2. x \o y \in Seq(S) /\ Len(x \o y) = 3
  BY <1>1, ConcatProperties
<1>3. 1 \in 1 .. Len(x) + Len(y) /\ 2 \in 1 .. Len(x) + Len(y) /\ 3 \in 1 .. Len(x) + Len(y) /\ 3 - Len(x) = 1
  BY <1>1
<1>4. (x \o y)[1] = a /\ (x \o y)[2] = b /\ (x \o y)[3] = c
  BY <1>1, <1>3, ConcatProperties
<1> QED
  BY <1>1, <1>2, <1>4, SameList

(* How secure_remove_hub puts its list together. *)
LEMMA Joined ==
    ASSUME NEW S, NEW a \in S, NEW b \in S, NEW c \in S
    PROVE  <<a>> \o <<b>> \o <<c>> = <<a, b, c>> /\ <<a>> \o <<>> \o <<c>> = <<a, c>>
<1>1. <<a>> \in Seq(S) /\ <<b>> \in Seq(S) /\ <<c>> \in Seq(S) /\ <<a, b>> \in Seq(S) /\ <<a, c>> \in Seq(S)
      /\ <<a, b, c>> \in Seq(S)
  BY ListsIn
<1>2. <<a>> \o <<b>> = <<a, b>> /\ <<a>> \o <<c>> = <<a, c>>
  BY <1>1, JoinTwo
<1>3. <<a, b>> \o <<c>> = <<a, b, c>>
  BY <1>1, JoinThree
<1>4. <<a>> \o <<>> = <<a>>
  BY <1>1, ConcatEmptySeq
<1> QED
  BY <1>2, <1>3, <1>4

LEMMA CandidateIn == candidate \in Slots
BY SavedAssumption DEF candidate, Slots

LEMMA TodoSet ==
    ASSUME NEW t \in Seq(Writes), cmd \in Commands, cmd.does # "pair"
    PROVE  /\ [cmd EXCEPT !.todo = t] \in Commands /\ [cmd EXCEPT !.todo = t] # Nil
           /\ [cmd EXCEPT !.todo = t].does = cmd.does /\ [cmd EXCEPT !.todo = t].todo = t
           /\ [cmd EXCEPT !.todo = t].undo = cmd.undo
           /\ cmd.todo \in Seq(Writes) /\ cmd.undo \in Seq(Writes)
<1>1. cmd \in [does : {"saving", "switch route", "switch hub", "remove", "rename", "forget"},
               todo : Seq(Writes), undo : Seq(Writes)]
  BY DEF Commands
<1>2. [cmd EXCEPT !.todo = t] \in Commands
  BY <1>1 DEF Commands
<1> QED
  BY <1>1, <1>2, SavedAssumption

(* The rest of a list of writes is what the command does next, or the end. *)
LEMMA Continues ==
    ASSUME cmd \in Commands, cmd.does # "pair", NEW t \in Seq(Writes)
    PROVE  /\ t = <<>> => Continue(t) = Nil
           /\ t # <<>> => /\ Continue(t) \in Commands /\ Continue(t) # Nil /\ Continue(t).does = cmd.does
                          /\ Continue(t).todo = t /\ Continue(t).undo = cmd.undo
BY TodoSet DEF Continue

LEMMA RestOf ==
    ASSUME cmd \in Commands, cmd.does # "pair", cmd.todo # <<>>
    PROVE  Head(cmd.todo) \in Writes /\ Tail(cmd.todo) \in Seq(Writes)
<1>1. cmd.todo \in Seq(Writes)
  BY TodoSet, cmd.todo \in Seq(Writes) \/ cmd.todo \notin Seq(Writes) DEF Commands
<1> QED
  BY <1>1

(* What the writes do. *)
LEMMA RegistryWritten ==
    ASSUME NEW v, NEW f, Apply(Write("registry", v, f))
    PROVE  registry' = v /\ UNCHANGED <<marker, client, keychain, forgot, given_up>>
BY SavedAssumption DEF Apply, Write, Slots

LEMMA MarkerWritten ==
    ASSUME NEW v, NEW f, Apply(Write("marker", v, f))
    PROVE  /\ marker' = v /\ UNCHANGED <<registry, client, keychain, given_up>>
           /\ forgot' = IF v # Nil THEN forgot \ {v.hub} ELSE forgot
BY SavedAssumption DEF Apply, Write, Slots

LEMMA ClientWritten ==
    ASSUME NEW v, NEW f, Apply(Write("client", v, f))
    PROVE  client' = v /\ UNCHANGED <<registry, marker, keychain, forgot, given_up>>
BY SavedAssumption DEF Apply, Write, Slots

LEMMA SlotWritten ==
    ASSUME NEW i \in Slots, NEW v, NEW f, Apply(Store(i, v, f))
    PROVE  keychain' = [keychain EXCEPT ![i] = v] /\ UNCHANGED <<registry, marker, client, forgot, given_up>>
BY SavedAssumption DEF Apply, Store, Slots

LEMMA SlotDropped ==
    ASSUME NEW i \in Slots \cup {Nil}, NEW f, Apply(Drop(i, f))
    PROVE  /\ UNCHANGED <<registry, marker, client, forgot>>
           /\ i = Nil => UNCHANGED <<keychain, given_up>>
           /\ i # Nil => /\ keychain' = [keychain EXCEPT ![i] = Nil]
                         /\ given_up' = IF keychain[i] # Nil
                                        THEN given_up \cup {c \in PairCodes : minted[c].bound = keychain[i].key
                                                                              \/ keychain[i].code = c}
                                        ELSE given_up
BY SavedAssumption DEF Apply, Drop, Slots

-----------------------------------------------------------------------------
(* What readers see *)

LEMMA HubsAreStatuses ==
    ASSUME SavedTypes
    PROVE  /\ load_hubs \subseteq Statuses
           /\ marker # Nil => marker \in load_hubs /\ \A t \in load_hubs : t.hub = marker.hub => t = marker
           /\ \A s \in Statuses : s.hub \in Hubs /\ s.key \in Keys /\ s.slot \in 1 .. MaxSlot
                                  /\ s.slot \in Slots /\ s.slot # candidate /\ s.url \in Urls /\ s # Nil
BY SavedAssumption DEF SavedTypes, load_hubs, Statuses, Slots, candidate

(* Writing the merged list changes nothing for a reader. *)
LEMMA MergedIsSame ==
    ASSUME SavedTypes, registry' = load_hubs, marker' = marker
    PROVE  load_hubs' = load_hubs
BY DEF load_hubs

LEMMA HubsFrame ==
    ASSUME UNCHANGED <<registry, marker>>
    PROVE  load_hubs' = load_hubs
BY DEF load_hubs

(* Fewer hubs, with the same keys. *)
LEMMA FewerHubs ==
    ASSUME SlotsAreOwn, SavedHubsHaveKeys, load_hubs' \subseteq load_hubs,
           UNCHANGED <<keychain, forgot, unused>>
    PROVE  SlotsAreOwn' /\ SavedHubsHaveKeys'
BY DEF SlotsAreOwn, SavedHubsHaveKeys, validate_credential

LEMMA KeysFrame ==
    ASSUME KeysAreBoundOnce, LostAnswerIsRetried, UNCHANGED <<keychain, minted, device, unused, given_up>>
    PROVE  KeysAreBoundOnce' /\ LostAnswerIsRetried'
BY DEF KeysAreBoundOnce, LostAnswerIsRetried

(* A slot that no hub refers to is emptied: its hub's codes are given up,  *)
(* or the candidate has the same key.                                      *)
LEMMA SlotEmptied ==
    ASSUME SavedTypes, SlotsAreOwn, SavedHubsHaveKeys, NEW i \in Slots, keychain' = [keychain EXCEPT ![i] = Nil],
           UNCHANGED <<registry, marker, forgot, unused>>,
           \A t \in load_hubs : t.slot = i => t.hub \in forgot
    PROVE  SlotsAreOwn' /\ SavedHubsHaveKeys'
<1>1. load_hubs' = load_hubs
  BY HubsFrame
<1>2. \A s \in load_hubs : s.slot \in Slots
  BY HubsAreStatuses
<1>3. SlotsAreOwn'
  BY <1>1 DEF SlotsAreOwn, SavedTypes
<1>4. SavedHubsHaveKeys'
  BY <1>1, <1>2 DEF SavedHubsHaveKeys, validate_credential, SavedTypes
<1> QED
  BY <1>3, <1>4

LEMMA KeyDropped ==
    ASSUME SavedTypes, KeysAreBoundOnce, LostAnswerIsRetried, NEW i \in Slots,
           keychain' = [keychain EXCEPT ![i] = Nil],
           given_up' = IF keychain[i] # Nil
                       THEN given_up \cup {c \in PairCodes : minted[c].bound = keychain[i].key \/ keychain[i].code = c}
                       ELSE given_up,
           UNCHANGED <<minted, device, unused>>
    PROVE  KeysAreBoundOnce' /\ LostAnswerIsRetried'
<1>1. KeysAreBoundOnce'
  BY DEF KeysAreBoundOnce, SavedTypes, Slots, candidate
<1>2. ASSUME NEW c \in PairCodes, c \notin given_up', minted'[c].bound \in Keys
      PROVE  \E s \in Slots : keychain'[s] # Nil /\ keychain'[s].key = minted'[c].bound
  <2>1. PICK s \in Slots : keychain[s] # Nil /\ keychain[s].key = minted[c].bound
    BY <1>2 DEF LostAnswerIsRetried
  <2>2. s # i
    BY <2>1, <1>2
  <2>3. keychain'[s] = keychain[s]
    BY <2>2 DEF SavedTypes
  <2> QED
    BY <2>1, <2>3
<1>3. LostAnswerIsRetried'
  BY <1>2 DEF LostAnswerIsRetried
<1> QED
  BY <1>1, <1>3

(* A slot is emptied whose key another slot has too. *)
LEMMA KeyElsewhere ==
    ASSUME SavedTypes, KeysAreBoundOnce, LostAnswerIsRetried, NEW i \in Slots, NEW j \in Slots, i # j,
           keychain[i] # Nil => keychain[j] # Nil /\ keychain[j].key = keychain[i].key,
           keychain' = [keychain EXCEPT ![i] = Nil], UNCHANGED <<minted, device, unused, given_up>>
    PROVE  KeysAreBoundOnce' /\ LostAnswerIsRetried'
<1>1. KeysAreBoundOnce'
  BY DEF KeysAreBoundOnce, SavedTypes, Slots, candidate
<1>2. ASSUME NEW c \in PairCodes, c \notin given_up', minted'[c].bound \in Keys
      PROVE  \E s \in Slots : keychain'[s] # Nil /\ keychain'[s].key = minted'[c].bound
  <2>1. PICK s \in Slots : keychain[s] # Nil /\ keychain[s].key = minted[c].bound
    BY <1>2 DEF LostAnswerIsRetried
  <2>2. keychain'[j] = keychain[j] /\ (s # i => keychain'[s] = keychain[s])
    BY DEF SavedTypes
  <2> QED
    BY <2>1, <2>2
<1>3. LostAnswerIsRetried'
  BY <1>2 DEF LostAnswerIsRetried
<1> QED
  BY <1>1, <1>3

-----------------------------------------------------------------------------
(* Steps that write nothing of the device's three stores *)

LEMMA DataFrame ==
    ASSUME SavedInv, UNCHANGED <<marker, registry, keychain, unused, forgot>>
    PROVE  load_hubs' = load_hubs /\ SlotsAreOwn' /\ SavedHubsHaveKeys'
BY HubsFrame, FewerHubs DEF SavedInv

(* The running command still fits; a session may close, and the hubs may   *)
(* go on with their codes.                                                 *)
LEMMA CommandFrame ==
    ASSUME SavedInv, UNCHANGED <<marker, registry, keychain, unused, cmd, forgot>>, client' \in {client, Nil},
           \A c \in PairCodes : minted'[c].hub = minted[c].hub
    PROVE  CommandFits'
<1>1. load_hubs' = load_hubs
  BY HubsFrame
<1>2. ActiveOrNil => ActiveOrNil'
  BY DEF ActiveOrNil
<1>3. \A t \in Statuses : With(t)' = With(t) /\ validate_credential(t)' = validate_credential(t)
  BY <1>1 DEF With, validate_credential
<1>4. \A i : FreeSlot(i)' = FreeSlot(i) /\ CandidateHas(i)' = CandidateHas(i)
  BY <1>1 DEF FreeSlot, CandidateHas
<1>5. CASE cmd = Nil
  BY <1>5, <1>2 DEF CommandFits, SavedInv
<1>6. CASE cmd # Nil /\ Pairing
  <2>1. cmd.code \in PairCodes
    BY <1>6 DEF SavedInv, SavedTypes, Commands, Pairing
  <2> QED
    BY <1>6, <1>2, <2>1 DEF CommandFits, Pairing
<1>7. CASE cmd # Nil /\ Renaming
  BY <1>7, <1>1, <1>2 DEF CommandFits, Renaming
<1>8. CASE cmd # Nil /\ Removing
  <2>1. Removing'
    BY <1>8, <1>1, <1>2, <1>4 DEF Removing
  <2> QED
    BY <1>8, <2>1 DEF CommandFits
<1>9. CASE cmd # Nil /\ SwitchingRoute
  <2>1. SwitchingRoute'
    BY <1>9, <1>2 DEF SwitchingRoute, validate_credential
  <2> QED
    BY <1>9, <2>1 DEF CommandFits
<1>10. CASE cmd # Nil /\ SwitchingHub
  <2>1. SwitchingHub'
    BY <1>10, <1>1, <1>2 DEF SwitchingHub, validate_credential
  <2> QED
    BY <1>10, <2>1 DEF CommandFits
<1>11. CASE cmd # Nil /\ Forgetting
  <2>1. Forgetting'
    BY <1>11, <1>1 DEF Forgetting
  <2> QED
    BY <1>11, <2>1 DEF CommandFits
<1>12. CASE cmd # Nil /\ Saving
  <2>1. ASSUME NEW s \in Statuses, NEW old, SavingStatus(s, old)
        PROVE  SavingStatus(s, old)'
    BY <2>1, <1>1, <1>2, <1>3, <1>4 DEF SavingStatus
  <2>2. ASSUME NEW old, SavedStatus(old)
        PROVE  SavedStatus(old)'
    BY <2>2, <1>1, <1>2, <1>4 DEF SavedStatus, validate_credential
  <2>3. ASSUME NEW i, Undoing(i)
        PROVE  Undoing(i)'
    BY <2>3, <1>2, <1>4 DEF Undoing
  <2>4. Saving'
    BY <1>12, <2>1, <2>2, <2>3 DEF Saving
  <2> QED
    BY <1>12, <2>4 DEF CommandFits
<1> QED
  BY <1>5, <1>6, <1>7, <1>8, <1>9, <1>10, <1>11, <1>12 DEF SavedInv, CommandFits

(* Nothing of the device changes but the session. *)
LEMMA SessionFrame ==
    ASSUME SavedInv, UNCHANGED <<marker, registry, keychain, unused, cmd, forgot, given_up, minted, device, faults>>,
           client' \in {client, Nil}
    PROVE  /\ CommandFits' /\ SlotsAreOwn' /\ SavedHubsHaveKeys' /\ KeysAreBoundOnce' /\ LostAnswerIsRetried'
           /\ load_hubs' = load_hubs
BY CommandFrame, DataFrame, KeysFrame DEF SavedInv

LEMMA CloseKeeps ==
    ASSUME SavedInv, CloseClient
    PROVE  SavedInv'
<1>1. /\ CommandFits' /\ SlotsAreOwn' /\ SavedHubsHaveKeys' /\ KeysAreBoundOnce' /\ LostAnswerIsRetried'
      /\ load_hubs' = load_hubs
  BY SessionFrame DEF CloseClient
<1>2. SavedTypes' /\ OpensActive' /\ CheckIsCurrent'
  BY <1>1 DEF CloseClient, SavedInv, SavedTypes, OpensActive, CheckIsCurrent
<1> QED
  BY <1>1, <1>2 DEF SavedInv

LEMMA ConnectedKeeps ==
    ASSUME SavedInv, connected
    PROVE  SavedInv'
<1>1. /\ CommandFits' /\ SlotsAreOwn' /\ SavedHubsHaveKeys' /\ KeysAreBoundOnce' /\ LostAnswerIsRetried'
      /\ load_hubs' = load_hubs
  BY SessionFrame DEF connected
<1>2. SavedTypes' /\ OpensActive' /\ CheckIsCurrent'
  BY <1>1 DEF connected, SavedInv, SavedTypes, OpensActive, CheckIsCurrent
<1> QED
  BY <1>1, <1>2 DEF SavedInv

LEMMA OpenKeeps ==
    ASSUME SavedInv, OpenSession
    PROVE  SavedInv'
<1>1. SlotsAreOwn' /\ SavedHubsHaveKeys' /\ load_hubs' = load_hubs
  BY DataFrame DEF OpenSession
<1>2. KeysAreBoundOnce' /\ LostAnswerIsRetried'
  BY KeysFrame DEF OpenSession, SavedInv
<1>3. marker # Nil /\ SessionOf(connecting) = SessionOf(marker) /\ (cmd = Nil \/ cmd.does \in {"remove", "rename"})
  BY DEF OpenSession, SavedInv, OpensActive
<1>4. cmd' = cmd /\ marker' = marker /\ registry' = registry /\ connecting' = Nil /\ checking' = checking
  BY DEF OpenSession
<1>5. connecting \in Statuses /\ client' \in {client, SessionOf(connecting)}
  BY DEF OpenSession, SavedInv, SavedTypes, SessionOf
<1>6. SessionOf(connecting) \in Sessions
  BY <1>5, HubsAreStatuses DEF SessionOf, Sessions, SavedInv
<1>7. SavedTypes' /\ OpensActive' /\ CheckIsCurrent'
  BY <1>1, <1>4, <1>5, <1>6 DEF OpenSession, SavedInv, SavedTypes, OpensActive, CheckIsCurrent
<1>8. ActiveOrNil => ActiveOrNil'
  BY <1>3, <1>4, <1>5 DEF ActiveOrNil
<1>9. ASSUME cmd = Nil
      PROVE  CommandFits'
  <2>1. cmd' = Nil /\ ActiveOrNil'
    BY <1>9, <1>4, <1>8 DEF CommandFits, SavedInv
  <2> QED
    BY <2>1 DEF CommandFits
<1>10. ASSUME cmd # Nil
       PROVE  CommandFits'
  <2>1. Renaming \/ Removing
    BY <1>3, <1>10 DEF CommandFits, SavedInv, Pairing, SwitchingRoute, SwitchingHub, Forgetting, Saving
  <2>2. Renaming => Renaming'
    BY <1>1, <1>4, <1>8 DEF Renaming
  <2>3. Removing => Removing'
    BY <1>1, <1>4, <1>8 DEF Removing, FreeSlot
  <2>4. Renaming' \/ Removing'
    BY <2>1, <2>2, <2>3
  <2>5. cmd' # Nil
    BY <1>10, <1>4
  <2> QED
    BY <2>4, <2>5 DEF CommandFits
<1> QED
  BY <1>1, <1>2, <1>7, <1>9, <1>10 DEF SavedInv

-----------------------------------------------------------------------------
(* The hubs *)

LEMMA OtherDeviceKeeps ==
    ASSUME SavedInv, NEW c \in PairCodes, OtherDevicePairs(c)
    PROVE  SavedInv'
<1>1. SlotsAreOwn' /\ SavedHubsHaveKeys' /\ load_hubs' = load_hubs
  BY DataFrame DEF OtherDevicePairs
<1>2. \A d \in PairCodes : minted'[d] = [minted[d] EXCEPT !.bound = IF d = c THEN "other" ELSE @]
  BY DEF OtherDevicePairs, SavedInv, SavedTypes
<1>3. \A d \in PairCodes : minted'[d].hub = minted[d].hub /\ minted'[d].bound \in {minted[d].bound, "other"}
  BY <1>2 DEF SavedInv, SavedTypes
<1>4. CommandFits'
  BY <1>3, CommandFrame DEF OtherDevicePairs
<1>5. SavedTypes' /\ OpensActive' /\ CheckIsCurrent'
  BY <1>1 DEF OtherDevicePairs, SavedInv, SavedTypes, OpensActive, CheckIsCurrent
<1>6. keychain[candidate] # Nil => keychain[candidate].key \in Keys
  BY SavedAssumption DEF SavedInv, SavedTypes, Slots, candidate, Credentials
<1>7. KeysAreBoundOnce'
  BY <1>3, <1>6, SavedAssumption DEF OtherDevicePairs, SavedInv, KeysAreBoundOnce
<1>8. LostAnswerIsRetried'
  BY <1>3, SavedAssumption DEF OtherDevicePairs, SavedInv, LostAnswerIsRetried
<1> QED
  BY <1>1, <1>4, <1>5, <1>7, <1>8 DEF SavedInv

LEMMA ExpiryKeeps ==
    ASSUME SavedInv, NEW c \in PairCodes, CodeExpires(c)
    PROVE  SavedInv'
<1>1. SlotsAreOwn' /\ SavedHubsHaveKeys' /\ load_hubs' = load_hubs
  BY DataFrame DEF CodeExpires
<1>2. \A d \in PairCodes : minted'[d].hub = minted[d].hub /\ minted'[d].bound = minted[d].bound
  BY DEF CodeExpires, SavedInv, SavedTypes
<1>3. CommandFits'
  BY <1>2, CommandFrame DEF CodeExpires
<1>4. SavedTypes' /\ OpensActive' /\ CheckIsCurrent'
  BY <1>1 DEF CodeExpires, SavedInv, SavedTypes, OpensActive, CheckIsCurrent
<1>5. KeysAreBoundOnce' /\ LostAnswerIsRetried'
  BY <1>2 DEF CodeExpires, SavedInv, KeysAreBoundOnce, LostAnswerIsRetried
<1> QED
  BY <1>1, <1>3, <1>4, <1>5 DEF SavedInv

LEMMA RevokeKeeps ==
    ASSUME SavedInv, NEW k \in Keys, revoke(k)
    PROVE  SavedInv'
<1>1. SlotsAreOwn' /\ SavedHubsHaveKeys' /\ load_hubs' = load_hubs
  BY DataFrame DEF revoke
<1>2. CommandFits'
  BY CommandFrame DEF revoke
<1>3. SavedTypes' /\ OpensActive' /\ CheckIsCurrent'
  BY <1>1 DEF revoke, SavedInv, SavedTypes, OpensActive, CheckIsCurrent
<1>4. \A d \in Keys : device[d] # Nil => device'[d] # Nil
  BY SavedAssumption DEF revoke, SavedInv, SavedTypes
<1>5. KeysAreBoundOnce' /\ LostAnswerIsRetried'
  BY <1>4 DEF revoke, SavedInv, KeysAreBoundOnce, LostAnswerIsRetried
<1> QED
  BY <1>1, <1>2, <1>3, <1>5 DEF SavedInv

LEMMA HubPairsKeeps ==
    ASSUME SavedInv, HubPairs
    PROVE  SavedInv'
<1> DEFINE c == cmd.code
           k == cmd.key
<1>1. cmd # Nil /\ cmd.does = "pair" /\ cmd \in Commands
  BY DEF HubPairs, SavedInv, SavedTypes
<1>2. cmd \in [does : {"pair"}, at : {"sent", "acked"}, key : Keys, code : PairCodes]
  BY <1>1 DEF Commands
<1>3. c \in PairCodes /\ k \in Keys /\ cmd' = [cmd EXCEPT !.at = "acked"] /\ cmd' \in Commands /\ cmd' # Nil
  BY <1>2, SavedAssumption DEF HubPairs, Commands
<1>4. Pairing
  BY <1>1 DEF SavedInv, CommandFits, Renaming, Removing, SwitchingRoute, SwitchingHub, Forgetting, Saving
<1>5. SlotsAreOwn' /\ SavedHubsHaveKeys' /\ load_hubs' = load_hubs
  BY DataFrame DEF HubPairs
<1>6. keychain[candidate] # Nil /\ keychain[candidate].key = k /\ keychain[candidate].code = c
  <2>1. keychain[candidate] \in Credentials
    BY <1>4, <1>3 DEF Pairing, SavedInv, SavedTypes, Credentials
  <2> QED
    BY <1>4, <2>1, SavedAssumption DEF Pairing
<1>7. \/ UNCHANGED <<minted, device>> /\ minted[c].bound = k
      \/ /\ minted[c].bound = Nil /\ device[k] = Nil
         /\ minted' = [minted EXCEPT ![c].bound = k] /\ device' = [device EXCEPT ![k] = minted[c].hub]
  BY DEF HubPairs, pair
<1>8. \A d \in PairCodes : /\ minted'[d].hub = minted[d].hub
                           /\ minted'[d].bound = IF d = c THEN k ELSE minted[d].bound
  BY <1>7, <1>3 DEF SavedInv, SavedTypes
<1>9. minted[c].hub \in Hubs
  BY <1>3 DEF SavedInv, SavedTypes
<1>10. SavedTypes'
  BY <1>7, <1>9, <1>3 DEF HubPairs, SavedInv, SavedTypes
<1>11. OpensActive' /\ CheckIsCurrent'
  BY <1>1, <1>3 DEF HubPairs, SavedInv, OpensActive, CheckIsCurrent
<1>12. CommandFits'
  <2>1. cmd'.does = "pair" /\ cmd'.code = c /\ cmd'.key = k
    BY <1>2, <1>3
  <2>2. Pairing'
    BY <2>1, <1>4, <1>3, <1>8 DEF Pairing, HubPairs, ActiveOrNil
  <2> QED
    BY <2>2, <1>3 DEF CommandFits
<1>13. \A d \in PairCodes : device[k] = Nil => minted[d].bound # k
  BY <1>3 DEF SavedInv, KeysAreBoundOnce
<1>14. \A x \in Keys : device[x] # Nil => device'[x] = device[x] /\ (x = k => device' = device)
  BY <1>7, <1>3 DEF SavedInv, SavedTypes
<1>15. device'[k] # Nil
  <2>1. CASE device' = device /\ minted[c].bound = k
    BY <2>1, <1>3 DEF SavedInv, KeysAreBoundOnce
  <2>2. CASE device' = [device EXCEPT ![k] = minted[c].hub]
    BY <2>2, <1>9, <1>3, SavedAssumption DEF SavedInv, SavedTypes
  <2> QED
    BY <2>1, <2>2, <1>7
<1>16. \A d \in PairCodes : minted[d].bound = k => d = c
  BY <1>7, <1>13, <1>3 DEF SavedInv, KeysAreBoundOnce
<1>17. KeysAreBoundOnce'
  <2>1. keychain' = keychain /\ unused' = unused
    BY DEF HubPairs
  <2>2. k \notin unused.keys
    BY <1>6 DEF SavedInv, KeysAreBoundOnce
  <2>3. \A d \in PairCodes : minted'[d].bound \in Keys =>
           minted'[d].bound \notin unused'.keys /\ device'[minted'[d].bound] # Nil
    BY <2>1, <2>2, <1>8, <1>14, <1>15 DEF SavedInv, KeysAreBoundOnce
  <2>4. \A d, e \in PairCodes : minted'[d].bound \in Keys /\ minted'[d].bound = minted'[e].bound => d = e
    BY <1>8, <1>16 DEF SavedInv, KeysAreBoundOnce
  <2>5. \A d \in PairCodes : minted'[d].bound = keychain'[candidate].key => d = keychain'[candidate].code
    BY <2>1, <1>6, <1>8, <1>16
  <2>6. keychain'[candidate].key \notin unused'.keys /\ keychain'[candidate].code \in PairCodes
    BY <2>1, <2>2, <1>6, <1>3
  <2> QED
    BY <2>3, <2>4, <2>5, <2>6 DEF KeysAreBoundOnce
<1>18. LostAnswerIsRetried'
  <2>1. candidate \in Slots
    BY SavedAssumption DEF Slots, candidate
  <2>2. keychain' = keychain /\ given_up' = given_up
    BY DEF HubPairs
  <2> QED
    BY <2>1, <2>2, <1>6, <1>8 DEF SavedInv, LostAnswerIsRetried
<1> QED
  BY <1>5, <1>10, <1>11, <1>12, <1>17, <1>18 DEF SavedInv

-----------------------------------------------------------------------------
(* Checks of a connection *)

LEMMA SecureRoutesKeeps ==
    ASSUME SavedInv, NEW h \in Hubs, secure_routes(h)
    PROVE  SavedInv'
<1>1. /\ CommandFits' /\ SlotsAreOwn' /\ SavedHubsHaveKeys' /\ KeysAreBoundOnce' /\ LostAnswerIsRetried'
      /\ load_hubs' = load_hubs
  BY SessionFrame DEF secure_routes
<1>2. PICK s \in find_hub(h) : checking' = [at |-> "checking", status |-> s]
  BY DEF secure_routes
<1>3. s \in load_hubs /\ s \in Statuses
  BY HubsAreStatuses DEF find_hub, SavedInv
<1>4. CheckIsCurrent'
  BY <1>1, <1>2, <1>3 DEF secure_routes, CheckIsCurrent
<1>5. SavedTypes' /\ OpensActive'
  BY <1>1 DEF secure_routes, SavedInv, SavedTypes, OpensActive
<1> QED
  BY <1>1, <1>4, <1>5 DEF SavedInv

LEMMA RoutesCheckedKeeps ==
    ASSUME SavedInv, RoutesChecked
    PROVE  SavedInv'
<1> DEFINE s == checking.status
<1>1. checking # Nil /\ cmd = Nil /\ s \in Statuses /\ s \in load_hubs
  BY DEF RoutesChecked, SavedInv, CheckIsCurrent
<1>2. PICK advertised \in SUBSET Urls, verified \in SUBSET Urls :
         LET new == [s EXCEPT !.routes = merge_routes(advertised, s, verified)]
         IN /\ registry' = {h \in load_hubs : h.hub # s.hub} \cup {new}
            /\ checking' = IF marker # Nil /\ marker.hub = s.hub THEN [at |-> "marker", status |-> new] ELSE Nil
  BY DEF RoutesChecked
<1> DEFINE new == [s EXCEPT !.routes = merge_routes(advertised, s, verified)]
<1>3. merge_routes(advertised, s, verified) \subseteq Urls
  BY <1>1 DEF merge_routes, normalize, Statuses
<1>4. new \in Statuses /\ new.hub = s.hub /\ new.key = s.key /\ new.slot = s.slot
  BY <1>1, <1>3 DEF Statuses
<1> HIDE DEF new
<1>5. UNCHANGED <<marker, keychain, client, connecting, cmd, unused, minted, device, forgot, given_up, faults>>
  BY DEF RoutesChecked
<1>6. /\ registry' = {h \in load_hubs : h.hub # s.hub} \cup {new}
      /\ checking' = IF marker # Nil /\ marker.hub = s.hub THEN [at |-> "marker", status |-> new] ELSE Nil
  BY <1>2 DEF new
<1>7. SlotsAreOwn /\ SavedHubsHaveKeys
  BY DEF SavedInv
<1>8. load_hubs \subseteq Statuses
  BY HubsAreStatuses DEF SavedInv
<1>9. marker # Nil /\ marker.hub = s.hub => marker = s
  BY <1>1, HubsAreStatuses DEF SavedInv
<1>10. \A t \in load_hubs' : t \in load_hubs \/ t = new
  BY <1>5, <1>6 DEF load_hubs
<1>11. marker # Nil /\ marker.hub = s.hub => load_hubs' = load_hubs
  BY <1>4, <1>5, <1>6, <1>9 DEF load_hubs
<1>12. \A t \in load_hubs' : t # new => t.hub # s.hub \/ load_hubs' = load_hubs
  BY <1>5, <1>6, <1>9, <1>11 DEF load_hubs
<1>13. SlotsAreOwn'
  <2>1. CASE load_hubs' = load_hubs
    BY <2>1, <1>5, <1>7 DEF SlotsAreOwn
  <2>2. CASE load_hubs' # load_hubs
    <3>1. \A t \in load_hubs' : t = new \/ (t \in load_hubs /\ t.hub # s.hub)
      BY <2>2, <1>10, <1>12
    <3> QED
      BY <3>1, <1>1, <1>4, <1>5, <1>7 DEF SlotsAreOwn
  <2> QED
    BY <2>1, <2>2
<1>14. SavedHubsHaveKeys'
  BY <1>1, <1>4, <1>5, <1>7, <1>10 DEF SavedHubsHaveKeys, validate_credential
<1>15. KeysAreBoundOnce' /\ LostAnswerIsRetried'
  BY KeysFrame, <1>5 DEF SavedInv
<1>16. SavedTypes'
  BY <1>4, <1>5, <1>6, <1>8 DEF SavedInv, SavedTypes
<1>17. OpensActive' /\ CommandFits'
  <2>1. ActiveOrNil
    BY <1>1 DEF SavedInv, CommandFits
  <2> QED
    BY <2>1, <1>1, <1>5 DEF SavedInv, OpensActive, CommandFits, ActiveOrNil
<1>18. CheckIsCurrent'
  BY <1>1, <1>4, <1>5, <1>6, <1>9 DEF CheckIsCurrent, SessionOf
<1> QED
  BY <1>13, <1>14, <1>15, <1>16, <1>17, <1>18 DEF SavedInv

LEMMA RoutesSavedKeeps ==
    ASSUME SavedInv, RoutesSaved
    PROVE  SavedInv'
<1> DEFINE new == checking.status
<1>1. UNCHANGED <<registry, keychain, client, connecting, cmd, unused, minted, device, forgot, given_up, faults>>
      /\ checking' = Nil /\ cmd = Nil
  BY DEF RoutesSaved, SavedInv, CheckIsCurrent
<1>2. KeysAreBoundOnce' /\ LostAnswerIsRetried'
  BY KeysFrame, <1>1 DEF SavedInv
<1>3. CheckIsCurrent'
  BY <1>1 DEF CheckIsCurrent
<1>4. CASE marker' = marker
  <2>1. SlotsAreOwn' /\ SavedHubsHaveKeys'
    BY <1>1, <1>4, DataFrame
  <2>2. CommandFits'
    BY <1>1, <1>4, CommandFrame
  <2>3. SavedTypes' /\ OpensActive'
    BY <1>1, <1>4 DEF SavedInv, SavedTypes, OpensActive
  <2> QED
    BY <2>1, <2>2, <2>3, <1>2, <1>3 DEF SavedInv
<1>5. CASE marker' = new /\ checking.at = "marker"
  <2>1. marker # Nil /\ new \in Statuses /\ SessionOf(new) = SessionOf(marker) /\ new.slot = marker.slot
    BY <1>5 DEF RoutesSaved, SavedInv, CheckIsCurrent
  <2>2. marker' # Nil /\ marker'.hub = marker.hub /\ marker'.key = marker.key /\ marker'.slot = marker.slot
    BY <2>1, <1>5, HubsAreStatuses DEF SessionOf, SavedInv
  <2>3. load_hubs' = (load_hubs \ {marker}) \cup {marker'} /\ marker \in load_hubs
    BY <2>1, <2>2, <1>1 DEF load_hubs
  <2>4. SlotsAreOwn'
    BY <2>2, <2>3, <1>1 DEF SavedInv, SlotsAreOwn
  <2>5. SavedHubsHaveKeys'
    BY <2>2, <2>3, <1>1 DEF SavedInv, SavedHubsHaveKeys, validate_credential
  <2>6. SessionOf(marker)' = SessionOf(marker)
    BY <2>2 DEF SessionOf
  <2>7. SavedTypes'
    BY <2>1, <1>1, <1>5 DEF SavedInv, SavedTypes
  <2>8. OpensActive'
    BY <2>1, <2>2, <2>6, <1>1 DEF SavedInv, OpensActive, SessionOf
  <2>9. CommandFits'
    <3>1. ActiveOrNil
      BY <1>1 DEF SavedInv, CommandFits
    <3>2. ActiveOrNil'
      BY <3>1, <2>2, <2>6, <1>1 DEF ActiveOrNil, SessionOf
    <3> QED
      BY <3>2, <1>1 DEF CommandFits
  <2> QED
    BY <2>4, <2>5, <2>7, <2>8, <2>9, <1>2, <1>3 DEF SavedInv
<1> QED
  BY <1>4, <1>5 DEF RoutesSaved

LEMMA KilledKeeps ==
    ASSUME SavedInv, AppKilled
    PROVE  SavedInv'
<1>1. UNCHANGED <<marker, registry, keychain, unused, minted, device, forgot, given_up>>
      /\ client' = Nil /\ connecting' = Nil /\ checking' = Nil /\ cmd' = Nil /\ faults' \in 0 .. MaxFaults
  BY SavedAssumption DEF AppKilled, SavedInv, SavedTypes
<1>2. SlotsAreOwn' /\ SavedHubsHaveKeys'
  BY <1>1, DataFrame
<1>3. KeysAreBoundOnce' /\ LostAnswerIsRetried'
  BY KeysFrame, <1>1 DEF SavedInv
<1>4. SavedTypes' /\ OpensActive' /\ CheckIsCurrent' /\ CommandFits'
  BY <1>1 DEF SavedInv, SavedTypes, OpensActive, CheckIsCurrent, CommandFits, ActiveOrNil
<1> QED
  BY <1>2, <1>3, <1>4 DEF SavedInv

-----------------------------------------------------------------------------
(* Commands begin *)

LEMMA WritesIn ==
    ASSUME NEW f \in {"stop", "undo", "go on", "skip"}
    PROVE  /\ \A v \in SUBSET Statuses : Write("registry", v, f) \in Writes
           /\ \A v \in Statuses \cup {Nil} : Write("marker", v, f) \in Writes
           /\ \A v \in Sessions : Write("client", v, f) \in Writes
           /\ \A i \in Slots \cup {Nil} : Erase(i, f) \in Writes /\ Drop(i, f) \in Writes
           /\ \A i \in Slots, v \in Credentials : Store(i, v, f) \in Writes
<1>1. /\ Nil \in Values /\ Statuses \subseteq Values /\ SUBSET Statuses \subseteq Values
      /\ Credentials \subseteq Values /\ Sessions \subseteq Values
  BY DEF Values
<1>2. \A v \in Values : \A on \in {"registry", "marker", "client"} : Write(on, v, f) \in Writes
  BY DEF Writes, Write
<1>3. \A i \in Slots \cup {Nil}, v \in Values : Store(i, v, f) \in Writes
  BY DEF Writes, Store
<1>4. \A i \in Slots \cup {Nil} : Drop(i, f) \in Writes
  BY <1>1 DEF Writes, Drop
<1>5. \A v \in SUBSET Statuses : Write("registry", v, f) \in Writes
  BY <1>1, <1>2
<1>6. \A v \in Statuses \cup {Nil} : Write("marker", v, f) \in Writes
  BY <1>1, <1>2
<1>7. \A v \in Sessions : Write("client", v, f) \in Writes
  BY <1>1, <1>2
<1>8. \A i \in Slots \cup {Nil} : Erase(i, f) \in Writes
  BY <1>1, <1>3 DEF Erase
<1>9. \A i \in Slots, v \in Credentials : Store(i, v, f) \in Writes
  BY <1>1, <1>3
<1> QED
  BY <1>4, <1>5, <1>6, <1>7, <1>8, <1>9

LEMMA SessionsIn ==
    ASSUME NEW s \in Statuses
    PROVE  SessionOf(s) \in Sessions /\ SaveCredential(s).val \in Credentials /\ SaveCredential(s) \in Writes
           /\ SaveSession(s) \in Writes /\ Erase(s.slot, "go on") \in Writes
           /\ SessionOf(s).hub = s.hub /\ SessionOf(s).key = s.key
<1>1. s.hub \in Hubs /\ s.key \in Keys /\ s.slot \in Slots
  BY SavedAssumption DEF Statuses, Slots
<1>2. SessionOf(s) \in Sessions
  BY <1>1 DEF SessionOf, Sessions
<1>3. [hub |-> s.hub, key |-> s.key, code |-> Nil] \in Credentials
  BY <1>1 DEF Credentials
<1>4. SaveCredential(s).val \in Credentials
  BY <1>3 DEF SaveCredential, Store
<1>5. SaveCredential(s) \in Writes
  BY <1>1, <1>3, WritesIn DEF SaveCredential
<1>6. SaveSession(s) \in Writes
  BY <1>2, WritesIn DEF SaveSession
<1>7. Erase(s.slot, "go on") \in Writes
  BY <1>1, WritesIn
<1> QED
  BY <1>2, <1>4, <1>5, <1>6, <1>7 DEF SessionOf

LEMMA Begins ==
    ASSUME NEW d \in {"switch route", "switch hub", "remove", "rename", "forget"}, NEW t \in Seq(Writes)
    PROVE  /\ Begin(d, t) \in Commands /\ Begin(d, t) # Nil
           /\ Begin(d, t).does = d /\ Begin(d, t).todo = t
<1>1. <<>> \in Seq(Writes)
  BY EmptySeq
<1>2. Begin(d, t) \in Commands
  BY <1>1 DEF Begin, Commands
<1> QED
  BY <1>2, SavedAssumption DEF Begin

(* A command begins with the gate, and changes no data yet. *)
LEMMA BeginFrame ==
    ASSUME SavedInv, GateFree, cmd' \in Commands, cmd' # Nil, connecting = Nil \/ cmd'.does \in {"remove", "rename"},
           UNCHANGED <<marker, registry, keychain, connecting, checking, unused, minted, device, given_up, faults>>,
           client' \in {client, Nil}, forgot \subseteq forgot', forgot' \subseteq Hubs, CommandFits'
    PROVE  SavedInv' 
<1>1. load_hubs' = load_hubs
  BY HubsFrame
<1>2. SavedTypes' /\ OpensActive' /\ CheckIsCurrent'
  BY DEF GateFree, SavedInv, SavedTypes, OpensActive, CheckIsCurrent
<1>3. SlotsAreOwn' /\ SavedHubsHaveKeys'
  BY <1>1 DEF SavedInv, SlotsAreOwn, SavedHubsHaveKeys, validate_credential
<1>4. KeysAreBoundOnce' /\ LostAnswerIsRetried'
  BY KeysFrame DEF SavedInv
<1> QED
  BY <1>2, <1>3, <1>4 DEF SavedInv

LEMMA GateIdle ==
    ASSUME SavedInv, GateFree
    PROVE  ActiveOrNil /\ SavedTypes
BY DEF SavedInv, GateFree, CommandFits

LEMMA RenameKeeps ==
    ASSUME SavedInv, secure_rename_hub
    PROVE  SavedInv'
<1> DEFINE t == <<Write("registry", load_hubs, "stop")>>
<1>1. load_hubs \in SUBSET Statuses
  BY HubsAreStatuses DEF SavedInv
<1>2. t \in Seq(Writes)
  <2>1. Write("registry", load_hubs, "stop") \in Writes
    BY <1>1, WritesIn
  <2> QED
    BY <2>1, ListsIn
<1>3. cmd' \in Commands /\ cmd' # Nil /\ cmd'.does = "rename" /\ cmd'.todo = t
  BY <1>2, Begins DEF secure_rename_hub
<1>4. ActiveOrNil
  BY GateIdle DEF secure_rename_hub
<1>5. load_hubs' = load_hubs
  BY HubsFrame DEF secure_rename_hub
<1>6. Renaming'
  BY <1>3, <1>4, <1>5 DEF secure_rename_hub, Renaming, ActiveOrNil
<1>7. CommandFits'
  BY <1>3, <1>6 DEF CommandFits
<1> QED
  BY <1>3, <1>7, BeginFrame DEF secure_rename_hub, SavedInv, SavedTypes

LEMMA RemoveKeeps ==
    ASSUME SavedInv, NEW h \in Hubs, secure_remove_hub(h)
    PROVE  SavedInv'
<1>1. PICK s \in find_hub(h) :
         cmd' = Begin("remove", <<Write("registry", load_hubs \ {s}, "stop")>>
                                \o (IF marker = Nil THEN <<Write("marker", Nil, "stop")>> ELSE <<>>)
                                \o <<Drop(s.slot, "stop")>>)
  BY DEF secure_remove_hub
<1>2. s \in load_hubs /\ s.hub = h /\ s \in Statuses /\ s.slot \in Slots
  BY HubsAreStatuses DEF find_hub, SavedInv
<1> DEFINE a == Write("registry", load_hubs \ {s}, "stop")
           b == Write("marker", Nil, "stop")
           c == Drop(s.slot, "stop")
<1>3. a \in Writes /\ b \in Writes /\ c \in Writes
  BY <1>2, WritesIn, HubsAreStatuses DEF SavedInv
<1> DEFINE t == IF marker = Nil THEN <<a, b, c>> ELSE <<a, c>>
<1>4. t \in Seq(Writes)
  BY <1>3, ListsIn
<1>5. cmd' = Begin("remove", t)
  <2>1. CASE marker = Nil
    <3>1. <<a>> \o <<b>> \o <<c>> = <<a, b, c>>
      BY <1>3, Joined
    <3> QED
      BY <3>1, <2>1, <1>1
  <2>2. CASE marker # Nil
    <3>1. <<a>> \o <<>> \o <<c>> = <<a, c>>
      BY <1>3, Joined
    <3> QED
      BY <3>1, <2>2, <1>1
  <2> QED
    BY <2>1, <2>2
<1>6. cmd' \in Commands /\ cmd' # Nil /\ cmd'.does = "remove" /\ cmd'.todo = t
  BY <1>4, <1>5, Begins
<1>7. ActiveOrNil
  BY GateIdle DEF secure_remove_hub
<1>8. load_hubs' = load_hubs
  BY HubsFrame DEF secure_remove_hub
<1>9. Removing'
  <2>1. cmd'.does = "remove" /\ ActiveOrNil' /\ s \in load_hubs' /\ (marker' # Nil => marker'.hub # s.hub)
    BY <1>2, <1>6, <1>7, <1>8 DEF secure_remove_hub, ActiveOrNil
  <2>2. marker' = Nil => cmd'.todo = <<a, b, c>>
    BY <1>6 DEF secure_remove_hub
  <2>3. marker' # Nil => cmd'.todo = <<a, c>>
    BY <1>6 DEF secure_remove_hub
  <2> QED
    BY <2>1, <2>2, <2>3, <1>8 DEF Removing
<1>10. CommandFits'
  BY <1>6, <1>9 DEF CommandFits
<1> QED
  BY <1>6, <1>10, BeginFrame DEF secure_remove_hub, SavedInv, SavedTypes

LEMMA SwitchRouteKeeps ==
    ASSUME SavedInv, NEW url \in Urls, secure_switch_route(url)
    PROVE  SavedInv'
<1> DEFINE a == Write("marker", [marker EXCEPT !.url = url], "stop")
           b == Write("client", SessionOf(marker), "go on")
           t == <<a, b>>
<1>1. marker \in Statuses /\ marker # Nil
  BY DEF secure_switch_route, SavedInv, SavedTypes
<1>2. [marker EXCEPT !.url = url] \in Statuses /\ SessionOf(marker) \in Sessions
  BY <1>1, SessionsIn DEF Statuses
<1>3. t \in Seq(Writes)
  <2>1. a \in Writes /\ b \in Writes
    BY <1>2, WritesIn
  <2> QED
    BY <2>1, ListsIn
<1>4. cmd' = Begin("switch route", t)
  BY DEF secure_switch_route, SessionOf
<1>5. cmd' \in Commands /\ cmd' # Nil /\ cmd'.does = "switch route" /\ cmd'.todo = t
  BY <1>3, <1>4, Begins
<1>6. ActiveOrNil /\ validate_credential(marker)
  BY GateIdle DEF secure_switch_route, resume_at
<1>7. UNCHANGED <<marker, registry, keychain, client, connecting, checking, unused, minted, device, forgot,
                  given_up, faults>> /\ connecting = Nil
  BY DEF secure_switch_route, SessionFree
<1>8. SwitchingRoute'
  BY <1>1, <1>5, <1>6, <1>7 DEF SwitchingRoute, ActiveOrNil, validate_credential
<1>9. CommandFits'
  BY <1>5, <1>8 DEF CommandFits
<1> QED
  BY <1>5, <1>7, <1>9, BeginFrame DEF secure_switch_route, SavedInv, SavedTypes

LEMMA SwitchHubKeeps ==
    ASSUME SavedInv, NEW h \in Hubs, NEW url \in Urls, secure_switch_hub(h, url)
    PROVE  SavedInv'
<1>1. PICK s \in find_hub(h) :
         /\ resume_at(s)
         /\ cmd' = Begin("switch hub", <<Write("registry", load_hubs, "stop"),
                              Write("marker", [s EXCEPT !.url = url], "stop"),
                              Write("client", [hub |-> h, key |-> s.key], "go on"),
                              Write("registry", (load_hubs \ {s}) \cup {[s EXCEPT !.url = url]}, "go on")>>)
  BY DEF secure_switch_hub
<1>2. s \in load_hubs /\ s.hub = h /\ s \in Statuses
  BY HubsAreStatuses DEF find_hub, SavedInv
<1> DEFINE new == [s EXCEPT !.url = url]
           a == Write("registry", load_hubs, "stop")
           b == Write("marker", new, "stop")
           c == Write("client", SessionOf(s), "go on")
           d == Write("registry", (load_hubs \ {s}) \cup {new}, "go on")
           t == <<a, b, c, d>>
<1>3. new \in Statuses /\ SessionOf(s) \in Sessions
  BY <1>2, SessionsIn DEF Statuses
<1>4. load_hubs \in SUBSET Statuses
  BY HubsAreStatuses DEF SavedInv
<1>5. a \in Writes /\ b \in Writes /\ c \in Writes /\ d \in Writes
  BY <1>3, <1>4, WritesIn
<1>6. t \in Seq(Writes)
  BY <1>5, ListsIn
<1>7. cmd' = Begin("switch hub", t)
  BY <1>1, <1>2 DEF SessionOf
<1>8. cmd' \in Commands /\ cmd' # Nil /\ cmd'.does = "switch hub" /\ cmd'.todo = t
  BY <1>6, <1>7, Begins
<1>9. ActiveOrNil /\ validate_credential(s)
  BY <1>1, GateIdle DEF secure_switch_hub, resume_at
<1>10. UNCHANGED <<marker, registry, keychain, client, connecting, checking, unused, minted, device, forgot,
                  given_up, faults>> /\ connecting = Nil
  BY DEF secure_switch_hub, SessionFree
<1>11. load_hubs' = load_hubs
  BY <1>10, HubsFrame
<1>12. SwitchingHub'
  <2>1. ActiveOrNil' /\ validate_credential(s)' /\ s \in load_hubs'
    BY <1>2, <1>9, <1>10, <1>11 DEF ActiveOrNil, validate_credential
  <2>2. cmd'.todo = <<Write("registry", load_hubs', "stop"), Write("marker", [s EXCEPT !.url = url], "stop"),
                      Write("client", SessionOf(s), "go on"),
                      Write("registry", (load_hubs' \ {s}) \cup {[s EXCEPT !.url = url]}, "go on")>>
    BY <1>8, <1>11
  <2> QED
    BY <2>1, <2>2, <1>8 DEF SwitchingHub
<1>13. CommandFits'
  BY <1>8, <1>12 DEF CommandFits
<1> QED
  BY <1>8, <1>10, <1>13, BeginFrame DEF secure_switch_hub, SavedInv, SavedTypes

LEMMA ForgetKeeps ==
    ASSUME SavedInv, forget_saved_connection
    PROVE  SavedInv'
<1> DEFINE active == IF marker = Nil THEN {} ELSE {marker}
           slot == IF marker = Nil THEN Nil ELSE marker.slot
           a == Drop(slot, "stop")
           b == Drop(candidate, "stop")
           c == Write("registry", load_hubs \ active, "stop")
           d == Write("marker", Nil, "stop")
           t == <<a, b, c, d>>
<1>1. cmd' = Begin("forget", t)
  BY DEF forget_saved_connection
<1>2. slot \in Slots \cup {Nil} /\ candidate \in Slots
  BY SavedAssumption, HubsAreStatuses DEF SavedInv, SavedTypes, Slots, candidate
<1>3. load_hubs \ active \in SUBSET Statuses
  BY HubsAreStatuses DEF SavedInv
<1>4. a \in Writes /\ b \in Writes /\ c \in Writes /\ d \in Writes
  BY <1>2, <1>3, WritesIn
<1>5. t \in Seq(Writes)
  BY <1>4, ListsIn
<1>6. cmd' \in Commands /\ cmd' # Nil /\ cmd'.does = "forget" /\ cmd'.todo = t
  BY <1>1, <1>5, Begins
<1>7. UNCHANGED <<marker, registry, keychain, connecting, checking, unused, minted, device, given_up, faults>>
      /\ connecting = Nil /\ client' = Nil
  BY DEF forget_saved_connection, SessionFree
<1>8. forgot' = forgot \cup {s.hub : s \in active}
  BY DEF forget_saved_connection
<1>9. forgot' \subseteq Hubs /\ (marker # Nil => marker.hub \in forgot')
  BY <1>8, HubsAreStatuses DEF SavedInv, SavedTypes
<1>10. load_hubs' = load_hubs
  BY <1>7, HubsFrame
<1>11. Forgetting'
  BY <1>6, <1>7, <1>9, <1>10 DEF Forgetting
<1>12. CommandFits'
  BY <1>6, <1>11 DEF CommandFits
<1> QED
  BY <1>6, <1>7, <1>8, <1>9, <1>12, BeginFrame DEF forget_saved_connection

-----------------------------------------------------------------------------
(* Pairing *)

(* The key for a code is the candidate's, if it is kept for that code, or  *)
(* a key that was never sent.                                              *)
LEMMA PairKeeps ==
    ASSUME SavedInv, NEW c \in PairCodes, secure_pair(c)
    PROVE  SavedInv'
<1> DEFINE old == keychain[candidate]
           same == old # Nil /\ old.code = c
<1>1. PICK k \in CandidateFor(c) :
         /\ ApplyCandidate(k, c) /\ unused' = [unused EXCEPT !.keys = @ \ {k}]
         /\ cmd' = [does |-> "pair", at |-> "sent", key |-> k, code |-> c]
  BY DEF secure_pair
<1> DEFINE new == [hub |-> minted[c].hub, key |-> k, code |-> c]
<1>2. candidate \in Slots /\ old \in Credentials \cup {Nil}
  BY SavedAssumption DEF SavedInv, SavedTypes, Slots, candidate
<1>3. IF same THEN k = old.key ELSE k \in unused.keys
  BY <1>1 DEF CandidateFor
<1>4. k \in Keys
  BY <1>2, <1>3 DEF SavedInv, SavedTypes, Credentials
<1>5. minted[c].hub \in Hubs
  BY DEF SavedInv, SavedTypes
<1>6. new \in Credentials /\ new # Nil
  BY <1>4, <1>5, SavedAssumption DEF Credentials
<1>7. /\ keychain' = [keychain EXCEPT ![candidate] = new]
      /\ given_up' = IF old # Nil /\ old.code # c THEN given_up \cup {old.code} ELSE given_up
  BY <1>1 DEF ApplyCandidate
<1>8. cmd' \in Commands /\ cmd' # Nil
  <2>1. cmd' \in [does : {"pair"}, at : {"sent", "acked"}, key : Keys, code : PairCodes]
    BY <1>1, <1>4
  <2>2. cmd' \in Commands
    BY <2>1 DEF Commands
  <2> QED
    BY <2>2, SavedAssumption
<1>9. UNCHANGED <<marker, registry, client, connecting, checking, minted, device, forgot, faults>>
      /\ cmd = Nil /\ checking = Nil /\ connecting = Nil
  BY DEF secure_pair, GateFree, SessionFree
<1>10. ActiveOrNil
  BY <1>9 DEF SavedInv, CommandFits
<1>11. load_hubs' = load_hubs
  BY <1>9, HubsFrame
<1>12. /\ keychain'[candidate] = new
       /\ \A i \in Slots : i # candidate => keychain'[i] = keychain[i]
  BY <1>2, <1>7 DEF SavedInv, SavedTypes
<1>13. old # Nil => old.code \in PairCodes
  BY DEF SavedInv, KeysAreBoundOnce
<1>14. unused' \in [keys : SUBSET Keys, slot : 1 .. MaxSlot + 1] /\ unused'.slot = unused.slot
       /\ unused'.keys = unused.keys \ {k}
  BY <1>1 DEF SavedInv, SavedTypes
<1>15. SavedTypes'
  <2>1. keychain' \in [Slots -> Credentials \cup {Nil}]
    BY <1>2, <1>6, <1>7 DEF SavedInv, SavedTypes
  <2>2. given_up' \subseteq PairCodes
    BY <1>7, <1>13 DEF SavedInv, SavedTypes
  <2> QED
    BY <2>1, <2>2, <1>8, <1>9, <1>14 DEF SavedInv, SavedTypes
<1>16. SlotsAreOwn'
  <2>1. \A i \in Slots : i >= unused.slot => i # candidate
    BY DEF SavedInv, SavedTypes, Slots, candidate
  <2> QED
    BY <2>1, <1>11, <1>12, <1>14 DEF SavedInv, SlotsAreOwn
<1>17. SavedHubsHaveKeys'
  <2>1. \A s \in load_hubs : keychain'[s.slot] = keychain[s.slot]
    BY <1>12, HubsAreStatuses DEF SavedInv
  <2> QED
    BY <2>1, <1>9, <1>11 DEF SavedInv, SavedHubsHaveKeys, validate_credential
<1>18. \A d \in PairCodes : minted[d].bound = k => d = c
  <2>1. CASE same
    BY <2>1, <1>3, <1>13 DEF SavedInv, KeysAreBoundOnce
  <2>2. CASE ~same
    BY <2>2, <1>3, <1>4 DEF SavedInv, KeysAreBoundOnce
  <2> QED
    BY <2>1, <2>2
<1>19. KeysAreBoundOnce'
  <2>1. \A d \in PairCodes : minted'[d].bound \in Keys =>
           minted'[d].bound \notin unused'.keys /\ device'[minted'[d].bound] # Nil
    BY <1>9, <1>14 DEF SavedInv, KeysAreBoundOnce
  <2>2. \A d, e \in PairCodes : minted'[d].bound \in Keys /\ minted'[d].bound = minted'[e].bound => d = e
    BY <1>9 DEF SavedInv, KeysAreBoundOnce
  <2>3. keychain'[candidate].key = k /\ keychain'[candidate].code = c
    BY <1>12
  <2> QED
    BY <2>1, <2>2, <2>3, <1>9, <1>14, <1>18 DEF KeysAreBoundOnce
<1>20. LostAnswerIsRetried'
  <2>1. ASSUME NEW d \in PairCodes, d \notin given_up', minted'[d].bound \in Keys
        PROVE  \E s \in Slots : keychain'[s] # Nil /\ keychain'[s].key = minted'[d].bound
    <3>1. d \notin given_up /\ minted[d].bound \in Keys /\ (old # Nil /\ old.code # c => d # old.code)
      BY <2>1, <1>7, <1>9
    <3>2. PICK s \in Slots : keychain[s] # Nil /\ keychain[s].key = minted[d].bound
      BY <3>1 DEF SavedInv, LostAnswerIsRetried
    <3>3. CASE s # candidate
      BY <3>2, <3>3, <1>9, <1>12
    <3>4. CASE s = candidate
      <4>1. old # Nil /\ d = old.code
        BY <3>2, <3>4 DEF SavedInv, KeysAreBoundOnce
      <4>2. same /\ k = minted[d].bound
        BY <4>1, <3>1, <3>2, <3>4, <1>3
      <4>3. keychain'[candidate] # Nil /\ keychain'[candidate].key = k
        BY <1>6, <1>12
      <4> QED
        BY <4>2, <4>3, <1>2, <1>9
    <3> QED
      BY <3>3, <3>4
  <2> QED
    BY <2>1 DEF LostAnswerIsRetried
<1>21. OpensActive' /\ CheckIsCurrent'
  BY <1>9 DEF OpensActive, CheckIsCurrent
<1>22. CommandFits'
  <2>1. cmd'.does = "pair" /\ cmd'.code = c /\ cmd'.key = k
    BY <1>1
  <2>2. ActiveOrNil'
    BY <1>9, <1>10 DEF ActiveOrNil
  <2>3. Pairing'
    BY <2>1, <2>2, <1>9, <1>12 DEF Pairing, candidate
  <2> QED
    BY <2>3, <1>8 DEF CommandFits
<1> QED
  BY <1>15, <1>16, <1>17, <1>19, <1>20, <1>21, <1>22 DEF SavedInv

(* What a pairing knows. *)
LEMMA PairHas ==
    ASSUME SavedInv, cmd # Nil, cmd.does = "pair"
    PROVE  /\ Pairing /\ cmd.key \in Keys /\ cmd.code \in PairCodes /\ checking = Nil /\ connecting = Nil
           /\ minted[cmd.code].hub \in Hubs /\ CandidateHas(cmd.key)
<1>1. Pairing
  BY DEF SavedInv, CommandFits, Renaming, Removing, SwitchingRoute, SwitchingHub, Forgetting, Saving
<1>2. cmd.key \in Keys /\ cmd.code \in PairCodes
  BY DEF SavedInv, SavedTypes, Commands
<1>3. minted[cmd.code].hub \in Hubs
  BY <1>2 DEF SavedInv, SavedTypes
<1>4. keychain[candidate] \in Credentials
  BY <1>1, <1>2, <1>3 DEF Pairing, Credentials
<1>5. keychain[candidate] # Nil /\ keychain[candidate].key = cmd.key
  BY <1>1, <1>4, SavedAssumption DEF Pairing
<1>6. checking = Nil /\ connecting = Nil
  BY DEF SavedInv, CheckIsCurrent, OpensActive
<1> QED
  BY <1>1, <1>2, <1>3, <1>5, <1>6 DEF CandidateHas

LEMMA PairFailsKeeps ==
    ASSUME SavedInv, PairFails
    PROVE  SavedInv'
<1>1. UNCHANGED <<marker, registry, keychain, client, connecting, checking, unused, minted, device, forgot,
                   given_up, faults>> /\ cmd' = Nil
  BY DEF PairFails
<1>2. ActiveOrNil /\ checking = Nil /\ connecting = Nil
  BY PairHas DEF PairFails, Pairing
<1>3. SlotsAreOwn' /\ SavedHubsHaveKeys'
  BY <1>1, DataFrame
<1>4. KeysAreBoundOnce' /\ LostAnswerIsRetried'
  BY KeysFrame, <1>1 DEF SavedInv
<1>5. SavedTypes' /\ OpensActive' /\ CheckIsCurrent' /\ CommandFits'
  BY <1>1, <1>2 DEF SavedInv, SavedTypes, OpensActive, CheckIsCurrent, CommandFits, ActiveOrNil
<1> QED
  BY <1>3, <1>4, <1>5 DEF SavedInv

LEMMA AcknowledgedKeeps ==
    ASSUME SavedInv, PairAcknowledged
    PROVE  SavedInv'
<1>1. PICK url \in Urls, routes \in SUBSET Urls :
         LET s == [hub |-> minted[cmd.code].hub, key |-> cmd.key, slot |-> unused.slot,
                   url |-> url, routes |-> normalize(routes, url)]
             old == find_hub(s.hub)
         IN cmd' = [does |-> "saving",
                    undo |-> <<Erase(s.slot, "go on")>>,
                    todo |-> <<Write("registry", load_hubs, "undo"),
                               Store(s.slot, [hub |-> s.hub, key |-> s.key, code |-> Nil], "undo"),
                               Write("marker", s, "undo"),
                               Write("registry", {h \in load_hubs : h.hub # s.hub} \cup {s}, "skip"),
                               Drop(IF old = {} THEN Nil ELSE (CHOOSE o \in old : TRUE).slot, "go on"),
                               Write("client", [hub |-> s.hub, key |-> s.key], "go on"),
                               Erase(candidate, "go on")>>]
  BY DEF PairAcknowledged
<1> DEFINE new == [hub |-> minted[cmd.code].hub, key |-> cmd.key, slot |-> unused.slot,
                   url |-> url, routes |-> normalize(routes, url)]
           others == find_hub(new.hub)
           his == IF others = {} THEN Nil ELSE (CHOOSE o \in others : TRUE).slot
<1>2. cmd # Nil /\ cmd.does = "pair" /\ unused.slot \in 1 .. MaxSlot
  <2>1. cmd # Nil /\ cmd.does = "pair" /\ unused.slot <= MaxSlot
    BY DEF PairAcknowledged
  <2> QED
    BY <2>1, SavedAssumption DEF SavedInv, SavedTypes
<1>3. Pairing /\ cmd.key \in Keys /\ minted[cmd.code].hub \in Hubs /\ CandidateHas(cmd.key) /\ checking = Nil /\ connecting = Nil
  BY <1>2, PairHas
<1>4. PICK s \in Statuses : s = new
  BY <1>2, <1>3 DEF Statuses, normalize
<1>5. his = Nil \/ \E o \in load_hubs : o.hub = s.hub /\ his = o.slot
  <2>1. CASE others = {}
    BY <2>1
  <2>2. CASE others # {}
    <3>1. (CHOOSE o \in others : TRUE) \in others
      BY <2>2
    <3> QED
      BY <3>1, <2>2, <1>4 DEF find_hub
  <2> QED
    BY <2>1, <2>2
<1>6. \A o \in load_hubs : o.slot \in Slots /\ o.slot # candidate /\ o.slot # Nil /\ o.slot < unused.slot /\ o.slot \in Nat
  <2>1. \A o \in load_hubs : o.slot \in 1 .. MaxSlot /\ o.slot < unused.slot
    BY HubsAreStatuses DEF SavedInv, SlotsAreOwn
  <2> QED
    BY <2>1, SavedAssumption DEF Slots, candidate
<1>7. PICK old \in Slots \cup {Nil} :
         old = his /\ (old = Nil \/ \E o \in load_hubs : o.hub = s.hub /\ old = o.slot)
  BY <1>5, <1>6
<1> DEFINE a == Write("registry", load_hubs, "undo")
           b == SaveCredential(s)
           c == Write("marker", s, "undo")
           d == Write("registry", With(s), "skip")
           e == Drop(old, "go on")
           f == SaveSession(s)
           g == EraseCandidate
           t == <<a, b, c, d, e, f, g>>
           u == <<Erase(s.slot, "go on")>>
<1>8. cmd' = [does |-> "saving", undo |-> u, todo |-> t]
  BY <1>1, <1>4, <1>7 DEF SaveCredential, With, SaveSession, SessionOf, EraseCandidate
<1>9. s.slot = unused.slot /\ s.key = cmd.key
  BY <1>4
<1>10. load_hubs \in SUBSET Statuses /\ With(s) \in SUBSET Statuses
  BY <1>4, HubsAreStatuses DEF With, SavedInv
<1>11. old \in Slots \cup {Nil} /\ old # candidate /\ old # s.slot
  BY <1>2, <1>9, <1>7, <1>6, SavedAssumption DEF candidate
<1>12. FreeSlot(s.slot)
  BY <1>2, <1>9, <1>6 DEF FreeSlot
<1>13. \A o \in load_hubs : o.slot = old => o.hub = s.hub
  BY <1>7, <1>6 DEF SavedInv, SlotsAreOwn
<1>14. keychain[s.slot] = Nil
  BY <1>2, <1>9 DEF SavedInv, SlotsAreOwn, Slots
<1>15. cmd' \in Commands /\ cmd' # Nil /\ cmd'.does = "saving" /\ cmd'.todo = t /\ cmd'.undo = u
  <2>1. a \in Writes /\ c \in Writes /\ d \in Writes /\ e \in Writes
    BY <1>4, <1>10, <1>11, WritesIn
  <2>2. candidate \in Slots
    BY SavedAssumption DEF Slots, candidate
  <2>3. g \in Writes
    BY <2>2, WritesIn DEF EraseCandidate
  <2>4. b \in Writes /\ f \in Writes /\ Erase(s.slot, "go on") \in Writes
    BY <1>4, SessionsIn
  <2>5. t \in Seq(Writes) /\ u \in Seq(Writes)
    BY <2>1, <2>3, <2>4, ListsIn
  <2>6. cmd' \in Commands
    BY <2>5, <1>8 DEF Commands
  <2> QED
    BY <2>6, <1>8, SavedAssumption
<1>16. UNCHANGED <<marker, registry, keychain, client, connecting, checking, minted, device, forgot, given_up, faults>>
       /\ unused' = [unused EXCEPT !.slot = @ + 1]
  BY DEF PairAcknowledged
<1>17. unused'.slot = unused.slot + 1 /\ unused'.keys = unused.keys
       /\ unused' \in [keys : SUBSET Keys, slot : 1 .. MaxSlot + 1]
  BY <1>2, <1>16, SavedAssumption DEF SavedInv, SavedTypes
<1>18. load_hubs' = load_hubs
  BY <1>16, HubsFrame
<1>19. SavedTypes' /\ OpensActive' /\ CheckIsCurrent'
  BY <1>3, <1>15, <1>16, <1>17 DEF SavedInv, SavedTypes, OpensActive, CheckIsCurrent
<1>20. SlotsAreOwn'
  BY <1>2, <1>6, <1>16, <1>17, <1>18 DEF SavedInv, SlotsAreOwn, Slots
<1>21. SavedHubsHaveKeys' /\ LostAnswerIsRetried' /\ KeysAreBoundOnce'
  BY <1>16, <1>17, <1>18 DEF SavedInv, SavedHubsHaveKeys, validate_credential, LostAnswerIsRetried, KeysAreBoundOnce
<1>22. CommandFits'
  <2>1. ActiveOrNil' /\ CandidateHas(s.key)' /\ FreeSlot(s.slot)' /\ With(s)' = With(s)
    BY <1>3, <1>9, <1>12, <1>16, <1>18 DEF Pairing, ActiveOrNil, CandidateHas, FreeSlot, With
  <2>2. s.slot < unused'.slot
    BY <1>2, <1>9, <1>17
  <2>3. SavingStatus(s, old)'
    BY <2>1, <2>2, <1>11, <1>13, <1>14, <1>15, <1>16, <1>18 DEF SavingStatus
  <2>4. Saving'
    BY <2>3, <1>4, <1>11, <1>15 DEF Saving
  <2> QED
    BY <2>4, <1>15 DEF CommandFits
<1> QED
  BY <1>19, <1>20, <1>21, <1>22 DEF SavedInv

-----------------------------------------------------------------------------
(* Writes *)

LEMMA WritingHas ==
    ASSUME SavedInv, Writing
    PROVE  /\ cmd \in Commands /\ cmd # Nil /\ cmd.does # "pair" /\ checking = Nil
           /\ Renaming \/ Removing \/ SwitchingRoute \/ SwitchingHub \/ Forgetting \/ Saving
BY DEF Writing, SavedInv, SavedTypes, CheckIsCurrent, CommandFits, Pairing

(* A write that fails only changes what is still to be written. *)
LEMMA FailureFrame ==
    ASSUME SavedInv, WriteFails, NEW t \in Seq(Writes), cmd' = Continue(t), CommandFits'
    PROVE  SavedInv'
<1>1. Writing
  BY DEF WriteFails
<1>2. cmd \in Commands /\ cmd # Nil /\ cmd.does # "pair" /\ checking = Nil
  BY <1>1, WritingHas
<1>3. UNCHANGED <<marker, registry, keychain, client, connecting, checking, unused, minted, device, forgot, given_up>>
      /\ faults' \in 0 .. MaxFaults
  <2>1. faults < MaxFaults /\ faults' = faults + 1
    BY DEF WriteFails
  <2>2. faults' \in 0 .. MaxFaults
    BY <2>1, SavedAssumption DEF SavedInv, SavedTypes
  <2> QED
    BY <2>2 DEF WriteFails
<1>4. cmd' \in Commands \cup {Nil} /\ (cmd' # Nil => cmd'.does = cmd.does)
  BY <1>2, Continues
<1>5. SlotsAreOwn' /\ SavedHubsHaveKeys'
  BY <1>3, DataFrame
<1>6. KeysAreBoundOnce' /\ LostAnswerIsRetried'
  BY KeysFrame, <1>3 DEF SavedInv
<1>7. SavedTypes' /\ OpensActive' /\ CheckIsCurrent'
  BY <1>2, <1>3, <1>4 DEF SavedInv, SavedTypes, OpensActive, CheckIsCurrent
<1> QED
  BY <1>5, <1>6, <1>7 DEF SavedInv

(* A failure that ends the command leaves the session with the active hub. *)
LEMMA FailureEnds ==
    ASSUME SavedInv, WriteFails, cmd' = Continue(<<>>), ActiveOrNil
    PROVE  SavedInv'
<1>1. cmd \in Commands /\ cmd.does # "pair" /\ <<>> \in Seq(Writes)
  BY WritingHas, EmptySeq DEF WriteFails
<1>2. cmd' = Nil
  BY <1>1, Continues
<1>3. ActiveOrNil'
  BY DEF WriteFails, ActiveOrNil
<1>4. CommandFits'
  BY <1>2, <1>3 DEF CommandFits
<1> QED
  BY <1>1, <1>4, FailureFrame

(* How a command goes on when its first write fails. *)
LEMMA FailureGoesOn ==
    ASSUME WriteFails
    PROVE  /\ Head(cmd.todo).on # "client"
           /\ Head(cmd.todo).fails = "stop" => cmd' = Continue(<<>>)
           /\ Head(cmd.todo).fails = "undo" => cmd' = Continue(cmd.undo)
           /\ Head(cmd.todo).fails = "go on" => cmd' = Continue(Tail(cmd.todo))
           /\ Head(cmd.todo).fails = "skip" => cmd' = Continue(Tail(Tail(cmd.todo)))
BY DEF WriteFails

LEMMA WriteStops ==
    ASSUME WriteFails, NEW on, NEW v, Head(cmd.todo) = Write(on, v, "stop")
    PROVE  cmd' = Continue(<<>>)
<1>1. Write(on, v, "stop").fails = "stop"
  BY DEF Write
<1> QED
  BY <1>1, FailureGoesOn

LEMMA DropStops ==
    ASSUME WriteFails, NEW i, Head(cmd.todo) = Drop(i, "stop")
    PROVE  cmd' = Continue(<<>>)
<1>1. Drop(i, "stop").fails = "stop"
  BY DEF Drop
<1> QED
  BY <1>1, FailureGoesOn

LEMMA WriteUndoes ==
    ASSUME WriteFails, NEW on, NEW v, Head(cmd.todo) = Write(on, v, "undo")
    PROVE  cmd' = Continue(cmd.undo)
<1>1. Write(on, v, "undo").fails = "undo"
  BY DEF Write
<1> QED
  BY <1>1, FailureGoesOn

LEMMA CredentialUndoes ==
    ASSUME WriteFails, NEW s, Head(cmd.todo) = SaveCredential(s)
    PROVE  cmd' = Continue(cmd.undo)
<1>1. SaveCredential(s).fails = "undo"
  BY DEF SaveCredential, Store
<1> QED
  BY <1>1, FailureGoesOn

LEMMA WriteGoesOn ==
    ASSUME WriteFails, NEW on, NEW v, Head(cmd.todo) = Write(on, v, "go on")
    PROVE  cmd' = Continue(Tail(cmd.todo))
<1>1. Write(on, v, "go on").fails = "go on"
  BY DEF Write
<1> QED
  BY <1>1, FailureGoesOn

LEMMA DropGoesOn ==
    ASSUME WriteFails, NEW i, Head(cmd.todo) = Drop(i, "go on")
    PROVE  cmd' = Continue(Tail(cmd.todo))
<1>1. Drop(i, "go on").fails = "go on"
  BY DEF Drop
<1> QED
  BY <1>1, FailureGoesOn

LEMMA EraseGoesOn ==
    ASSUME WriteFails, NEW i, Head(cmd.todo) = Erase(i, "go on")
    PROVE  cmd' = Continue(Tail(cmd.todo))
<1>1. Erase(i, "go on").fails = "go on"
  BY DEF Erase, Store
<1> QED
  BY <1>1, FailureGoesOn

LEMMA WriteSkips ==
    ASSUME WriteFails, NEW on, NEW v, Head(cmd.todo) = Write(on, v, "skip")
    PROVE  cmd' = Continue(Tail(Tail(cmd.todo)))
<1>1. Write(on, v, "skip").fails = "skip"
  BY DEF Write
<1> QED
  BY <1>1, FailureGoesOn

LEMMA SessionIsNoFile ==
    ASSUME WriteFails, NEW v, NEW f
    PROVE  Head(cmd.todo) # Write("client", v, f)
<1>1. Write("client", v, f).on = "client"
  BY DEF Write
<1> QED
  BY <1>1, FailureGoesOn

LEMMA RenameFails ==
    ASSUME SavedInv, WriteFails, Renaming
    PROVE  SavedInv'
<1>1. Head(cmd.todo) = Write("registry", load_hubs, "stop")
  BY List1 DEF Renaming
<1>2. cmd' = Continue(<<>>)
  BY <1>1, WriteStops
<1> QED
  BY <1>2, FailureEnds DEF Renaming

LEMMA RemoveFails ==
    ASSUME SavedInv, WriteFails, Removing
    PROVE  SavedInv'
<1>1. ASSUME NEW s, cmd.todo = <<Write("registry", load_hubs \ {s}, "stop"), Write("marker", Nil, "stop"),
                                 Drop(s.slot, "stop")>>
      PROVE  cmd' = Continue(<<>>)
  BY <1>1, List3, WriteStops
<1>2. ASSUME NEW s, cmd.todo = <<Write("registry", load_hubs \ {s}, "stop"), Drop(s.slot, "stop")>>
      PROVE  cmd' = Continue(<<>>)
  BY <1>2, List2, WriteStops
<1>3. ASSUME NEW i, cmd.todo = <<Write("marker", Nil, "stop"), Drop(i, "stop")>>
      PROVE  cmd' = Continue(<<>>)
  BY <1>3, List2, WriteStops
<1>4. ASSUME NEW i, cmd.todo = <<Drop(i, "stop")>>
      PROVE  cmd' = Continue(<<>>)
  BY <1>4, List1, DropStops
<1>5. cmd' = Continue(<<>>) /\ ActiveOrNil
  BY <1>1, <1>2, <1>3, <1>4 DEF Removing
<1> QED
  BY <1>5, FailureEnds

LEMMA SwitchRouteFails ==
    ASSUME SavedInv, WriteFails, SwitchingRoute
    PROVE  SavedInv'
<1>1. cmd.todo # <<Write("client", SessionOf(marker), "go on")>>
  BY List1, SessionIsNoFile
<1>2. ASSUME NEW v, cmd.todo = <<Write("marker", v, "stop"), Write("client", SessionOf(marker), "go on")>>
      PROVE  cmd' = Continue(<<>>)
  <2>1. Head(cmd.todo) = Write("marker", v, "stop")
    BY <1>2, List2
  <2> QED
    BY <2>1, WriteStops
<1>3. cmd' = Continue(<<>>) /\ ActiveOrNil
  BY <1>1, <1>2 DEF SwitchingRoute
<1> QED
  BY <1>3, FailureEnds

LEMMA SwitchHubFails ==
    ASSUME SavedInv, WriteFails, SwitchingHub
    PROVE  SavedInv'
<1>1. ASSUME NEW a, NEW b, NEW c, cmd.todo = <<Write("registry", load_hubs, "stop"), a, b, c>>
      PROVE  cmd' = Continue(<<>>)
  BY <1>1, List4, WriteStops
<1>2. ASSUME NEW a, NEW b, NEW c, cmd.todo = <<Write("marker", a, "stop"), b, c>>
      PROVE  cmd' = Continue(<<>>)
  BY <1>2, List3, WriteStops
<1>3. cmd.todo # <<Write("client", SessionOf(marker), "go on"), Write("registry", load_hubs, "go on")>>
  <2>1. Head(<<Write("client", SessionOf(marker), "go on"), Write("registry", load_hubs, "go on")>>)
        = Write("client", SessionOf(marker), "go on")
    BY List2
  <2> QED
    BY <2>1, SessionIsNoFile
<1>4. ASSUME cmd.todo = <<Write("registry", load_hubs, "go on")>>
      PROVE  cmd' = Continue(<<>>)
  BY <1>4, List1, WriteGoesOn
<1>5. CASE \E s \in load_hubs, url \in Urls :
            LET new == [s EXCEPT !.url = url]
                last == <<Write("marker", new, "stop"), Write("client", SessionOf(s), "go on"),
                          Write("registry", (load_hubs \ {s}) \cup {new}, "go on")>>
            IN /\ ActiveOrNil
               /\ \/ cmd.todo = <<Write("registry", load_hubs, "stop"), last[1], last[2], last[3]>>
                  \/ cmd.todo = last
  <2>1. cmd' = Continue(<<>>) /\ ActiveOrNil
    BY <1>1, <1>2, <1>5
  <2> QED
    BY <2>1, FailureEnds
<1>6. CASE ActiveOrNil /\ cmd.todo = <<Write("registry", load_hubs, "go on")>>
  BY <1>4, <1>6, FailureEnds
<1> QED
  BY <1>3, <1>5, <1>6 DEF SwitchingHub

LEMMA ForgetFails ==
    ASSUME SavedInv, WriteFails, Forgetting
    PROVE  SavedInv'
<1>1. ASSUME NEW i, NEW a, NEW b, NEW c, cmd.todo = <<Drop(i, "stop"), a, b, c>>
      PROVE  cmd' = Continue(<<>>)
  BY <1>1, List4, DropStops
<1>2. ASSUME NEW i, NEW a, NEW b, cmd.todo = <<Drop(i, "stop"), a, b>>
      PROVE  cmd' = Continue(<<>>)
  BY <1>2, List3, DropStops
<1>3. ASSUME NEW v, NEW a, cmd.todo = <<Write("registry", v, "stop"), a>>
      PROVE  cmd' = Continue(<<>>)
  BY <1>3, List2, WriteStops
<1>4. ASSUME cmd.todo = <<Write("marker", Nil, "stop")>>
      PROVE  cmd' = Continue(<<>>)
  BY <1>4, List1, WriteStops
<1>5. cmd' = Continue(<<>>)
  BY <1>1, <1>2, <1>3, <1>4 DEF Forgetting
<1>6. ActiveOrNil
  BY DEF Forgetting, ActiveOrNil
<1> QED
  BY <1>5, <1>6, FailureEnds

LEMMA SaveFails ==
    ASSUME SavedInv, WriteFails, Saving
    PROVE  SavedInv'
<1>1. cmd.does = "saving" /\ cmd \in Commands /\ cmd # Nil
  BY WritingHas DEF WriteFails, Saving
<1>2. UNCHANGED <<marker, registry, keychain, client, unused>>
  BY DEF WriteFails
<1>3. load_hubs' = load_hubs /\ (ActiveOrNil => ActiveOrNil')
      /\ \A i : FreeSlot(i)' = FreeSlot(i) /\ CandidateHas(i)' = CandidateHas(i)
  BY <1>2, HubsFrame DEF ActiveOrNil, FreeSlot, CandidateHas
<1>4. ASSUME NEW s \in Statuses, NEW old \in Slots \cup {Nil}, SavingStatus(s, old)
      PROVE  SavedInv'
  <2>1. ASSUME NEW a, NEW b, NEW c, NEW d, NEW e, NEW f,
               cmd.todo = <<Write("registry", load_hubs, "undo"), a, b, c, d, e, f>>
        PROVE  cmd' = Continue(cmd.undo)
    BY <2>1, List7, WriteUndoes
  <2>2. ASSUME NEW a, NEW b, NEW c, NEW d, NEW e, cmd.todo = <<SaveCredential(s), a, b, c, d, e>>
         PROVE  cmd' = Continue(cmd.undo)
    BY <2>2, List6, CredentialUndoes
  <2>3. ASSUME NEW a, NEW b, NEW c, NEW d, cmd.todo = <<Write("marker", s, "undo"), a, b, c, d>>
         PROVE  cmd' = Continue(cmd.undo)
    BY <2>3, List5, WriteUndoes
  <2>4. cmd' = Continue(cmd.undo) /\ cmd.undo = <<Erase(s.slot, "go on")>>
    <3> DEFINE m == Write("marker", s, "undo")
               g == Write("registry", With(s), "skip")
               o == Drop(old, "go on")
               v == SaveSession(s)
    <3>1. /\ cmd.undo = <<Erase(s.slot, "go on")>>
          /\ \/ cmd.todo = <<Write("registry", load_hubs, "undo"), SaveCredential(s),
                              m, g, o, v, EraseCandidate>>
             \/ cmd.todo = <<SaveCredential(s), m, g, o, v, EraseCandidate>>
             \/ cmd.todo = <<m, g, o, v, EraseCandidate>>
      <4>1. SavingStatus(s, old)
        BY <1>4
      <4> HIDE DEF SavedInv, WriteFails, Saving
      <4> QED BY ONLY <4>1 DEF SavingStatus
    <3>2. cmd.todo = <<Write("registry", load_hubs, "undo"), SaveCredential(s),
                       m, g, o, v, EraseCandidate>> => cmd' = Continue(cmd.undo)
      <4> HIDE DEF m, g, o, v
      <4> QED BY <2>1
    <3>3. cmd.todo = <<SaveCredential(s), m, g, o, v, EraseCandidate>>
          => cmd' = Continue(cmd.undo)
      <4> HIDE DEF m, g, o, v
      <4> QED BY <2>2
    <3>4. cmd.todo = <<m, g, o, v, EraseCandidate>> => cmd' = Continue(cmd.undo)
      <4> HIDE DEF g, o, v
      <4> QED BY <2>3
    <3> HIDE DEF m, g, o, v
    <3> QED BY <3>1, <3>2, <3>3, <3>4
  <2>5. Erase(s.slot, "go on") \in Writes /\ s.slot \in 1 .. MaxSlot
    BY SessionsIn, HubsAreStatuses DEF SavedInv
  <2>6. cmd.undo \in Seq(Writes) /\ cmd.undo # <<>>
    BY <2>4, <2>5, ListsIn, List1
  <2>7. cmd' # Nil /\ cmd'.does = "saving" /\ cmd'.todo = <<Erase(s.slot, "go on")>>
    BY <2>4, <2>6, <1>1, Continues
  <2>8. keychain[s.slot] # Nil => CandidateHas(keychain[s.slot].key)
    <3>1. keychain[s.slot] = Nil \/ keychain[s.slot] = [hub |-> s.hub, key |-> s.key, code |-> Nil]
      BY <1>4 DEF SavingStatus, SaveCredential, Store
    <3>2. CandidateHas(s.key)
      BY <1>4 DEF SavingStatus
    <3> QED
      BY <3>1, <3>2
  <2>9. Undoing(s.slot)'
    BY <2>7, <2>8, <1>2, <1>3, <1>4 DEF Undoing, SavingStatus
  <2>10. Saving'
    BY <2>5, <2>7, <2>9 DEF Saving
  <2>11. CommandFits'
    BY <2>7, <2>10 DEF CommandFits
  <2> QED
    BY <2>4, <2>6, <2>11, FailureFrame
<1>5. ASSUME NEW old \in Slots \cup {Nil}, SavedStatus(old)
      PROVE  SavedInv'
  <2> DEFINE r == Write("registry", load_hubs, "skip")
             e == Drop(old, "go on")
             f == SaveSession(marker)
  <2>1. marker \in Statuses /\ candidate \in Slots
    BY <1>5, CandidateIn DEF SavedStatus, SavedInv, SavedTypes
  <2>2. f \in Writes /\ EraseCandidate \in Writes
    BY <2>1, SessionsIn, WritesIn DEF EraseCandidate, f
  <2> HIDE DEF r, e, f
  <2>3. CASE cmd.todo = <<r, e, f, EraseCandidate>> \/ cmd.todo = <<e, f, EraseCandidate>>
    <3>1. cmd' = Continue(<<f, EraseCandidate>>)
      <4>1. CASE cmd.todo = <<r, e, f, EraseCandidate>>
        <5>1. Head(cmd.todo) = r /\ Tail(cmd.todo) = <<e, f, EraseCandidate>>
          BY <4>1, List4
        <5>2. Tail(Tail(cmd.todo)) = <<f, EraseCandidate>>
          BY <5>1, List3
        <5> QED
          BY <5>1, <5>2, WriteSkips DEF r
      <4>2. CASE cmd.todo = <<e, f, EraseCandidate>>
        <5>1. Head(cmd.todo) = e /\ Tail(cmd.todo) = <<f, EraseCandidate>>
          BY <4>2, List3
        <5> QED
          BY <5>1, DropGoesOn DEF e
      <4> QED
        BY <2>3, <4>1, <4>2
    <3>2. <<f, EraseCandidate>> \in Seq(Writes) /\ <<f, EraseCandidate>> # <<>>
      BY <2>2, ListsIn, List2
    <3>3. cmd' # Nil /\ cmd'.does = "saving" /\ cmd'.todo = <<f, EraseCandidate>>
      BY <3>1, <3>2, <1>1, Continues
    <3>4. SavedStatus(old)'
      BY <3>3, <1>2, <1>3, <1>5 DEF SavedStatus, validate_credential, f
    <3>5. Saving'
      BY <3>3, <3>4 DEF Saving
    <3>6. CommandFits'
      BY <3>3, <3>5 DEF CommandFits
    <3> QED
      BY <3>1, <3>2, <3>6, FailureFrame
  <2>4. CASE cmd.todo = <<f, EraseCandidate>>
    <3>1. Head(cmd.todo) = f
      BY <2>4, List2
    <3> QED
      BY <3>1, SessionIsNoFile DEF SaveSession, f
  <2>5. CASE ActiveOrNil /\ cmd.todo = <<EraseCandidate>>
    <3>1. cmd' = Continue(<<>>)
      BY <2>5, List1, EraseGoesOn DEF EraseCandidate
    <3> QED
      BY <3>1, <2>5, FailureEnds
  <2> QED
    BY <2>3, <2>4, <2>5, <1>5 DEF SavedStatus, r, e, f
<1>6. ASSUME NEW i \in 1 .. MaxSlot, Undoing(i)
      PROVE  SavedInv'
  <2>1. Head(cmd.todo) = Erase(i, "go on") /\ Tail(cmd.todo) = <<>>
    BY <1>6, List1 DEF Undoing
  <2>2. cmd' = Continue(<<>>)
    BY <2>1, EraseGoesOn
  <2> QED
    BY <2>2, <1>6, FailureEnds DEF Undoing
<1> QED
  BY <1>4, <1>5, <1>6 DEF Saving

LEMMA WriteFailsKeeps ==
    ASSUME SavedInv, WriteFails
    PROVE  SavedInv'
BY WritingHas, RenameFails, RemoveFails, SwitchRouteFails, SwitchHubFails, ForgetFails, SaveFails DEF WriteFails

-----------------------------------------------------------------------------
(* A write succeeds *)

(* All that holds whatever is still to be written. *)
SavedRest ==
    /\ SavedTypes /\ SlotsAreOwn /\ KeysAreBoundOnce /\ OpensActive /\ CheckIsCurrent
    /\ SavedHubsHaveKeys /\ LostAnswerIsRetried

LEMMA StepGoes ==
    ASSUME SavedInv, atomic_json, cmd.todo # <<>>, NEW rest, Tail(cmd.todo) = rest
    PROVE  /\ rest = <<>> => cmd' = Nil
           /\ rest # <<>> => cmd' # Nil /\ cmd'.does = cmd.does /\ cmd'.todo = rest /\ cmd'.undo = cmd.undo
           /\ cmd' \in Commands \cup {Nil}
<1>1. cmd \in Commands /\ cmd.does # "pair"
  BY WritingHas DEF atomic_json
<1>2. rest \in Seq(Writes)
  BY <1>1, RestOf
<1>3. cmd' = Continue(rest)
  BY DEF atomic_json
<1> QED
  BY <1>1, <1>2, <1>3, Continues

(* What a write leaves alone. *)
LEMMA StepFrame ==
    ASSUME SavedInv, atomic_json, cmd.todo # <<>>,
           marker' \in Statuses \cup {Nil}, registry' \subseteq Statuses, client' \in Sessions \cup {Nil},
           keychain' \in [Slots -> Credentials \cup {Nil}], forgot' \subseteq Hubs, given_up' \subseteq PairCodes,
           cmd.does \in {"remove", "rename"} => marker' = marker
    PROVE  SavedTypes' /\ OpensActive' /\ CheckIsCurrent'
<1>1. cmd' \in Commands \cup {Nil} /\ (cmd' # Nil => cmd'.does = cmd.does)
  BY StepGoes
<1>2. cmd # Nil /\ checking = Nil
  BY WritingHas DEF atomic_json
<1>3. UNCHANGED <<connecting, checking, unused, minted, device, faults>>
  BY DEF atomic_json
<1>4. SavedTypes'
  BY <1>1, <1>3 DEF SavedInv, SavedTypes
<1>5. OpensActive'
  <2>1. connecting # Nil => marker' = marker
    BY <1>2 DEF SavedInv, OpensActive
  <2> QED
    BY <2>1, <1>1, <1>2, <1>3 DEF SavedInv, OpensActive
<1>6. CheckIsCurrent'
  BY <1>2, <1>3 DEF CheckIsCurrent
<1> QED
  BY <1>4, <1>5, <1>6

LEMMA RegistryStep ==
    ASSUME SavedInv, atomic_json, cmd.todo # <<>>, NEW v, NEW f, Head(cmd.todo) = Write("registry", v, f),
           v \subseteq load_hubs
    PROVE  /\ SavedRest' /\ registry' = v /\ UNCHANGED <<marker, client, keychain, forgot, given_up, unused>>
           /\ load_hubs' \subseteq load_hubs
           /\ v = load_hubs => load_hubs' = load_hubs
           /\ ActiveOrNil => ActiveOrNil'
<1>1. registry' = v /\ UNCHANGED <<marker, client, keychain, forgot, given_up, unused, minted, device>>
  BY RegistryWritten DEF atomic_json
<1>2. load_hubs \subseteq Statuses
  BY HubsAreStatuses DEF SavedInv
<1>3. load_hubs' \subseteq load_hubs
  BY <1>1 DEF load_hubs
<1>4. v = load_hubs => load_hubs' = load_hubs
  BY <1>1, MergedIsSame DEF SavedInv
<1>5. SlotsAreOwn' /\ SavedHubsHaveKeys'
  BY <1>1, <1>3, FewerHubs DEF SavedInv
<1>6. KeysAreBoundOnce' /\ LostAnswerIsRetried'
  BY <1>1, KeysFrame DEF SavedInv
<1>7. SavedTypes' /\ OpensActive' /\ CheckIsCurrent'
  BY <1>1, <1>2, StepFrame DEF SavedInv, SavedTypes
<1>8. ActiveOrNil => ActiveOrNil'
  BY <1>1 DEF ActiveOrNil
<1> QED
  BY <1>1, <1>3, <1>4, <1>5, <1>6, <1>7, <1>8 DEF SavedRest

LEMMA ClientStep ==
    ASSUME SavedInv, atomic_json, cmd.todo # <<>>, marker # Nil, Head(cmd.todo) = Write("client", SessionOf(marker), "go on")
    PROVE  /\ SavedRest' /\ UNCHANGED <<marker, registry, keychain, forgot, given_up, unused>>
           /\ load_hubs' = load_hubs /\ ActiveOrNil'
<1>1. client' = SessionOf(marker) /\ UNCHANGED <<marker, registry, keychain, forgot, given_up, unused, minted, device>>
  BY ClientWritten DEF atomic_json
<1>2. SessionOf(marker) \in Sessions
  BY SessionsIn DEF SavedInv, SavedTypes
<1>3. SlotsAreOwn' /\ SavedHubsHaveKeys' /\ load_hubs' = load_hubs
  BY <1>1, DataFrame
<1>4. KeysAreBoundOnce' /\ LostAnswerIsRetried'
  BY <1>1, KeysFrame DEF SavedInv
<1>5. SavedTypes' /\ OpensActive' /\ CheckIsCurrent'
  BY <1>1, <1>2, StepFrame DEF SavedInv, SavedTypes
<1>6. ActiveOrNil'
  BY <1>1 DEF ActiveOrNil, SessionOf
<1> QED
  BY <1>1, <1>3, <1>4, <1>5, <1>6 DEF SavedRest

(* Another hub becomes the active one, or its status changes: it is saved  *)
(* already or the registry is up to date, so that no other hub is lost.    *)
LEMMA MarkerStep ==
    ASSUME SavedInv, atomic_json, cmd.todo # <<>>, NEW s \in Statuses, NEW f, Head(cmd.todo) = Write("marker", s, f),
           registry = load_hubs \/ (marker # Nil /\ marker.hub = s.hub),
           validate_credential(s), s.slot < unused.slot, \A t \in load_hubs : t.slot = s.slot => t.hub = s.hub,
           cmd.does \notin {"remove", "rename"}
    PROVE  /\ SavedRest' /\ marker' = s /\ marker' # Nil
           /\ UNCHANGED <<registry, client, keychain, given_up, unused>>
           /\ load_hubs' = With(s)
<1>1. s # Nil
  BY HubsAreStatuses DEF SavedInv
<1>2. marker' = s /\ UNCHANGED <<registry, client, keychain, given_up, unused, minted, device>> /\ forgot' = forgot \ {s.hub}
  BY <1>1, MarkerWritten DEF atomic_json
<1>3. load_hubs' = With(s)
  <2>1. load_hubs' = {h \in registry : h.hub # s.hub} \cup {s}
    BY <1>1, <1>2 DEF load_hubs
  <2>2. CASE registry = load_hubs
    BY <2>1, <2>2 DEF With
  <2>3. CASE marker # Nil /\ marker.hub = s.hub
    BY <2>1, <2>3 DEF With, load_hubs
  <2> QED
    BY <2>2, <2>3
<1>4. SlotsAreOwn'
  BY <1>2, <1>3 DEF With, SavedInv, SlotsAreOwn
<1>5. SavedHubsHaveKeys'
  BY <1>2, <1>3 DEF With, SavedInv, SavedHubsHaveKeys, validate_credential
<1>6. KeysAreBoundOnce' /\ LostAnswerIsRetried'
  BY <1>2, KeysFrame DEF SavedInv
<1>7. SavedTypes' /\ OpensActive' /\ CheckIsCurrent'
  BY <1>2, StepFrame DEF SavedInv, SavedTypes
<1> QED
  BY <1>1, <1>2, <1>3, <1>4, <1>5, <1>6, <1>7 DEF SavedRest

LEMMA NoMarkerStep ==
    ASSUME SavedInv, atomic_json, cmd.todo # <<>>, Head(cmd.todo) = Write("marker", Nil, "stop"),
           marker # Nil => cmd.does = "forget" /\ \A t \in registry : t.hub # marker.hub
    PROVE  /\ SavedRest' /\ marker' = Nil /\ UNCHANGED <<registry, client, keychain, forgot, given_up, unused>>
           /\ load_hubs' \subseteq load_hubs
<1>1. marker' = Nil /\ UNCHANGED <<registry, client, keychain, forgot, given_up, unused, minted, device>>
  BY MarkerWritten DEF atomic_json
<1>2. load_hubs' \subseteq load_hubs
  BY <1>1 DEF load_hubs
<1>3. SlotsAreOwn' /\ SavedHubsHaveKeys'
  BY <1>1, <1>2, FewerHubs DEF SavedInv
<1>4. KeysAreBoundOnce' /\ LostAnswerIsRetried'
  BY <1>1, KeysFrame DEF SavedInv
<1>5. SavedTypes' /\ OpensActive' /\ CheckIsCurrent'
  BY <1>1, StepFrame DEF SavedInv, SavedTypes
<1> QED
  BY <1>1, <1>2, <1>3, <1>4, <1>5 DEF SavedRest

LEMMA CredentialStep ==
    ASSUME SavedInv, atomic_json, cmd.todo # <<>>, NEW s \in Statuses, Head(cmd.todo) = SaveCredential(s),
           FreeSlot(s.slot), s.slot < unused.slot, keychain[s.slot] = Nil,
           cmd.does \notin {"remove", "rename"}
    PROVE  /\ SavedRest' /\ keychain' = [keychain EXCEPT ![s.slot] = SaveCredential(s).val]
           /\ UNCHANGED <<marker, registry, client, forgot, given_up, unused>> /\ load_hubs' = load_hubs
<1> DEFINE new == SaveCredential(s).val
<1>1. s.slot \in Slots /\ s.slot # candidate /\ new \in Credentials
  BY SessionsIn, HubsAreStatuses DEF SavedInv
<1>2. keychain' = [keychain EXCEPT ![s.slot] = new]
      /\ UNCHANGED <<marker, registry, client, forgot, given_up, unused, minted, device>>
  BY <1>1, SlotWritten DEF atomic_json, SaveCredential, Store
<1>3. load_hubs' = load_hubs
  BY <1>2, HubsFrame
<1>4. \A i \in Slots : i # s.slot => keychain'[i] = keychain[i]
  BY <1>2 DEF SavedInv, SavedTypes
<1>5. SlotsAreOwn'
  <2>1. \A i \in Slots : i >= unused.slot => i # s.slot
    BY <1>1 DEF Slots, SavedInv, SavedTypes
  <2> QED
    BY <2>1, <1>2, <1>3, <1>4 DEF SavedInv, SlotsAreOwn
<1>6. SavedHubsHaveKeys'
  <2>1. \A t \in load_hubs : keychain'[t.slot] = keychain[t.slot]
    BY <1>4, HubsAreStatuses DEF SavedInv, FreeSlot
  <2> QED
    BY <2>1, <1>2, <1>3 DEF SavedInv, SavedHubsHaveKeys, validate_credential
<1>7. KeysAreBoundOnce'
  BY <1>1, <1>2, <1>4, CandidateIn DEF SavedInv, KeysAreBoundOnce
<1>8. LostAnswerIsRetried'
  <2>1. ASSUME NEW c \in PairCodes, c \notin given_up', minted'[c].bound \in Keys
        PROVE  \E i \in Slots : keychain'[i] # Nil /\ keychain'[i].key = minted'[c].bound
    <3>1. PICK i \in Slots : keychain[i] # Nil /\ keychain[i].key = minted[c].bound
      BY <1>2, <2>1 DEF SavedInv, LostAnswerIsRetried
    <3> QED
      BY <3>1, <1>2, <1>4
  <2> QED
    BY <2>1 DEF LostAnswerIsRetried
<1>9. SavedTypes' /\ OpensActive' /\ CheckIsCurrent'
  <2>1. keychain' \in [Slots -> Credentials \cup {Nil}]
    BY <1>1, <1>2 DEF SavedInv, SavedTypes
  <2> QED
    BY <2>1, <1>2, StepFrame DEF SavedInv, SavedTypes
<1> QED
  BY <1>2, <1>3, <1>5, <1>6, <1>7, <1>8, <1>9 DEF SavedRest

(* A slot is dropped that no hub refers to, or a hub that is being         *)
(* forgotten.                                                              *)
LEMMA DropStep ==
    ASSUME SavedInv, atomic_json, cmd.todo # <<>>, NEW i \in Slots \cup {Nil}, NEW f, Head(cmd.todo) = Drop(i, f),
           \A t \in load_hubs : t.slot = i => t.hub \in forgot
    PROVE  /\ SavedRest' /\ UNCHANGED <<marker, registry, client, forgot, unused>> /\ load_hubs' = load_hubs
           /\ \A j \in Slots : j # i => keychain'[j] = keychain[j]
           /\ ActiveOrNil => ActiveOrNil'
<1>1. UNCHANGED <<marker, registry, client, forgot, unused, minted, device>>
  BY SlotDropped DEF atomic_json
<1>2. ActiveOrNil => ActiveOrNil'
  BY <1>1 DEF ActiveOrNil
<1>3. load_hubs' = load_hubs
  BY <1>1, HubsFrame
<1>4. CASE i = Nil
  <2>1. UNCHANGED <<keychain, given_up>>
    BY <1>4, SlotDropped DEF atomic_json
  <2>2. SlotsAreOwn' /\ SavedHubsHaveKeys'
    BY <2>1, <1>1, DataFrame
  <2>3. KeysAreBoundOnce' /\ LostAnswerIsRetried'
    BY <2>1, <1>1, KeysFrame DEF SavedInv
  <2>4. SavedTypes' /\ OpensActive' /\ CheckIsCurrent'
    BY <2>1, <1>1, StepFrame DEF SavedInv, SavedTypes
  <2> QED
    BY <2>1, <2>2, <2>3, <2>4, <1>1, <1>2, <1>3 DEF SavedRest
<1>5. CASE i # Nil
  <2>1. i \in Slots
    BY <1>5
  <2>2. /\ keychain' = [keychain EXCEPT ![i] = Nil]
        /\ given_up' = IF keychain[i] # Nil
                       THEN given_up \cup {c \in PairCodes : minted[c].bound = keychain[i].key \/ keychain[i].code = c}
                       ELSE given_up
    BY <1>5, SlotDropped DEF atomic_json
  <2>3. SlotsAreOwn' /\ SavedHubsHaveKeys'
    BY <2>1, <2>2, <1>1, SlotEmptied DEF SavedInv
  <2>4. KeysAreBoundOnce' /\ LostAnswerIsRetried'
    BY <2>1, <2>2, <1>1, KeyDropped DEF SavedInv
  <2>5. keychain' \in [Slots -> Credentials \cup {Nil}] /\ \A j \in Slots : j # i => keychain'[j] = keychain[j]
    BY <2>1, <2>2 DEF SavedInv, SavedTypes
  <2>6. given_up' \subseteq PairCodes
    BY <2>2 DEF SavedInv, SavedTypes
  <2>7. SavedTypes' /\ OpensActive' /\ CheckIsCurrent'
    BY <2>5, <2>6, <1>1, StepFrame DEF SavedInv, SavedTypes
  <2> QED
    BY <2>3, <2>4, <2>5, <2>7, <1>1, <1>2, <1>3 DEF SavedRest
<1> QED
  BY <1>4, <1>5

(* A slot is erased whose key another slot has. *)
LEMMA EraseStep ==
    ASSUME SavedInv, atomic_json, cmd.todo # <<>>, NEW i \in Slots, NEW j \in Slots, i # j, NEW f,
           Head(cmd.todo) = Erase(i, f), FreeSlot(i),
           keychain[i] # Nil => keychain[j] # Nil /\ keychain[j].key = keychain[i].key,
           cmd.does \notin {"remove", "rename"}
    PROVE  SavedRest' /\ UNCHANGED <<marker, registry, client, forgot, unused>> /\ (ActiveOrNil => ActiveOrNil')
<1>1. keychain' = [keychain EXCEPT ![i] = Nil]
      /\ UNCHANGED <<marker, registry, client, forgot, given_up, unused, minted, device>>
  BY SlotWritten DEF atomic_json, Erase
<1>2. SlotsAreOwn' /\ SavedHubsHaveKeys'
  BY <1>1, SlotEmptied DEF SavedInv, FreeSlot
<1>3. KeysAreBoundOnce' /\ LostAnswerIsRetried'
  BY <1>1, KeyElsewhere DEF SavedInv
<1>4. keychain' \in [Slots -> Credentials \cup {Nil}]
  BY <1>1 DEF SavedInv, SavedTypes
<1>5. SavedTypes' /\ OpensActive' /\ CheckIsCurrent'
  BY <1>1, <1>4, StepFrame DEF SavedInv, SavedTypes
<1>6. ActiveOrNil => ActiveOrNil'
  BY <1>1 DEF ActiveOrNil
<1> QED
  BY <1>1, <1>2, <1>3, <1>5, <1>6 DEF SavedRest

(* The command goes on with its next write, or ends after its last. *)
LEMMA NextFits ==
    ASSUME SavedRest', cmd' # Nil,
           (Renaming \/ Removing \/ SwitchingRoute \/ SwitchingHub \/ Forgetting \/ Saving)'
    PROVE  SavedInv'
<1>1. CommandFits'
  BY DEF CommandFits
<1> QED
  BY <1>1 DEF SavedRest, SavedInv

LEMMA LastFits ==
    ASSUME SavedInv, atomic_json, NEW a, cmd.todo = <<a>>, SavedRest', ActiveOrNil'
    PROVE  SavedInv'
<1>1. cmd.todo # <<>> /\ Tail(cmd.todo) = <<>>
  BY List1
<1>2. cmd' = Nil
  BY <1>1, StepGoes
<1>3. CommandFits'
  BY <1>2 DEF CommandFits
<1> QED
  BY <1>3 DEF SavedRest, SavedInv

LEMMA RenameSteps ==
    ASSUME SavedInv, atomic_json, Renaming
    PROVE  SavedInv'
<1>1. cmd.todo # <<>> /\ Head(cmd.todo) = Write("registry", load_hubs, "stop")
  BY List1 DEF Renaming
<1>2. SavedRest' /\ ActiveOrNil'
  BY <1>1, RegistryStep DEF Renaming
<1> QED
  BY <1>2, LastFits DEF Renaming

LEMMA RemoveSteps ==
    ASSUME SavedInv, atomic_json, Removing
    PROVE  SavedInv'
<1>1. cmd.does = "remove" /\ ActiveOrNil
  BY DEF Removing
<1>2. ASSUME NEW s \in load_hubs, cmd.todo # <<>>, Head(cmd.todo) = Write("registry", load_hubs \ {s}, "stop"),
             marker # Nil => marker.hub # s.hub
      PROVE  /\ SavedRest' /\ marker' = marker /\ ActiveOrNil'
             /\ s.slot \in 1 .. MaxSlot /\ FreeSlot(s.slot)'
  <2>1. /\ SavedRest' /\ registry' = load_hubs \ {s} /\ marker' = marker /\ ActiveOrNil'
        /\ load_hubs' \subseteq load_hubs
    BY <1>1, <1>2, RegistryStep
  <2>2. s \in Statuses /\ s.slot \in 1 .. MaxSlot
    BY HubsAreStatuses DEF SavedInv
  <2>3. s \notin load_hubs'
    BY <2>1, <1>2 DEF load_hubs
  <2>4. FreeSlot(s.slot)'
    BY <2>1, <2>3 DEF FreeSlot, SavedInv, SlotsAreOwn
  <2> QED
    BY <2>1, <2>2, <2>4
<1>3. ASSUME NEW s \in load_hubs, marker = Nil,
             cmd.todo = <<Write("registry", load_hubs \ {s}, "stop"), Write("marker", Nil, "stop"), Drop(s.slot, "stop")>>
      PROVE  SavedInv'
  <2>1. /\ cmd.todo # <<>> /\ Head(cmd.todo) = Write("registry", load_hubs \ {s}, "stop")
        /\ Tail(cmd.todo) = <<Write("marker", Nil, "stop"), Drop(s.slot, "stop")>>
    BY <1>3, List3
  <2>2. SavedRest' /\ marker' = Nil /\ ActiveOrNil' /\ s.slot \in 1 .. MaxSlot /\ FreeSlot(s.slot)'
    BY <1>2, <1>3, <2>1
  <2>3. cmd' # Nil /\ cmd'.does = "remove" /\ cmd'.todo = <<Write("marker", Nil, "stop"), Drop(s.slot, "stop")>>
    BY <1>1, <2>1, List2, StepGoes
  <2>4. Removing'
    BY <2>2, <2>3 DEF Removing
  <2> QED
    BY <2>2, <2>3, <2>4, NextFits
<1>4. ASSUME NEW s \in load_hubs, marker # Nil, marker.hub # s.hub,
             cmd.todo = <<Write("registry", load_hubs \ {s}, "stop"), Drop(s.slot, "stop")>>
      PROVE  SavedInv'
  <2>1. /\ cmd.todo # <<>> /\ Head(cmd.todo) = Write("registry", load_hubs \ {s}, "stop")
        /\ Tail(cmd.todo) = <<Drop(s.slot, "stop")>>
    BY <1>4, List2
  <2>2. SavedRest' /\ ActiveOrNil' /\ s.slot \in 1 .. MaxSlot /\ FreeSlot(s.slot)'
    BY <1>2, <1>4, <2>1
  <2>3. cmd' # Nil /\ cmd'.does = "remove" /\ cmd'.todo = <<Drop(s.slot, "stop")>>
    BY <1>1, <2>1, List1, StepGoes
  <2>4. Removing'
    BY <2>2, <2>3 DEF Removing
  <2> QED
    BY <2>2, <2>3, <2>4, NextFits
<1>5. ASSUME NEW i \in 1 .. MaxSlot, FreeSlot(i), marker = Nil, cmd.todo = <<Write("marker", Nil, "stop"), Drop(i, "stop")>>
      PROVE  SavedInv'
  <2>1. /\ cmd.todo # <<>> /\ Head(cmd.todo) = Write("marker", Nil, "stop") /\ Tail(cmd.todo) = <<Drop(i, "stop")>>
    BY <1>5, List2
  <2>2. SavedRest' /\ marker' = Nil /\ client' = client /\ load_hubs' \subseteq load_hubs
    BY <1>5, <2>1, NoMarkerStep
  <2>3. ActiveOrNil' /\ FreeSlot(i)'
    BY <1>1, <1>5, <2>2 DEF ActiveOrNil, FreeSlot
  <2>4. cmd' # Nil /\ cmd'.does = "remove" /\ cmd'.todo = <<Drop(i, "stop")>>
    BY <1>1, <2>1, List1, StepGoes
  <2>5. Removing'
    BY <2>3, <2>4 DEF Removing
  <2> QED
    BY <2>2, <2>4, <2>5, NextFits
<1>6. ASSUME NEW i \in 1 .. MaxSlot, FreeSlot(i), cmd.todo = <<Drop(i, "stop")>>
      PROVE  SavedInv'
  <2>1. cmd.todo # <<>> /\ Head(cmd.todo) = Drop(i, "stop")
    BY <1>6, List1
  <2>2. i \in Slots
    BY SavedAssumption DEF Slots
  <2>3. SavedRest' /\ ActiveOrNil'
    BY <1>1, <1>6, <2>1, <2>2, DropStep DEF FreeSlot
  <2> QED
    BY <1>6, <2>3, LastFits
<1> QED
  BY <1>3, <1>4, <1>5, <1>6 DEF Removing

LEMMA SwitchRouteSteps ==
    ASSUME SavedInv, atomic_json, SwitchingRoute
    PROVE  SavedInv'
<1>1. cmd.does = "switch route" /\ marker # Nil /\ marker \in Statuses
  BY DEF SwitchingRoute, SavedInv, SavedTypes
<1>2. ASSUME NEW url \in Urls, validate_credential(marker),
             cmd.todo = <<Write("marker", [marker EXCEPT !.url = url], "stop"), Write("client", SessionOf(marker), "go on")>>
      PROVE  SavedInv'
  <2>1. PICK new : new = [marker EXCEPT !.url = url]
    OBVIOUS
  <2>2. PICK opened : opened = SessionOf(marker)
    OBVIOUS
  <2>3. /\ cmd.todo # <<>> /\ Head(cmd.todo) = Write("marker", new, "stop")
        /\ Tail(cmd.todo) = <<Write("client", opened, "go on")>>
    BY <1>2, <2>1, <2>2, List2
  <2>4. new \in Statuses /\ new.hub = marker.hub /\ new.key = marker.key /\ new.slot = marker.slot
    BY <1>1, <2>1 DEF Statuses
  <2>5. validate_credential(new)
    BY <1>2, <2>4 DEF validate_credential
  <2>6. marker \in load_hubs
    BY <1>1, HubsAreStatuses DEF SavedInv
  <2>7. new.slot < unused.slot /\ \A t \in load_hubs : t.slot = new.slot => t.hub = new.hub
    BY <2>4, <2>6 DEF SavedInv, SlotsAreOwn
  <2>8. SavedRest' /\ marker' = new /\ marker' # Nil
    BY <1>1, <2>3, <2>4, <2>5, <2>7, MarkerStep
  <2>9. cmd' # Nil /\ cmd'.does = "switch route" /\ cmd'.todo = <<Write("client", opened, "go on")>>
    BY <1>1, <2>3, List1, StepGoes
  <2>10. SessionOf(marker)' = opened
    BY <2>2, <2>4, <2>8 DEF SessionOf
  <2>11. SwitchingRoute'
    BY <2>8, <2>9, <2>10 DEF SwitchingRoute
  <2> QED
    BY <2>8, <2>9, <2>11, NextFits
<1>3. ASSUME cmd.todo = <<Write("client", SessionOf(marker), "go on")>>
      PROVE  SavedInv'
  <2>1. cmd.todo # <<>> /\ Head(cmd.todo) = Write("client", SessionOf(marker), "go on")
    BY <1>3, List1
  <2>2. SavedRest' /\ ActiveOrNil'
    BY <1>1, <2>1, ClientStep
  <2> QED
    BY <1>3, <2>2, LastFits
<1> QED
  BY <1>2, <1>3 DEF SwitchingRoute

LEMMA SwitchHubSteps ==
    ASSUME SavedInv, atomic_json, SwitchingHub
    PROVE  SavedInv'
<1> DEFINE Moves(s, url, new, m, c, r) ==
             /\ new = [s EXCEPT !.url = url] /\ ActiveOrNil /\ validate_credential(s)
             /\ m = Write("marker", new, "stop") /\ c = Write("client", SessionOf(s), "go on")
             /\ r = Write("registry", (load_hubs \ {s}) \cup {new}, "go on")
<1>1. cmd.does = "switch hub"
  BY DEF SwitchingHub
<1>2. ASSUME NEW s \in load_hubs, NEW url \in Urls, NEW new, NEW m, NEW c, NEW r, Moves(s, url, new, m, c, r)
      PROVE  /\ cmd.todo = <<Write("registry", load_hubs, "stop"), m, c, r>> => SavedInv'
             /\ registry = load_hubs /\ cmd.todo = <<m, c, r>> => SavedInv'
  <2>1. ASSUME cmd.todo = <<Write("registry", load_hubs, "stop"), m, c, r>>
        PROVE  SavedInv'
    <3>1. /\ cmd.todo # <<>> /\ Head(cmd.todo) = Write("registry", load_hubs, "stop")
          /\ Tail(cmd.todo) = <<m, c, r>>
      BY <2>1, List4
    <3>2. SavedRest' /\ registry' = load_hubs /\ load_hubs' = load_hubs /\ ActiveOrNil' /\ keychain' = keychain
      BY <1>2, <3>1, RegistryStep
    <3>3. cmd' # Nil /\ cmd'.does = "switch hub" /\ cmd'.todo = <<m, c, r>>
      BY <1>1, <3>1, List3, StepGoes
    <3>4. validate_credential(s)'
      BY <1>2, <3>2 DEF validate_credential
    <3>5. r = Write("registry", (load_hubs' \ {s}) \cup {new}, "go on")
      BY <1>2, <3>2
    <3>6. \E t \in load_hubs', u \in Urls :
             /\ ActiveOrNil' /\ validate_credential(t)' /\ registry' = load_hubs'
             /\ cmd'.todo = <<Write("marker", [t EXCEPT !.url = u], "stop"), Write("client", SessionOf(t), "go on"),
                              Write("registry", (load_hubs' \ {t}) \cup {[t EXCEPT !.url = u]}, "go on")>>
      BY <1>2, <3>2, <3>3, <3>4, <3>5
    <3>7. SwitchingHub'
      BY <3>3, <3>6 DEF SwitchingHub
    <3> QED
      BY <3>2, <3>3, <3>7, NextFits
  <2>2. ASSUME registry = load_hubs, cmd.todo = <<m, c, r>>
        PROVE  SavedInv'
    <3>1. cmd.todo # <<>> /\ Head(cmd.todo) = Write("marker", new, "stop") /\ Tail(cmd.todo) = <<c, r>>
      <4>1. cmd.todo # <<>> /\ Head(cmd.todo) = m /\ Tail(cmd.todo) = <<c, r>>
        BY <2>2, List3
      <4> QED
        BY <4>1, <1>2
    <3>2. s \in Statuses
      BY HubsAreStatuses DEF SavedInv
    <3>3. new \in Statuses /\ new.hub = s.hub /\ new.key = s.key /\ new.slot = s.slot
      BY <1>2, <3>2 DEF Statuses
    <3>4. validate_credential(new)
      BY <1>2, <3>3 DEF validate_credential
    <3>5. new.slot < unused.slot /\ \A t \in load_hubs : t.slot = new.slot => t.hub = new.hub
      BY <3>3 DEF SavedInv, SlotsAreOwn
    <3>6. SavedRest' /\ marker' = new /\ marker' # Nil /\ load_hubs' = With(new)
      BY <1>1, <2>2, <3>1, <3>3, <3>4, <3>5, MarkerStep
    <3>7. With(new) = (load_hubs \ {s}) \cup {new}
      BY <3>3 DEF With, SavedInv, SlotsAreOwn
    <3>8. c = Write("client", SessionOf(marker)', "go on") /\ r = Write("registry", load_hubs', "go on")
      BY <1>2, <3>3, <3>6, <3>7 DEF SessionOf
    <3>9. cmd' # Nil /\ cmd'.does = "switch hub" /\ cmd'.todo = <<c, r>>
      BY <1>1, <3>1, List2, StepGoes
    <3>10. SwitchingHub'
      BY <3>6, <3>8, <3>9 DEF SwitchingHub
    <3> QED
      BY <3>6, <3>9, <3>10, NextFits
  <2> QED
    BY <2>1, <2>2
<1>3. ASSUME marker # Nil, cmd.todo = <<Write("client", SessionOf(marker), "go on"), Write("registry", load_hubs, "go on")>>
      PROVE  SavedInv'
  <2>1. PICK r : r = Write("registry", load_hubs, "go on")
    OBVIOUS
  <2>2. cmd.todo # <<>> /\ Head(cmd.todo) = Write("client", SessionOf(marker), "go on") /\ Tail(cmd.todo) = <<r>>
    BY <1>3, <2>1, List2
  <2>3. SavedRest' /\ load_hubs' = load_hubs /\ ActiveOrNil'
    BY <1>3, <2>2, ClientStep
  <2>4. cmd' # Nil /\ cmd'.does = "switch hub" /\ cmd'.todo = <<r>>
    BY <1>1, <2>2, List1, StepGoes
  <2>5. SwitchingHub'
    BY <2>1, <2>3, <2>4 DEF SwitchingHub
  <2> QED
    BY <2>3, <2>4, <2>5, NextFits
<1>4. ASSUME ActiveOrNil, cmd.todo = <<Write("registry", load_hubs, "go on")>>
      PROVE  SavedInv'
  <2>1. cmd.todo # <<>> /\ Head(cmd.todo) = Write("registry", load_hubs, "go on")
    BY <1>4, List1
  <2>2. SavedRest' /\ ActiveOrNil'
    BY <1>4, <2>1, RegistryStep
  <2> QED
    BY <1>4, <2>2, LastFits
<1>5. ASSUME NEW s \in load_hubs, NEW url \in Urls, NEW new, new = [s EXCEPT !.url = url],
             NEW last, last = <<Write("marker", new, "stop"), Write("client", SessionOf(s), "go on"),
                                Write("registry", (load_hubs \ {s}) \cup {new}, "go on")>>,
             ActiveOrNil, validate_credential(s),
             \/ cmd.todo = <<Write("registry", load_hubs, "stop"), last[1], last[2], last[3]>>
             \/ registry = load_hubs /\ cmd.todo = last
      PROVE  SavedInv'
  <2>1. PICK m, c, r : Moves(s, url, new, m, c, r)
    BY <1>5
  <2>2. last = <<m, c, r>>
    BY <1>5, <2>1
  <2> HIDE DEF Moves
  <2>3. last[1] = m /\ last[2] = c /\ last[3] = r
    BY <2>2
  <2>4. cmd.todo = <<Write("registry", load_hubs, "stop"), m, c, r>> \/ (registry = load_hubs /\ cmd.todo = <<m, c, r>>)
    BY <1>5, <2>2, <2>3
  <2>5. /\ cmd.todo = <<Write("registry", load_hubs, "stop"), m, c, r>> => SavedInv'
        /\ registry = load_hubs /\ cmd.todo = <<m, c, r>> => SavedInv'
    BY <1>2, <2>1
  <2> QED
    BY <2>4, <2>5
<1> QED
  BY <1>3, <1>4, <1>5 DEF SwitchingHub

LEMMA ForgetSteps ==
    ASSUME SavedInv, atomic_json, Forgetting
    PROVE  SavedInv'
<1>1. cmd.does = "forget" /\ client = Nil /\ (marker # Nil => marker.hub \in forgot)
  BY DEF Forgetting
<1>2. PICK others : others = load_hubs \ (IF marker = Nil THEN {} ELSE {marker})
  OBVIOUS
<1>3. PICK r, m : r = Write("registry", others, "stop") /\ m = Write("marker", Nil, "stop")
  OBVIOUS
<1>4. ASSUME cmd.todo = <<Drop(IF marker = Nil THEN Nil ELSE marker.slot, "stop"), Drop(candidate, "stop"), r, m>>
      PROVE  SavedInv'
  <2>1. PICK i, d : i = (IF marker = Nil THEN Nil ELSE marker.slot) /\ d = Drop(candidate, "stop")
    OBVIOUS
  <2>2. cmd.todo # <<>> /\ Head(cmd.todo) = Drop(i, "stop") /\ Tail(cmd.todo) = <<d, r, m>>
    BY <1>4, <2>1, List4
  <2>3. i \in Slots \cup {Nil} /\ \A t \in load_hubs : t.slot = i => t.hub \in forgot
    <3>1. load_hubs \subseteq Statuses /\ (marker # Nil => marker \in load_hubs)
          /\ \A t \in Statuses : t.slot \in Slots /\ t.slot # Nil
      BY HubsAreStatuses, SavedAssumption DEF SavedInv, Slots
    <3> QED
      BY <3>1, <2>1, <1>1 DEF SavedInv, SlotsAreOwn
  <2>4. SavedRest' /\ UNCHANGED <<marker, registry, client, forgot>> /\ load_hubs' = load_hubs
    BY <2>2, <2>3, DropStep
  <2>5. cmd' # Nil /\ cmd'.does = "forget" /\ cmd'.todo = <<d, r, m>>
    BY <1>1, <2>2, List3, StepGoes
  <2>6. Forgetting'
    BY <1>1, <1>2, <1>3, <2>1, <2>4, <2>5 DEF Forgetting
  <2> QED
    BY <2>4, <2>5, <2>6, NextFits
<1>5. ASSUME cmd.todo = <<Drop(candidate, "stop"), r, m>>
      PROVE  SavedInv'
  <2>1. cmd.todo # <<>> /\ Head(cmd.todo) = Drop(candidate, "stop") /\ Tail(cmd.todo) = <<r, m>>
    BY <1>5, List3
  <2>2. candidate \in Slots /\ \A t \in load_hubs : t.slot # candidate
    BY HubsAreStatuses, CandidateIn DEF SavedInv
  <2>3. SavedRest' /\ UNCHANGED <<marker, registry, client, forgot>> /\ load_hubs' = load_hubs
    BY <2>1, <2>2, DropStep
  <2>4. cmd' # Nil /\ cmd'.does = "forget" /\ cmd'.todo = <<r, m>>
    BY <1>1, <2>1, List2, StepGoes
  <2>5. Forgetting'
    BY <1>1, <1>2, <1>3, <2>3, <2>4 DEF Forgetting
  <2> QED
    BY <2>3, <2>4, <2>5, NextFits
<1>6. ASSUME cmd.todo = <<r, m>>
      PROVE  SavedInv'
  <2>1. cmd.todo # <<>> /\ Head(cmd.todo) = Write("registry", others, "stop") /\ Tail(cmd.todo) = <<m>>
    BY <1>3, <1>6, List2
  <2>2. others \subseteq load_hubs
    BY <1>2
  <2>3. SavedRest' /\ registry' = others /\ UNCHANGED <<marker, client, forgot>>
    BY <2>1, <2>2, RegistryStep
  <2>4. marker # Nil => \A t \in others : t.hub # marker.hub
    BY <1>2, HubsAreStatuses DEF SavedInv
  <2>5. cmd' # Nil /\ cmd'.does = "forget" /\ cmd'.todo = <<m>>
    BY <1>1, <2>1, List1, StepGoes
  <2>6. Forgetting'
    BY <1>1, <1>3, <2>3, <2>4, <2>5 DEF Forgetting
  <2> QED
    BY <2>3, <2>5, <2>6, NextFits
<1>7. ASSUME cmd.todo = <<m>>, marker # Nil => \A t \in registry : t.hub # marker.hub
      PROVE  SavedInv'
  <2>1. cmd.todo # <<>> /\ Head(cmd.todo) = Write("marker", Nil, "stop")
    BY <1>3, <1>7, List1
  <2>2. SavedRest' /\ client' = client
    BY <1>1, <1>7, <2>1, NoMarkerStep
  <2>3. ActiveOrNil'
    BY <1>1, <2>2 DEF ActiveOrNil
  <2> QED
    BY <1>7, <2>2, <2>3, LastFits
<1> QED
  BY <1>2, <1>3, <1>4, <1>5, <1>6, <1>7 DEF Forgetting

(* A new pairing is being written. *)
LEMMA SaveStatusSteps ==
    ASSUME SavedInv, atomic_json, cmd.does = "saving", NEW s \in Statuses, NEW old \in Slots \cup {Nil},
           SavingStatus(s, old)
    PROVE  SavedInv'
<1>1. PICK m, r, d, c : /\ m = Write("marker", s, "undo") /\ r = Write("registry", With(s), "skip")
                        /\ d = Drop(old, "go on") /\ c = SaveSession(s)
  OBVIOUS
<1>2. PICK last : last = <<m, r, d, c, EraseCandidate>>
  OBVIOUS
<1>3. /\ ActiveOrNil /\ CandidateHas(s.key) /\ cmd.undo = <<Erase(s.slot, "go on")>>
      /\ s.slot < unused.slot /\ FreeSlot(s.slot) /\ old # candidate /\ old # s.slot
      /\ \A t \in load_hubs : t.slot = old => t.hub = s.hub
      /\ \/ /\ keychain[s.slot] = Nil
            /\ \/ cmd.todo = <<Write("registry", load_hubs, "undo"), SaveCredential(s),
                               last[1], last[2], last[3], last[4], last[5]>>
               \/ /\ registry = load_hubs
                  /\ cmd.todo = <<SaveCredential(s), last[1], last[2], last[3], last[4], last[5]>>
         \/ keychain[s.slot] = SaveCredential(s).val /\ registry = load_hubs /\ cmd.todo = last
  BY <1>1, <1>2 DEF SavingStatus
<1>4. last[1] = m /\ last[2] = r /\ last[3] = d /\ last[4] = c /\ last[5] = EraseCandidate
  BY <1>2
<1>5. candidate \in Slots /\ s.slot \in Slots /\ s.slot # candidate
  BY CandidateIn, HubsAreStatuses DEF SavedInv
<1>6. ASSUME keychain[s.slot] = Nil,
             cmd.todo = <<Write("registry", load_hubs, "undo"), SaveCredential(s), m, r, d, c, EraseCandidate>>
      PROVE  SavedInv'
  <2>1. /\ cmd.todo # <<>> /\ Head(cmd.todo) = Write("registry", load_hubs, "undo")
        /\ Tail(cmd.todo) = <<SaveCredential(s), m, r, d, c, EraseCandidate>>
    BY <1>6, List7
  <2>2. /\ SavedRest' /\ registry' = load_hubs /\ load_hubs' = load_hubs /\ ActiveOrNil'
        /\ UNCHANGED <<keychain, unused>>
    BY <1>3, <2>1, RegistryStep
  <2>3. /\ cmd' # Nil /\ cmd'.does = "saving" /\ cmd'.undo = cmd.undo
        /\ cmd'.todo = <<SaveCredential(s), m, r, d, c, EraseCandidate>>
    BY <2>1, List6, StepGoes
  <2>4. CandidateHas(s.key)' /\ FreeSlot(s.slot)' /\ With(s)' = With(s)
    BY <1>3, <2>2 DEF CandidateHas, FreeSlot, With
  <2>5. cmd'.todo = <<SaveCredential(s), last[1], last[2], last[3], last[4], last[5]>>
    BY <1>4, <2>3
  <2>6. last = <<Write("marker", s, "undo"), Write("registry", With(s)', "skip"), Drop(old, "go on"), SaveSession(s),
                 EraseCandidate>>
    BY <1>1, <1>2, <2>4
  <2>7. SavingStatus(s, old)'
    BY <1>3, <1>6, <2>2, <2>3, <2>4, <2>5, <2>6 DEF SavingStatus
  <2>8. Saving'
    BY <2>3, <2>7 DEF Saving
  <2> QED
    BY <2>2, <2>3, <2>8, NextFits
<1>7. ASSUME keychain[s.slot] = Nil, registry = load_hubs, cmd.todo = <<SaveCredential(s), m, r, d, c, EraseCandidate>>
      PROVE  SavedInv'
  <2>1. cmd.todo # <<>> /\ Head(cmd.todo) = SaveCredential(s) /\ Tail(cmd.todo) = last
    BY <1>2, <1>7, List6
  <2>2. /\ SavedRest' /\ keychain' = [keychain EXCEPT ![s.slot] = SaveCredential(s).val] /\ load_hubs' = load_hubs
        /\ UNCHANGED <<marker, registry, client, unused>>
    BY <1>3, <1>7, <2>1, CredentialStep
  <2>3. cmd' # Nil /\ cmd'.does = "saving" /\ cmd'.undo = cmd.undo /\ cmd'.todo = last
    BY <1>2, <2>1, List5, StepGoes
  <2>4. FreeSlot(s.slot)' /\ With(s)' = With(s) /\ ActiveOrNil'
    BY <1>3, <2>2 DEF FreeSlot, With, ActiveOrNil
  <2>5. keychain'[s.slot] = SaveCredential(s).val /\ keychain'[candidate] = keychain[candidate]
    BY <1>5, <2>2 DEF SavedInv, SavedTypes
  <2>6. CandidateHas(s.key)'
    BY <1>3, <2>5 DEF CandidateHas
  <2>7. last = <<Write("marker", s, "undo"), Write("registry", With(s)', "skip"), Drop(old, "go on"), SaveSession(s),
                 EraseCandidate>>
    BY <1>1, <1>2, <2>4
  <2>8. SavingStatus(s, old)'
    BY <1>3, <1>7, <2>2, <2>3, <2>4, <2>5, <2>6, <2>7 DEF SavingStatus
  <2>9. Saving'
    BY <2>3, <2>8 DEF Saving
  <2> QED
    BY <2>2, <2>3, <2>9, NextFits
<1>8. ASSUME keychain[s.slot] = SaveCredential(s).val, registry = load_hubs, cmd.todo = last
      PROVE  SavedInv'
  <2>1. cmd.todo # <<>> /\ Head(cmd.todo) = Write("marker", s, "undo") /\ Tail(cmd.todo) = <<r, d, c, EraseCandidate>>
    <3>1. cmd.todo # <<>> /\ Head(cmd.todo) = m /\ Tail(cmd.todo) = <<r, d, c, EraseCandidate>>
      BY <1>2, <1>8, List5
    <3> QED
      BY <3>1, <1>1
  <2>2. validate_credential(s)
    <3>1. keychain[s.slot] = [hub |-> s.hub, key |-> s.key, code |-> Nil] /\ keychain[s.slot] # Nil
      <4>1. SaveCredential(s).val # Nil
        BY SessionsIn, SavedAssumption
      <4> QED
        BY <4>1, <1>8 DEF SaveCredential, Store
    <3> QED
      BY <3>1 DEF validate_credential
  <2>3. \A t \in load_hubs : t.slot = s.slot => t.hub = s.hub
    BY <1>3 DEF FreeSlot
  <2>4. SavedRest' /\ marker' = s /\ marker' # Nil /\ keychain' = keychain /\ load_hubs' = With(s)
    BY <1>3, <1>8, <2>1, <2>2, <2>3, MarkerStep
  <2>5. cmd' # Nil /\ cmd'.does = "saving" /\ cmd'.todo = <<r, d, c, EraseCandidate>>
    BY <2>1, List4, StepGoes
  <2>6. validate_credential(marker)' /\ CandidateHas(marker.key)'
    BY <1>3, <2>2, <2>4 DEF validate_credential, CandidateHas
  <2>7. FreeSlot(old)'
    BY <1>3, <2>4 DEF FreeSlot, With
  <2>8. r = Write("registry", load_hubs', "skip") /\ c = SaveSession(marker)'
    BY <1>1, <2>4 DEF SaveSession, SessionOf
  <2>9. SavedStatus(old)'
    BY <1>1, <1>3, <2>4, <2>5, <2>6, <2>7, <2>8 DEF SavedStatus
  <2>10. Saving'
    BY <2>5, <2>9 DEF Saving
  <2> QED
    BY <2>4, <2>5, <2>10, NextFits
<1> QED
  BY <1>3, <1>4, <1>6, <1>7, <1>8

LEMMA SavedStatusSteps ==
    ASSUME SavedInv, atomic_json, cmd.does = "saving", NEW old \in Slots \cup {Nil}, SavedStatus(old)
    PROVE  SavedInv'
<1>1. PICK d, c : d = Drop(old, "go on") /\ c = SaveSession(marker)
  OBVIOUS
<1>2. /\ marker # Nil /\ validate_credential(marker) /\ CandidateHas(marker.key)
      /\ old # candidate /\ FreeSlot(old)
      /\ \/ cmd.todo = <<Write("registry", load_hubs, "skip"), d, c, EraseCandidate>>
         \/ cmd.todo = <<d, c, EraseCandidate>>
         \/ cmd.todo = <<c, EraseCandidate>>
         \/ ActiveOrNil /\ cmd.todo = <<EraseCandidate>>
  BY <1>1 DEF SavedStatus
<1>3. marker \in load_hubs /\ marker \in Statuses /\ marker.slot \in Slots /\ marker.slot # candidate /\ candidate \in Slots
  BY <1>2, HubsAreStatuses, CandidateIn DEF SavedInv
<1>4. ASSUME cmd.todo = <<Write("registry", load_hubs, "skip"), d, c, EraseCandidate>>
      PROVE  SavedInv'
  <2>1. cmd.todo # <<>> /\ Head(cmd.todo) = Write("registry", load_hubs, "skip") /\ Tail(cmd.todo) = <<d, c, EraseCandidate>>
    BY <1>4, List4
  <2>2. SavedRest' /\ UNCHANGED <<marker, keychain>> /\ load_hubs' = load_hubs
    BY <2>1, RegistryStep
  <2>3. cmd' # Nil /\ cmd'.does = "saving" /\ cmd'.todo = <<d, c, EraseCandidate>>
    BY <2>1, List3, StepGoes
  <2>4. validate_credential(marker)' /\ CandidateHas(marker.key)' /\ FreeSlot(old)' /\ c = SaveSession(marker)'
    BY <1>1, <1>2, <2>2 DEF validate_credential, CandidateHas, FreeSlot, SaveSession, SessionOf
  <2>5. SavedStatus(old)'
    BY <1>1, <1>2, <2>2, <2>3, <2>4 DEF SavedStatus
  <2>6. Saving'
    BY <2>3, <2>5 DEF Saving
  <2> QED
    BY <2>2, <2>3, <2>6, NextFits
<1>5. ASSUME cmd.todo = <<d, c, EraseCandidate>>
      PROVE  SavedInv'
  <2>1. cmd.todo # <<>> /\ Head(cmd.todo) = Drop(old, "go on") /\ Tail(cmd.todo) = <<c, EraseCandidate>>
    <3>1. cmd.todo # <<>> /\ Head(cmd.todo) = d /\ Tail(cmd.todo) = <<c, EraseCandidate>>
      BY <1>5, List3
    <3> QED
      BY <3>1, <1>1
  <2>2. \A t \in load_hubs : t.slot = old => t.hub \in forgot
    BY <1>2 DEF FreeSlot
  <2>3. /\ SavedRest' /\ marker' = marker /\ load_hubs' = load_hubs
        /\ \A j \in Slots : j # old => keychain'[j] = keychain[j]
    BY <2>1, <2>2, DropStep
  <2>4. cmd' # Nil /\ cmd'.does = "saving" /\ cmd'.todo = <<c, EraseCandidate>>
    BY <2>1, List2, StepGoes
  <2>5. keychain'[marker.slot] = keychain[marker.slot] /\ keychain'[candidate] = keychain[candidate]
    BY <1>2, <1>3, <2>3 DEF FreeSlot
  <2>6. validate_credential(marker)' /\ CandidateHas(marker.key)' /\ FreeSlot(old)' /\ c = SaveSession(marker)'
    BY <1>1, <1>2, <2>3, <2>5 DEF validate_credential, CandidateHas, FreeSlot, SaveSession, SessionOf
  <2>7. SavedStatus(old)'
    BY <1>2, <2>3, <2>4, <2>6 DEF SavedStatus
  <2>8. Saving'
    BY <2>4, <2>7 DEF Saving
  <2> QED
    BY <2>3, <2>4, <2>8, NextFits
<1>6. ASSUME cmd.todo = <<c, EraseCandidate>>
      PROVE  SavedInv'
  <2>1. /\ cmd.todo # <<>> /\ Head(cmd.todo) = Write("client", SessionOf(marker), "go on")
        /\ Tail(cmd.todo) = <<EraseCandidate>>
    <3>1. cmd.todo # <<>> /\ Head(cmd.todo) = c /\ Tail(cmd.todo) = <<EraseCandidate>>
      BY <1>6, List2
    <3> QED
      BY <3>1, <1>1 DEF SaveSession
  <2>2. SavedRest' /\ UNCHANGED <<marker, keychain>> /\ load_hubs' = load_hubs /\ ActiveOrNil'
    BY <1>2, <2>1, ClientStep
  <2>3. cmd' # Nil /\ cmd'.does = "saving" /\ cmd'.todo = <<EraseCandidate>>
    BY <2>1, List1, StepGoes
  <2>4. validate_credential(marker)' /\ CandidateHas(marker.key)' /\ FreeSlot(old)'
    BY <1>2, <2>2 DEF validate_credential, CandidateHas, FreeSlot
  <2>5. SavedStatus(old)'
    BY <1>2, <2>2, <2>3, <2>4 DEF SavedStatus
  <2>6. Saving'
    BY <2>3, <2>5 DEF Saving
  <2> QED
    BY <2>2, <2>3, <2>6, NextFits
<1>7. ASSUME ActiveOrNil, cmd.todo = <<EraseCandidate>>
      PROVE  SavedInv'
  <2>1. cmd.todo # <<>> /\ Head(cmd.todo) = Erase(candidate, "go on")
    BY <1>7, List1 DEF EraseCandidate
  <2>2. FreeSlot(candidate)
    BY HubsAreStatuses DEF SavedInv, FreeSlot
  <2>3. keychain[marker.slot] # Nil /\ keychain[marker.slot].key = keychain[candidate].key
    BY <1>2 DEF validate_credential, CandidateHas
  <2>4. SavedRest' /\ ActiveOrNil'
    BY <1>3, <1>7, <2>1, <2>2, <2>3, EraseStep
  <2> QED
    BY <1>7, <2>4, LastFits
<1> QED
  BY <1>2, <1>4, <1>5, <1>6, <1>7

LEMMA UndoSteps ==
    ASSUME SavedInv, atomic_json, cmd.does = "saving", NEW i \in 1 .. MaxSlot, Undoing(i)
    PROVE  SavedInv'
<1>1. cmd.todo = <<Erase(i, "go on")>> /\ ActiveOrNil /\ FreeSlot(i)
  BY DEF Undoing
<1>2. cmd.todo # <<>> /\ Head(cmd.todo) = Erase(i, "go on")
  BY <1>1, List1
<1>3. i \in Slots /\ candidate \in Slots /\ i # candidate
  BY CandidateIn, SavedAssumption DEF Slots, candidate
<1>4. keychain[i] # Nil => keychain[candidate] # Nil /\ keychain[candidate].key = keychain[i].key
  BY DEF Undoing, CandidateHas
<1>5. SavedRest' /\ ActiveOrNil'
  BY <1>1, <1>2, <1>3, <1>4, EraseStep
<1> QED
  BY <1>1, <1>5, LastFits

LEMMA SaveSteps ==
    ASSUME SavedInv, atomic_json, Saving
    PROVE  SavedInv'
BY SaveStatusSteps, SavedStatusSteps, UndoSteps DEF Saving

LEMMA WriteKeeps ==
    ASSUME SavedInv, atomic_json
    PROVE  SavedInv'
BY WritingHas, RenameSteps, RemoveSteps, SwitchRouteSteps, SwitchHubSteps, ForgetSteps, SaveSteps DEF atomic_json

-----------------------------------------------------------------------------

LEMMA SavedInitHolds ==
    ASSUME SavedInit
    PROVE  SavedInv
<1>1. /\ marker = Nil /\ registry = {} /\ client = Nil /\ connecting = Nil /\ checking = Nil /\ cmd = Nil
      /\ keychain = [s \in Slots |-> Nil] /\ unused = [keys |-> Keys, slot |-> 1]
      /\ device = [k \in Keys |-> Nil] /\ forgot = {} /\ given_up = {} /\ faults = 0
      /\ minted \in [PairCodes -> {[hub |-> h, state |-> "live", bound |-> Nil] : h \in Hubs}]
  BY DEF SavedInit
<1>2. load_hubs = {}
  BY <1>1 DEF load_hubs
<1>3. \A c \in PairCodes : minted[c].bound = Nil
      /\ minted[c] \in [hub : Hubs, state : {"live", "expired"}, bound : Keys \cup {Nil, "other"}]
  BY <1>1
<1>4. minted \in [PairCodes -> [hub : Hubs, state : {"live", "expired"}, bound : Keys \cup {Nil, "other"}]]
  BY <1>1, <1>3
<1>5. candidate \in Slots /\ 1 \in 1 .. MaxSlot + 1 /\ 0 \in 0 .. MaxFaults
  BY CandidateIn, SavedAssumption
<1>6. SavedTypes
  BY <1>1, <1>4, <1>5 DEF SavedTypes
<1>7. SlotsAreOwn /\ SavedHubsHaveKeys
  BY <1>1, <1>2 DEF SlotsAreOwn, SavedHubsHaveKeys
<1>8. KeysAreBoundOnce /\ LostAnswerIsRetried
  BY <1>1, <1>3, <1>5, SavedAssumption DEF KeysAreBoundOnce, LostAnswerIsRetried
<1>9. OpensActive /\ CheckIsCurrent /\ CommandFits
  BY <1>1 DEF OpensActive, CheckIsCurrent, CommandFits, ActiveOrNil
<1> QED
  BY <1>6, <1>7, <1>8, <1>9 DEF SavedInv

LEMMA SavedNextKeeps ==
    ASSUME SavedInv, SavedNext
    PROVE  SavedInv'
BY PairKeeps, OtherDeviceKeeps, ExpiryKeeps, RevokeKeeps, HubPairsKeeps, AcknowledgedKeeps, PairFailsKeeps,
   SwitchRouteKeeps, SwitchHubKeeps, RemoveKeeps, SecureRoutesKeeps, RenameKeeps, ForgetKeeps, WriteKeeps,
   WriteFailsKeeps, ConnectedKeeps, OpenKeeps, RoutesCheckedKeeps, RoutesSavedKeeps, CloseKeeps, KilledKeeps
   DEF SavedNext

LEMMA SavedStutterKeeps ==
    ASSUME SavedInv, UNCHANGED savedVars
    PROVE  SavedInv'
<1>1. UNCHANGED <<marker, registry, keychain, client, connecting, checking, cmd, unused, minted, device, forgot,
                  given_up, faults>>
  BY DEF savedVars
<1>2. CommandFits' /\ SlotsAreOwn' /\ SavedHubsHaveKeys' /\ KeysAreBoundOnce' /\ LostAnswerIsRetried'
      /\ load_hubs' = load_hubs
  BY <1>1, SessionFrame
<1>3. SavedTypes' /\ OpensActive' /\ CheckIsCurrent'
  BY <1>1, <1>2 DEF SavedInv, SavedTypes, OpensActive, CheckIsCurrent
<1> QED
  BY <1>2, <1>3 DEF SavedInv

LEMMA SavedInvImplies ==
    ASSUME SavedInv
    PROVE  SavedHubsAreSound
<1>1. SavedTypeOK
  <2>1. \A s \in Slots : keychain[s] # Nil => keychain[s].hub \in Hubs /\ keychain[s].key \in Keys
    BY DEF SavedInv, SavedTypes, Credentials
  <2>2. client # Nil => client.hub \in Hubs
    BY DEF SavedInv, SavedTypes, Sessions
  <2> QED
    BY <2>1, <2>2 DEF SavedInv, SavedTypes, SavedTypeOK
<1>2. SessionIsActive
  <2>1. cmd = Nil => ActiveOrNil
    BY DEF SavedInv, CommandFits
  <2>2. marker # Nil => SessionOf(marker).hub = marker.hub /\ SessionOf(marker).key = marker.key
    BY DEF SessionOf
  <2> QED
    BY <2>1, <2>2 DEF ActiveOrNil, SessionIsActive
<1> QED
  BY <1>1, <1>2 DEF SavedInv, SavedHubsAreSound

(* Whatever writes fail and wherever the app is killed, every saved hub    *)
(* still has its key, the session between two commands is the active       *)
(* hub's, and a lost answer of a pairing can be retried (secure.rs,        *)
(* secure/store.rs), for every number of hubs, codes, slots and faults.    *)
THEOREM SavedHubsStaySound == SavedSpec => []SavedHubsAreSound
<1>1. SavedInit => SavedInv
  BY SavedInitHolds
<1>2. SavedInv /\ [SavedNext]_savedVars => SavedInv'
  BY SavedNextKeeps, SavedStutterKeeps
<1>3. SavedInv => SavedHubsAreSound
  BY SavedInvImplies
<1> QED
  BY <1>1, <1>2, <1>3, PTL DEF SavedSpec
=============================================================================
