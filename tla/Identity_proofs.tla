--------------------------- MODULE Identity_proofs ---------------------------
(***************************************************************************)
(* Users, their profiles and the states of their links, for any e-mails,   *)
(* requests, states, values and number of users.                           *)
(***************************************************************************)
EXTENDS Identity, TLAPS

\* UNIQUE (email), and who signed in with an e-mail is the user who has it.
EmailsApart == \A i, k \in Registered : users[i].email = users[k].email => i = k

SessionsNamed == \A s \in sessions : s[2] \in Registered /\ users[s[2]].email = s[1]

\* What an update under way will write in a field that it was not asked to change is
\* what was asked for, unless that field was changed since it read.
UpdatesKept ==
  \A r \in Requests : job[r].op = "update" =>
    /\ job[r].id \in Registered
    /\ \A f \in Fields \ (job[r].fields \cup behind[r] \cup undone[job[r].id]) :
         job[r].held[f] = wish[job[r].id][f]

\* A state passes from its row to one request, and from there to one link.
Links(r, s) == job[r].op = "link" /\ job[r].state = s

StatesApart ==
  \A s \in States :
    /\ links[s] <= 1
    /\ s \notin drawn => owner[s] = 0
    /\ s \notin drawn \/ owner[s] # 0 => links[s] = 0 /\ \A r \in Requests : ~Links(r, s)
    /\ \A r \in Requests : Links(r, s) => links[s] = 0
    /\ \A r, q \in Requests : Links(r, s) /\ Links(q, s) => r = q

Inv == TypeOK /\ EmailsApart /\ SessionsNamed /\ ProfileStands /\ UpdatesKept /\ StatesApart

(***************************************************************************)
(* Records                                                                 *)
(***************************************************************************)
LEMMA NoUserIsNone == NoUser \notin User
<1>1. \A u \in User : "email" \in DOMAIN u
  BY DEF User
<1>2. "email" \notin DOMAIN NoUser
  BY DEF NoUser
<1> QED BY <1>1, <1>2

LEMMA Jobs ==
  ASSUME NEW j \in {Idle} \cup Creating \cup Updating \cup Linking
  PROVE  /\ j.op = "create" => j \in Creating
         /\ j.op = "update" => j \in Updating
         /\ j.op = "link" => j \in Linking
  BY DEF Idle, Creating, Updating, Linking

LEMMA RegisteredUsers ==
  ASSUME TypeOK
  PROVE  \A i \in Registered : i \in Ids /\ users[i] \in User
  BY DEF TypeOK, Registered

LEMMA NewUserTypes ==
  ASSUME NEW j \in Creating, NEW v, v = NewUser(j)
  PROVE  v \in User /\ v.email = j.email /\ v.profile \in Profile
<1>1. [f \in Fields |-> IF f = "name" THEN j.name ELSE Light] \in Profile
  BY IdentityAssumption DEF Creating, Profile
<1>2. j.email \in Emails /\ j.google \in BOOLEAN
  BY DEF Creating
<1> QED BY <1>1, <1>2 DEF NewUser, User

LEMMA ChangedUser ==
  ASSUME NEW u \in User, NEW p \in Profile, NEW v, v = [u EXCEPT !.profile = p]
  PROVE  v \in User /\ v.email = u.email /\ v.profile = p
  BY DEF User

LEMMA MergeTypes ==
  ASSUME NEW p \in Profile, NEW fields \in SUBSET Fields, NEW change \in [fields -> Values]
  PROVE  /\ Merge(p, change) \in Profile
         /\ \A f \in Fields \ fields : Merge(p, change)[f] = p[f]
  BY DEF Merge, Profile

(***************************************************************************)
(* Types                                                                   *)
(***************************************************************************)
LEMMA InitInv == Init => Inv
<1> SUFFICES ASSUME Init PROVE Inv
  OBVIOUS
<1> USE DEF Init
<1>1. Registered = {}
  BY DEF Registered
<1>2. TypeOK
  <2>1. Light \in Values /\ [f \in Fields |-> Light] \in Profile
    BY IdentityAssumption DEF Profile
  <2> QED BY <2>1 DEF TypeOK
<1>3. \A r \in Requests : job[r].op = "idle"
  BY DEF Idle
<1>4. EmailsApart /\ SessionsNamed /\ ProfileStands
  BY <1>1 DEF EmailsApart, SessionsNamed, ProfileStands
<1>5. UpdatesKept /\ StatesApart
  BY <1>3 DEF UpdatesKept, StatesApart, Links
<1> QED BY <1>2, <1>4, <1>5 DEF Inv

\* What CreateUser does, with its new user named.
Created(r, i, u) ==
  /\ job[r].op = "create" /\ job[r] \in Creating
  /\ i \in Ids /\ i \notin Registered
  /\ GetByEmail(job[r].email) = {}
  /\ u \in User /\ u.email = job[r].email
  /\ users' = [users EXCEPT ![i] = u]
  /\ wish' = [wish EXCEPT ![i] = u.profile]
  /\ IssueTokens(job[r].email, i, job[r].google)
  /\ Return(r)
  /\ UNCHANGED <<owner, expired, drawn, links, behind, undone>>

LEMMA CreateUserCreates ==
  ASSUME TypeOK, NEW r \in Requests, CreateUser(r)
  PROVE  \E i \in Ids, u \in User : Created(r, i, u)
<1>1. job[r] \in Creating
  BY Jobs DEF CreateUser, TypeOK
<1>2. PICK i \in NextId : /\ users' = [users EXCEPT ![i] = NewUser(job[r])]
                          /\ wish' = [wish EXCEPT ![i] = NewUser(job[r]).profile]
                          /\ IssueTokens(job[r].email, i, job[r].google)
  BY DEF CreateUser
<1>3. PICK j \in Creating : j = job[r]
  BY <1>1
<1>4. PICK u : u = NewUser(j)
  OBVIOUS
<1>5. u \in User /\ u.email = j.email
  BY <1>4, NewUserTypes
<1>6. i \in Ids /\ i \notin Registered
  BY DEF NextId
<1> QED BY <1>1, <1>2, <1>3, <1>4, <1>5, <1>6 DEF Created, CreateUser

\* What ProfileWrites does, with the user it writes named.
Rewritten(r, i, u) ==
  /\ job[r].op = "update" /\ job[r] \in Updating
  /\ i = job[r].id /\ i \in Registered
  /\ u \in User /\ u.email = users[i].email /\ u.profile = job[r].held
  /\ users' = [users EXCEPT ![i] = u]

LEMMA ProfileWritesRewrites ==
  ASSUME TypeOK, UpdatesKept, NEW r \in Requests, ProfileWrites(r)
  PROVE  \E i \in Ids, u \in User : Rewritten(r, i, u)
<1>1. job[r] \in Updating
  BY Jobs DEF ProfileWrites, TypeOK
<1>2. PICK i \in Ids : i = job[r].id
  BY <1>1 DEF Updating
<1>3. i \in Registered /\ users[i] \in User
  BY <1>2, RegisteredUsers DEF UpdatesKept, ProfileWrites
<1>4. PICK p \in Profile : p = job[r].held
  BY <1>1 DEF Updating
<1>5. PICK v \in User : v = users[i]
  BY <1>3
<1>6. PICK u : u = [v EXCEPT !.profile = p]
  OBVIOUS
<1>7. u \in User /\ u.email = v.email /\ u.profile = p
  BY <1>6, ChangedUser
<1>8. users' = [users EXCEPT ![i] = u]
  BY <1>2, <1>4, <1>5, <1>6 DEF ProfileWrites
<1> QED BY <1>1, <1>2, <1>3, <1>4, <1>5, <1>7, <1>8 DEF Rewritten, ProfileWrites

LEMMA IssueTokensTypes ==
  ASSUME NEW e \in Emails, NEW i \in Ids, NEW g \in BOOLEAN,
         sessions \subseteq Emails \X Ids \X BOOLEAN, IssueTokens(e, i, g)
  PROVE  sessions' \subseteq Emails \X Ids \X BOOLEAN
  BY DEF IssueTokens


LEMMA TypeStep ==
  ASSUME Inv, [Next]_vars
  PROVE  TypeOK'
<1> USE DEF Inv, tables, history
<1>1. ASSUME NEW r \in Requests, NEW e \in Emails, NEW name \in Values, RegisterLooks(r, e, name)
      PROVE  TypeOK'
  <2>1. [op |-> "create", email |-> e, google |-> FALSE, name |-> name] \in Creating
    BY DEF Creating
  <2> QED BY <1>1, <2>1 DEF RegisterLooks, TypeOK
<1>2. ASSUME NEW e \in Emails, Login(e) PROVE TypeOK'
  <2>1. PICK i \in GetByEmail(e) : IssueTokens(e, i, FALSE)
    BY <1>2 DEF Login
  <2>2. i \in Ids
    BY DEF GetByEmail, Registered
  <2>3. sessions' \subseteq Emails \X Ids \X BOOLEAN
    BY <2>1, <2>2, IssueTokensTypes DEF TypeOK
  <2> QED BY <1>2, <2>3 DEF Login, TypeOK
<1>3. ASSUME NEW r \in Requests, NEW e \in Emails, NEW name \in Values, GoogleLooks(r, e, name)
      PROVE  TypeOK'
  <2>1. [op |-> "create", email |-> e, google |-> TRUE, name |-> name] \in Creating
    BY DEF Creating
  <2>2. job' \in [Requests -> {Idle} \cup Creating \cup Updating \cup Linking]
    BY <1>3, <2>1 DEF GoogleLooks, TypeOK
  <2>3. sessions' \subseteq Emails \X Ids \X BOOLEAN
    <3>1. CASE \E i \in GetByEmail(e) : IssueTokens(e, i, TRUE)
      <4>1. PICK i \in GetByEmail(e) : IssueTokens(e, i, TRUE)
        BY <3>1
      <4>2. i \in Ids
        BY DEF GetByEmail, Registered
      <4> QED BY <4>1, <4>2, IssueTokensTypes DEF TypeOK
    <3>2. CASE UNCHANGED sessions
      BY <3>2 DEF TypeOK
    <3> QED BY <1>3, <3>1, <3>2 DEF GoogleLooks
  <2> QED BY <1>3, <2>2, <2>3 DEF GoogleLooks, TypeOK
<1>4. ASSUME NEW r \in Requests, CreateUser(r) PROVE TypeOK'
  <2>1. PICK i \in Ids, u \in User : Created(r, i, u)
    BY <1>4, CreateUserCreates
  <2>2. job[r].email \in Emails /\ job[r].google \in BOOLEAN /\ u.profile \in Profile
    BY <2>1 DEF Created, Creating, User
  <2>3. sessions' \subseteq Emails \X Ids \X BOOLEAN
    BY <2>1, <2>2, IssueTokensTypes DEF Created, TypeOK
  <2> QED BY <2>1, <2>2, <2>3 DEF Created, Return, TypeOK
<1>5. ASSUME NEW r \in Requests, CreateFails(r) \/ ProfileFails(r) \/ CallbackFails(r) PROVE TypeOK'
  BY <1>5 DEF CreateFails, ProfileFails, CallbackFails, Return, TypeOK
<1>6. ASSUME NEW r \in Requests, NEW i \in Ids, Change(r, i) PROVE TypeOK'
  <2>1. PICK fields \in SUBSET Fields \ {{}} : \E change \in [fields -> Values] : ProfileReads(r, i, change)
    BY <1>6 DEF Change
  <2>2. PICK change \in [fields -> Values] : ProfileReads(r, i, change)
    BY <2>1
  <2>3. PICK p \in Profile : p = users[i].profile
    BY <2>2, RegisteredUsers DEF ProfileReads, User
  <2>4. Merge(p, change) \in Profile /\ DOMAIN change = fields
    BY MergeTypes
  <2>5. [op |-> "update", id |-> i, fields |-> DOMAIN change, held |-> Merge(p, change)] \in Updating
    BY <2>4 DEF Updating
  <2> QED BY <2>2, <2>3, <2>5 DEF ProfileReads, TypeOK
<1>7. ASSUME NEW r \in Requests, ProfileWrites(r) PROVE TypeOK'
  <2>1. PICK i \in Ids, u \in User : Rewritten(r, i, u)
    BY <1>7, ProfileWritesRewrites
  <2>2. job[r].held \in Profile /\ job[r].fields \subseteq Fields /\ i = job[r].id
    BY <2>1 DEF Rewritten, Updating
  <2>3. users' \in [Ids -> User \cup {NoUser}]
    BY <2>1 DEF Rewritten, TypeOK
  <2>4. wish' \in [Ids -> Profile]
    BY <1>7, <2>2 DEF ProfileWrites, Profile, TypeOK
  <2>5. undone' \in [Ids -> SUBSET Fields] /\ behind' \in [Requests -> SUBSET Fields]
    BY <1>7, <2>2 DEF ProfileWrites, TypeOK
  <2> QED BY <1>7, <2>3, <2>4, <2>5 DEF ProfileWrites, Return, TypeOK
<1>8. ASSUME NEW s \in States, StateExpires(s) \/ \E i \in Ids : BeginLink(i, s) PROVE TypeOK'
  BY <1>8 DEF BeginLink, StateExpires, TypeOK
<1>9. ASSUME NEW r \in Requests, NEW s \in States, Callback(r, s) PROVE TypeOK'
  <2>1. owner[s] \in Ids
    BY <1>9 DEF Callback, CompleteLink, Consume, TypeOK
  <2>2. [op |-> "link", id |-> owner[s], state |-> s] \in Linking
    BY <2>1 DEF Linking
  <2> QED BY <1>9, <2>2 DEF Callback, CompleteLink, Consume, TypeOK
<1>10. ASSUME NEW r \in Requests, CallbackLinks(r) PROVE TypeOK'
  <2>1. job[r].state \in States
    BY <1>10, Jobs DEF CallbackLinks, Linking, TypeOK
  <2> QED BY <1>10, <2>1 DEF CallbackLinks, Return, TypeOK
<1>11. CASE UNCHANGED vars
  BY <1>11 DEF vars, TypeOK
<1> QED
  BY <1>1, <1>2, <1>3, <1>4, <1>5, <1>6, <1>7, <1>8, <1>9, <1>10, <1>11 DEF Next, SignIn, Continue


(***************************************************************************)
(* Users                                                                   *)
(***************************************************************************)
\* A new user's row leaves the others where they are.
LEMMA CreatedRegisters ==
  ASSUME TypeOK, NEW r \in Requests, NEW i \in Ids, NEW u \in User, Created(r, i, u)
  PROVE  /\ Registered' = Registered \cup {i} /\ i \notin Registered
         /\ users'[i] = u /\ wish'[i] = u.profile
         /\ \A k \in Registered : users'[k] = users[k] /\ wish'[k] = wish[k]
<1>1. u # NoUser
  BY NoUserIsNone
<1> QED BY <1>1 DEF Created, Registered, TypeOK

LEMMA RewrittenRegisters ==
  ASSUME TypeOK, NEW r \in Requests, NEW i \in Ids, NEW u \in User, Rewritten(r, i, u)
  PROVE  /\ Registered' = Registered /\ users'[i] = u
         /\ \A k \in Ids : k # i => users'[k] = users[k]
<1>1. u # NoUser
  BY NoUserIsNone
<1> QED BY <1>1 DEF Rewritten, Registered, TypeOK

\* Steps that touch no row of users.
LEMMA OtherSteps ==
  ASSUME [Next]_vars
  PROVE  \/ users' = users /\ wish' = wish /\ undone' = undone
         \/ \E r \in Requests : CreateUser(r) \/ ProfileWrites(r)
<1> USE DEF tables, history
<1> QED
  BY DEF Next, vars, SignIn, RegisterLooks, GoogleLooks, Login, Change, ProfileReads, Continue,
         CreateFails, ProfileFails, CallbackFails, CallbackLinks, Callback, StateExpires, BeginLink

\* A sign-in is granted for a user who has the e-mail.
LEMMA SessionSteps ==
  ASSUME TypeOK, [Next]_vars
  PROVE  \/ sessions' = sessions
         \/ \E e \in Emails, i \in Ids, g \in BOOLEAN :
              i \in GetByEmail(e) /\ users' = users /\ IssueTokens(e, i, g)
         \/ \E r \in Requests : CreateUser(r)
<1> USE DEF tables, history
<1>1. ASSUME NEW e \in Emails, Login(e)
      PROVE  \E i \in Ids : i \in GetByEmail(e) /\ users' = users /\ IssueTokens(e, i, FALSE)
  BY <1>1 DEF Login, GetByEmail, Registered
<1>2. ASSUME NEW r \in Requests, NEW e \in Emails, NEW name \in Values, GoogleLooks(r, e, name)
      PROVE  \/ sessions' = sessions
             \/ \E i \in Ids : i \in GetByEmail(e) /\ users' = users /\ IssueTokens(e, i, TRUE)
  BY <1>2 DEF GoogleLooks, GetByEmail, Registered
<1>3. CASE \E r \in Requests, e \in Emails : SignIn(r, e)
  BY <1>2, <1>3 DEF SignIn, RegisterLooks
<1>4. CASE \E e \in Emails : Login(e)
  BY <1>1, <1>4
<1>5. CASE \E r \in Requests : Continue(r)
  BY <1>5 DEF Continue, CreateFails, ProfileWrites, ProfileFails, CallbackLinks, CallbackFails
<1>6. CASE \E r \in Requests : \/ \E i \in Ids : Change(r, i)
                             \/ \E s \in States : Callback(r, s)
  BY <1>6 DEF Change, ProfileReads, Callback
<1>7. CASE \E s \in States : StateExpires(s) \/ \E i \in Ids : BeginLink(i, s)
  BY <1>7 DEF StateExpires, BeginLink
<1>8. CASE UNCHANGED vars
  BY <1>8 DEF vars
<1> QED BY <1>3, <1>4, <1>5, <1>6, <1>7, <1>8 DEF Next

LEMMA NamesStep ==
  ASSUME Inv, [Next]_vars
  PROVE  EmailsApart' /\ SessionsNamed'
<1> USE DEF Inv
<1>1. ASSUME NEW r \in Requests, CreateUser(r) PROVE EmailsApart' /\ SessionsNamed'
  <2>1. PICK i \in Ids, u \in User : Created(r, i, u)
    BY <1>1, CreateUserCreates
  <2>2. /\ Registered' = Registered \cup {i} /\ i \notin Registered
        /\ users'[i] = u
        /\ \A k \in Registered : users'[k] = users[k]
    BY <2>1, CreatedRegisters
  <2>3. \A k \in Registered : users[k].email # u.email
    BY <2>1 DEF Created, GetByEmail
  <2>4. EmailsApart'
    BY <2>2, <2>3 DEF EmailsApart
  <2>5. \A s \in sessions' : s \in sessions \/ (s[1] = u.email /\ s[2] = i)
    BY <2>1 DEF Created, IssueTokens
  <2>6. SessionsNamed'
    BY <2>2, <2>5 DEF SessionsNamed
  <2> QED BY <2>4, <2>6
<1>2. ASSUME NEW r \in Requests, ProfileWrites(r) PROVE EmailsApart' /\ SessionsNamed'
  <2>1. PICK i \in Ids, u \in User : Rewritten(r, i, u)
    BY <1>2, ProfileWritesRewrites
  <2>2. Registered' = Registered /\ \A k \in Registered : users'[k].email = users[k].email
    <3>1. Registered' = Registered /\ users'[i] = u /\ \A k \in Ids : k # i => users'[k] = users[k]
      BY <2>1, RewrittenRegisters
    <3>2. u.email = users[i].email
      BY <2>1 DEF Rewritten
    <3> QED BY <3>1, <3>2 DEF Registered
  <2>3. sessions' = sessions
    BY <1>2 DEF ProfileWrites
  <2> QED BY <2>2, <2>3 DEF EmailsApart, SessionsNamed
<1>3. CASE users' = users
  <2>1. Registered' = Registered
    BY <1>3 DEF Registered
  <2>2. \A s \in sessions' : s \in sessions \/ (s[2] \in Registered /\ users[s[2]].email = s[1])
               \/ \E r \in Requests : CreateUser(r)
    BY SessionSteps DEF IssueTokens, GetByEmail
  <2> QED BY <1>1, <1>3, <2>1, <2>2 DEF EmailsApart, SessionsNamed
<1> QED BY <1>1, <1>2, <1>3, OtherSteps


(***************************************************************************)
(* Profiles                                                                *)
(***************************************************************************)
LEMMA SignInSteps ==
  ASSUME TypeOK, NEW r \in Requests, NEW e \in Emails, SignIn(r, e)
  PROVE  /\ UNCHANGED <<tables, drawn, links, wish, undone, behind>>
         /\ \A q \in Requests : job'[q] = job[q] \/ job'[q].op = "create"
<1> USE DEF tables, history
<1>1. ASSUME NEW name \in Values, RegisterLooks(r, e, name)
      PROVE  \A q \in Requests : job'[q] = job[q] \/ job'[q].op = "create"
  BY <1>1 DEF RegisterLooks, TypeOK
<1>2. ASSUME NEW name \in Values, GoogleLooks(r, e, name)
      PROVE  \A q \in Requests : job'[q] = job[q] \/ job'[q].op = "create"
  <2>1. CASE UNCHANGED job
    BY <2>1
  <2>2. CASE job' = [job EXCEPT ![r] = [op |-> "create", email |-> e, google |-> TRUE, name |-> name]]
    BY <2>2 DEF TypeOK
  <2> QED BY <1>2, <2>1, <2>2 DEF GoogleLooks
<1>3. UNCHANGED <<tables, drawn, links, wish, undone, behind>>
  BY DEF SignIn, RegisterLooks, GoogleLooks
<1> QED BY <1>1, <1>2, <1>3 DEF SignIn

\* Steps that leave users, wishes and the updates under way alone: what becomes of a
\* request is no update.
LEMMA QuietProfiles ==
  ASSUME Inv, TypeOK',
         users' = users, wish' = wish, undone' = undone,
         \A r \in Requests : job'[r].op = "update" => job'[r] = job[r] /\ behind'[r] = behind[r]
  PROVE  ProfileStands' /\ UpdatesKept'
<1> USE DEF Inv
<1>1. Registered' = Registered
  BY DEF Registered
<1>2. ProfileStands'
  BY <1>1 DEF ProfileStands
<1>3. UpdatesKept'
  BY <1>1 DEF UpdatesKept
<1> QED BY <1>2, <1>3

LEMMA ProfilesStep ==
  ASSUME Inv, TypeOK', [Next]_vars
  PROVE  ProfileStands' /\ UpdatesKept'
<1> USE DEF Inv, tables, history
<1>1. ASSUME NEW r \in Requests, CreateUser(r) PROVE ProfileStands' /\ UpdatesKept'
  <2>1. PICK i \in Ids, u \in User : Created(r, i, u)
    BY <1>1, CreateUserCreates
  <2>2. /\ Registered' = Registered \cup {i} /\ i \notin Registered
        /\ users'[i] = u /\ wish'[i] = u.profile
        /\ \A k \in Registered : users'[k] = users[k] /\ wish'[k] = wish[k]
    BY <2>1, CreatedRegisters
  <2>3. ProfileStands'
    BY <2>1, <2>2 DEF ProfileStands, Created
  <2>4. \A q \in Requests : job'[q].op = "update" => job'[q] = job[q] /\ behind'[q] = behind[q]
    BY <2>1 DEF Created, Return, Idle, TypeOK
  <2>5. UpdatesKept'
    BY <2>1, <2>2, <2>4 DEF UpdatesKept, Created
  <2> QED BY <2>3, <2>5
<1>2. ASSUME NEW r \in Requests, NEW i \in Ids, Change(r, i) PROVE ProfileStands' /\ UpdatesKept'
  <2>1. PICK fields \in SUBSET Fields \ {{}} : \E change \in [fields -> Values] : ProfileReads(r, i, change)
    BY <1>2 DEF Change
  <2>2. PICK change \in [fields -> Values] : ProfileReads(r, i, change)
    BY <2>1
  <2>3. PICK p \in Profile : p = users[i].profile
    BY <2>2, RegisteredUsers DEF ProfileReads, User
  <2>4. \A f \in Fields \ fields : Merge(p, change)[f] = p[f]
    BY MergeTypes
  <2>5. i \in Registered /\ Registered' = Registered
    BY <2>2 DEF ProfileReads, Registered
  <2>6. /\ job'[r].op = "update" /\ job'[r].id = i /\ job'[r].fields = fields
        /\ job'[r].held = Merge(p, change)
        /\ \A q \in Requests : q # r => job'[q] = job[q]
    BY <2>2, <2>3 DEF ProfileReads, TypeOK
  <2>7. \A f \in Fields \ undone[i] : p[f] = wish[i][f]
    BY <2>3, <2>5 DEF ProfileStands
  <2>8. UNCHANGED <<users, wish, undone, behind>>
    BY <2>2 DEF ProfileReads
  <2>9. ProfileStands'
    BY <2>5, <2>8 DEF ProfileStands
  <2>10. UpdatesKept'
    <3> SUFFICES ASSUME NEW q \in Requests, job'[q].op = "update"
                 PROVE  /\ job'[q].id \in Registered'
                        /\ \A f \in Fields \ (job'[q].fields \cup behind'[q] \cup undone'[job'[q].id]) :
                             job'[q].held[f] = wish'[job'[q].id][f]
      BY DEF UpdatesKept
    <3>1. CASE q = r
      BY <3>1, <2>4, <2>5, <2>6, <2>7, <2>8
    <3>2. CASE q # r
      BY <3>2, <2>5, <2>6, <2>8 DEF UpdatesKept
    <3> QED BY <3>1, <3>2
  <2> QED BY <2>9, <2>10
<1>3. ASSUME NEW r \in Requests, ProfileWrites(r) PROVE ProfileStands' /\ UpdatesKept'
  <2>1. PICK i \in Ids, u \in User : Rewritten(r, i, u)
    BY <1>3, ProfileWritesRewrites
  <2>2. /\ Registered' = Registered /\ users'[i] = u /\ i \in Registered
        /\ \A k \in Ids : k # i => users'[k] = users[k]
    BY <2>1, RewrittenRegisters DEF Rewritten
  <2> DEFINE changed == job[r].fields
  <2>3. i = job[r].id /\ u.profile = job[r].held /\ changed \subseteq Fields
    BY <2>1 DEF Rewritten, Updating
  <2>4. /\ \A f \in Fields : wish'[i][f] = IF f \in changed THEN u.profile[f] ELSE wish[i][f]
        /\ undone'[i] = (undone[i] \cup behind[r]) \ changed
        /\ \A k \in Ids : k # i => wish'[k] = wish[k] /\ undone'[k] = undone[k]
    BY <1>3, <2>3 DEF ProfileWrites, TypeOK
  <2>5. \A f \in Fields \ (changed \cup behind[r] \cup undone[i]) : u.profile[f] = wish[i][f]
    BY <1>3, <2>3 DEF UpdatesKept, ProfileWrites
  <2>6. ProfileStands'
    <3> SUFFICES ASSUME NEW k \in Registered, NEW f \in Fields \ undone'[k]
                 PROVE  users'[k].profile[f] = wish'[k][f]
      BY <2>2 DEF ProfileStands
    <3>1. CASE k = i
      BY <3>1, <2>2, <2>4, <2>5
    <3>2. CASE k # i
      BY <3>2, <2>2, <2>4 DEF ProfileStands, Registered
    <3> QED BY <3>1, <3>2
  <2>7. UpdatesKept'
    <3> SUFFICES ASSUME NEW q \in Requests, job'[q].op = "update"
                 PROVE  /\ job'[q].id \in Registered'
                        /\ \A f \in Fields \ (job'[q].fields \cup behind'[q] \cup undone'[job'[q].id]) :
                             job'[q].held[f] = wish'[job'[q].id][f]
      BY DEF UpdatesKept
    <3>1. q # r /\ job'[q] = job[q] /\ job[q].op = "update"
      BY <1>3 DEF ProfileWrites, Return, Idle, TypeOK
    <3>2. job[q].id \in Registered /\ job[q].id \in Ids
      BY <3>1 DEF UpdatesKept, Registered
    <3>3. \A f \in Fields \ (job[q].fields \cup behind[q] \cup undone[job[q].id]) :
            job[q].held[f] = wish[job[q].id][f]
      BY <3>1 DEF UpdatesKept
    <3>4. CASE job[q].id = i
      <4>1. behind'[q] = behind[q] \cup changed
        BY <1>3, <2>3, <3>1, <3>4 DEF ProfileWrites, Overlaps, TypeOK
      <4> QED BY <2>2, <2>4, <3>1, <3>3, <3>4, <4>1
    <3>5. CASE job[q].id # i
      <4>1. behind'[q] = behind[q]
        BY <1>3, <2>3, <3>1, <3>5 DEF ProfileWrites, Overlaps, TypeOK
      <4> QED BY <2>2, <2>4, <3>1, <3>2, <3>3, <3>5, <4>1
    <3> QED BY <3>4, <3>5
  <2> QED BY <2>6, <2>7
<1>4. ASSUME NEW r \in Requests, NEW e \in Emails, SignIn(r, e) PROVE ProfileStands' /\ UpdatesKept'
  <2>1. /\ users' = users /\ wish' = wish /\ undone' = undone /\ behind' = behind
        /\ \A q \in Requests : job'[q] = job[q] \/ job'[q].op = "create"
    BY <1>4, SignInSteps
  <2> QED BY <2>1, QuietProfiles
<1>5. ASSUME NEW r \in Requests, CreateFails(r) \/ ProfileFails(r) \/ CallbackLinks(r) \/ CallbackFails(r)
      PROVE  ProfileStands' /\ UpdatesKept'
  <2>1. /\ users' = users /\ wish' = wish /\ undone' = undone
        /\ \A q \in Requests : job'[q].op = "update" => job'[q] = job[q] /\ behind'[q] = behind[q]
    BY <1>5 DEF CreateFails, ProfileFails, CallbackLinks, CallbackFails, Return, Idle, TypeOK
  <2> QED BY <2>1, QuietProfiles
<1>6. ASSUME NEW r \in Requests, NEW s \in States, Callback(r, s) PROVE ProfileStands' /\ UpdatesKept'
  <2>1. /\ users' = users /\ wish' = wish /\ undone' = undone /\ behind' = behind
        /\ \A q \in Requests : job'[q] = job[q] \/ job'[q].op \in {"idle", "link"}
    BY <1>6 DEF Callback, CompleteLink, Consume, Idle, TypeOK
  <2> QED BY <2>1, QuietProfiles
<1>7. CASE \/ \E e \in Emails : Login(e)
           \/ \E s \in States : StateExpires(s) \/ \E i \in Ids : BeginLink(i, s)
           \/ UNCHANGED vars
  <2>1. UNCHANGED <<users, wish, undone, behind, job>>
    BY <1>7 DEF Login, StateExpires, BeginLink, vars
  <2> QED BY <2>1, QuietProfiles
<1> QED BY <1>1, <1>2, <1>3, <1>4, <1>5, <1>6, <1>7 DEF Next, Continue

(***************************************************************************)
(* States                                                                  *)
(***************************************************************************)
\* Steps in which no request takes up a link, and no state is drawn, consumed or used.
LEMMA QuietStates ==
  ASSUME Inv, UNCHANGED <<owner, drawn, links>>,
         \A r \in Requests : job'[r] = job[r] \/ job'[r].op # "link"
  PROVE  StatesApart'
  BY DEF Inv, StatesApart, Links

LEMMA StatesStep ==
  ASSUME Inv, [Next]_vars
  PROVE  StatesApart'
<1> USE DEF Inv, tables, history
<1>1. ASSUME NEW r \in Requests, NEW s \in States, Callback(r, s) PROVE StatesApart'
  <2>1. /\ owner[s] # 0 /\ owner'[s] = 0 /\ \A t \in States : t # s => owner'[t] = owner[t]
        /\ UNCHANGED <<drawn, links>>
    BY <1>1 DEF Callback, CompleteLink, Consume, TypeOK
  <2>2. \A q \in Requests, t \in States : Links(q, t)' => Links(q, t) \/ (q = r /\ t = s)
    BY <1>1 DEF Callback, CompleteLink, Links, Idle, TypeOK
  <2>3. s \in drawn /\ links[s] = 0 /\ \A q \in Requests : ~Links(q, s)
    BY <2>1 DEF StatesApart
  <2> QED BY <2>1, <2>2, <2>3 DEF StatesApart
<1>2. ASSUME NEW r \in Requests, CallbackLinks(r) PROVE StatesApart'
  <2>1. PICK s \in States : s = job[r].state
    BY <1>2, Jobs DEF CallbackLinks, Linking, TypeOK
  <2>2. Links(r, s) /\ links[s] = 0
    BY <1>2, <2>1 DEF CallbackLinks, Links, StatesApart
  <2>3. /\ links'[s] = 1 /\ \A t \in States : t # s => links'[t] = links[t]
        /\ UNCHANGED <<owner, drawn>>
    BY <1>2, <2>1, <2>2 DEF CallbackLinks, TypeOK
  <2>4. \A q \in Requests, t \in States : Links(q, t)' => Links(q, t) /\ q # r
    BY <1>2 DEF CallbackLinks, Return, Links, Idle, TypeOK
  <2>5. \A q \in Requests : ~Links(q, s)'
    BY <2>2, <2>4 DEF StatesApart
  <2>6. s \in drawn /\ owner[s] = 0
    BY <2>2 DEF StatesApart
  <2> QED BY <2>3, <2>4, <2>5, <2>6 DEF StatesApart
<1>3. ASSUME NEW s \in States, NEW i \in Ids, BeginLink(i, s) PROVE StatesApart'
  <2>1. /\ s \notin drawn /\ drawn' = drawn \cup {s}
        /\ \A t \in States : t # s => owner'[t] = owner[t]
        /\ UNCHANGED <<links, job>>
    BY <1>3 DEF BeginLink, TypeOK
  <2>2. \A q \in Requests, t \in States : Links(q, t)' <=> Links(q, t)
    BY <2>1 DEF Links
  <2> QED BY <2>1, <2>2 DEF StatesApart
<1>4. ASSUME NEW r \in Requests, NEW e \in Emails, SignIn(r, e) PROVE StatesApart'
  <2>1. /\ UNCHANGED <<owner, drawn, links>>
        /\ \A q \in Requests : job'[q] = job[q] \/ job'[q].op # "link"
    BY <1>4, SignInSteps
  <2> QED BY <2>1, QuietStates
<1>5. ASSUME NEW r \in Requests, NEW i \in Ids, Change(r, i) PROVE StatesApart'
  <2>1. /\ UNCHANGED <<owner, drawn, links>>
        /\ \A q \in Requests : job'[q] = job[q] \/ job'[q].op # "link"
    BY <1>5 DEF Change, ProfileReads, TypeOK
  <2> QED BY <2>1, QuietStates
<1>6. ASSUME NEW r \in Requests,
             \/ CreateUser(r) \/ CreateFails(r) \/ ProfileWrites(r) \/ ProfileFails(r) \/ CallbackFails(r)
      PROVE  StatesApart'
  <2>1. /\ UNCHANGED <<owner, drawn, links>>
        /\ \A q \in Requests : job'[q] = job[q] \/ job'[q].op # "link"
    BY <1>6 DEF CreateUser, CreateFails, ProfileWrites, ProfileFails, CallbackFails,
                Return, Idle, TypeOK
  <2> QED BY <2>1, QuietStates
<1>7. CASE \/ \E e \in Emails : Login(e)
           \/ \E s \in States : StateExpires(s)
           \/ UNCHANGED vars
  <2>1. UNCHANGED <<owner, drawn, links, job>>
    BY <1>7 DEF Login, StateExpires, vars
  <2> QED BY <2>1, QuietStates
<1> QED BY <1>1, <1>2, <1>3, <1>4, <1>5, <1>6, <1>7 DEF Next, Continue

(***************************************************************************)
(* The theorems                                                            *)
(***************************************************************************)
THEOREM InvHolds == Spec => []Inv
<1>1. Inv /\ [Next]_vars => Inv'
  BY TypeStep, NamesStep, ProfilesStep, StatesStep DEF Inv
<1> QED BY <1>1, InitInv, PTL DEF Spec

\* Users, requests, sessions and states keep their types, whatever fails.
THEOREM TypeCorrect == Spec => []TypeOK
<1>1. Inv => TypeOK
  BY DEF Inv
<1> QED BY <1>1, InvHolds, PTL

\* Registrations, logins and Google sign-ins with one e-mail lead to one user.
THEOREM EmailIsOneUser == Spec => []OneUserPerEmail
<1>1. Inv => OneUserPerEmail
  BY DEF Inv, EmailsApart, SessionsNamed, OneUserPerEmail
<1> QED BY <1>1, InvHolds, PTL

\* UpdateProfile undoes a change only when it overlapped with it.
THEOREM ChangesStand == Spec => []ProfileStands
<1>1. Inv => ProfileStands
  BY DEF Inv
<1> QED BY <1>1, InvHolds, PTL

\* Consume hands a state to one callback: a mailbox is linked once for it.
THEOREM StateLinksOnce == Spec => []OneLinkPerState
<1>1. Inv => OneLinkPerState
  BY DEF Inv, StatesApart, OneLinkPerState
<1> QED BY <1>1, InvHolds, PTL

=============================================================================
