------------------------------ MODULE Identity ------------------------------
(***************************************************************************)
(* Who is who: the users table, which registrations, logins and Google     *)
(* sign-ins share, the profile a user's clients change, and oauth_states,  *)
(* which ties Google's callback to the user who began to link a mailbox.   *)
(*                                                                         *)
(* Each action is one SQL statement, or the one transaction there is.  A   *)
(* failing statement that ends a request before it changed anything is no  *)
(* step.  Tokens are in TokenRefresh, accounts in AccountSync.             *)
(***************************************************************************)
EXTENDS Integers

CONSTANTS
  Emails,    \* e-mail addresses, trimmed and in lower case
  Requests,  \* bound: requests the server handles at one time
  States,    \* OAuth states that may be drawn, each at most once
  Values,    \* what a display name or a theme may be
  Light,     \* the theme of a new user
  MaxUsers,  \* bound: number of users ever created
  Faults     \* the failures that may happen: subset of FaultKinds

FaultKinds == {"database", "google", "tokens"}

ASSUME IdentityAssumption ==
  /\ Light \in Values
  /\ MaxUsers \in Nat \ {0}
  /\ Faults \subseteq FaultKinds

Ids     == 1..MaxUsers
Fields  == {"name", "theme"}
Profile == [Fields -> Values]

\* google: provisioned by a Google sign-in, with a password nobody knows.
User   == [email : Emails, google : BOOLEAN, profile : Profile]
NoUser == [google |-> FALSE]

Idle     == [op |-> "idle"]
Creating == [op : {"create"}, email : Emails, google : BOOLEAN, name : Values]
Updating == [op : {"update"}, id : Ids, held : Profile, fields : SUBSET Fields]
Linking  == [op : {"link"}, id : Ids, state : States]

VARIABLES
  users,     \* the users table, by id
  owner,     \* oauth_states: the user who began, or 0 for a state without a row
  drawn,     \* the states handed out so far
  expired,   \* the states whose expires_at has passed
  job,       \* what each request is at
  sessions,  \* history: <<e-mail, id, by Google>> of every sign-in that was granted
  links,     \* history: how many times a mailbox was linked for a state
  wish,      \* history: each user's profile, as the finished requests asked for it
  behind,    \* history: the fields changed since an update read the user
  undone     \* history: the fields an update put back that was behind on them

tables  == <<users, owner, expired>>
history == <<sessions, links, wish, behind, undone>>
vars    == <<tables, drawn, job, history>>

Init ==
  /\ users = [i \in Ids |-> NoUser]
  /\ owner = [s \in States |-> 0]
  /\ drawn = {}
  /\ expired = {}
  /\ job = [r \in Requests |-> Idle]
  /\ sessions = {}
  /\ links = [s \in States |-> 0]
  /\ wish = [i \in Ids |-> [f \in Fields |-> Light]]
  /\ behind = [r \in Requests |-> {}]
  /\ undone = [i \in Ids |-> {}]

Return(r) == job' = [job EXCEPT ![r] = Idle]

(***************************************************************************)
(* Signing in: Register, Login, LoginOrCreateGoogleUser                    *)
(***************************************************************************)
Registered == {i \in Ids : users[i] # NoUser}

GetByEmail(e) == {i \in Registered : users[i].email = e}

\* issueTokens, which may fail after everything else was done.
IssueTokens(e, i, google) ==
  \/ sessions' = sessions \cup {<<e, i, google>>}
  \/ "tokens" \in Faults /\ UNCHANGED sessions

\* Register finds the e-mail free (and answers 409 when it is not).
RegisterLooks(r, e, name) ==
  /\ job[r] = Idle
  /\ GetByEmail(e) = {}
  /\ job' = [job EXCEPT ![r] = [op |-> "create", email |-> e, google |-> FALSE, name |-> name]]
  /\ UNCHANGED <<tables, drawn, history>>

\* Login with the right password.
Login(e) ==
  /\ \E i \in GetByEmail(e) : ~users[i].google /\ IssueTokens(e, i, FALSE)
  /\ UNCHANGED <<tables, drawn, job, links, wish, behind, undone>>

\* LoginOrCreateGoogleUser signs in the user with the e-mail, or will create one.
GoogleLooks(r, e, name) ==
  /\ job[r] = Idle
  /\ \/ /\ \E i \in GetByEmail(e) : IssueTokens(e, i, TRUE)
        /\ UNCHANGED job
     \/ /\ GetByEmail(e) = {}
        /\ job' = [job EXCEPT ![r] = [op |-> "create", email |-> e, google |-> TRUE, name |-> name]]
        /\ UNCHANGED sessions
  /\ UNCHANGED <<tables, drawn, links, wish, behind, undone>>

\* Ids are drawn in order; the program's are random.
NextId == {i \in Ids \ Registered : \A k \in Ids \ Registered : i <= k}

NewUser(j) ==
  [email |-> j.email, google |-> j.google,
   profile |-> [f \in Fields |-> IF f = "name" THEN j.name ELSE Light]]

\* Mutant: users has no UNIQUE (email).
CreateUserAnyway(r) ==
  LET j == job[r] IN
  /\ j.op = "create"
  /\ \E i \in NextId :
       /\ users' = [users EXCEPT ![i] = NewUser(j)]
       /\ wish' = [wish EXCEPT ![i] = NewUser(j).profile]
       /\ IssueTokens(j.email, i, j.google)
  /\ Return(r)
  /\ UNCHANGED <<owner, expired, drawn, links, behind, undone>>

\* UserRepo.Create: UNIQUE (email) lets one of several through, who is signed in.
CreateUser(r) ==
  LET j == job[r] IN
  /\ j.op = "create"
  /\ GetByEmail(j.email) = {}
  /\ \E i \in NextId :
       /\ users' = [users EXCEPT ![i] = NewUser(j)]
       /\ wish' = [wish EXCEPT ![i] = NewUser(j).profile]
       /\ IssueTokens(j.email, i, j.google)
  /\ Return(r)
  /\ UNCHANGED <<owner, expired, drawn, links, behind, undone>>

\* The INSERT is refused or fails: 500, and the request is over.
CreateFails(r) ==
  /\ job[r].op = "create"
  /\ "database" \in Faults \/ GetByEmail(job[r].email) # {}
  /\ Return(r)
  /\ UNCHANGED <<tables, drawn, history>>

(***************************************************************************)
(* The profile: UpdateProfile                                              *)
(***************************************************************************)
\* The user as read, with the fields the request names replaced.
Merge(profile, change) ==
  [f \in Fields |-> IF f \in DOMAIN change THEN change[f] ELSE profile[f]]

\* Mutant: dark_mode is no pointer, so a request that does not name it turns it off.
ProfileReadsWhole(r, i, change) ==
  /\ job[r] = Idle
  /\ i \in Registered
  /\ job' = [job EXCEPT ![r] = [op |-> "update", id |-> i, fields |-> DOMAIN change,
                                held |-> [Merge(users[i].profile, change) EXCEPT !["theme"] =
                                            IF "theme" \in DOMAIN change THEN @ ELSE Light]]]
  /\ UNCHANGED <<tables, drawn, history>>

\* UpdateProfile: GetByID.
ProfileReads(r, i, change) ==
  /\ job[r] = Idle
  /\ i \in Registered
  /\ job' = [job EXCEPT ![r] = [op |-> "update", id |-> i, fields |-> DOMAIN change,
                                held |-> Merge(users[i].profile, change)]]
  /\ UNCHANGED <<tables, drawn, history>>

\* Another update of user i is between its two statements.
Overlaps(q, r) == job[q].op = "update" /\ job[q].id = job[r].id

\* UpdateProfile: Update writes name and theme, the field nobody asked for included.
ProfileWrites(r) ==
  LET i == job[r].id
      changed == job[r].fields IN
  /\ job[r].op = "update"
  /\ users' = [users EXCEPT ![i].profile = job[r].held]
  /\ wish' = [wish EXCEPT ![i] = [f \in Fields |-> IF f \in changed THEN job[r].held[f] ELSE @[f]]]
  /\ undone' = [undone EXCEPT ![i] = (@ \cup behind[r]) \ changed]
  /\ behind' = [q \in Requests |-> IF q = r THEN {}
                                  ELSE IF Overlaps(q, r) THEN behind[q] \cup changed
                                  ELSE behind[q]]
  /\ Return(r)
  /\ UNCHANGED <<owner, expired, drawn, sessions, links>>

ProfileFails(r) ==
  /\ "database" \in Faults
  /\ job[r].op = "update"
  /\ behind' = [behind EXCEPT ![r] = {}]
  /\ Return(r)
  /\ UNCHANGED <<tables, drawn, sessions, links, wish, undone>>

(***************************************************************************)
(* Linking: BeginLink, Callback, CompleteLink                              *)
(***************************************************************************)
\* BeginLink stores a random state for the user.
BeginLink(i, s) ==
  /\ i \in Registered
  /\ s \notin drawn
  /\ owner' = [owner EXCEPT ![s] = i]
  /\ drawn' = drawn \cup {s}
  /\ UNCHANGED <<users, expired, job, history>>

\* Ten minutes later.
StateExpires(s) ==
  /\ s \in drawn \ expired
  /\ expired' = expired \cup {s}
  /\ UNCHANGED <<users, owner, drawn, job, history>>

\* Mutant: Consume reads the row and leaves it.
ConsumeKeeping(s) == owner[s] # 0 /\ UNCHANGED owner

\* Mutant: a state without a row is consumed like any other.
ConsumeUnknown(s) == owner' = [owner EXCEPT ![s] = 0]

\* Consume reads and deletes the row in one transaction.
Consume(s) == owner[s] # 0 /\ owner' = [owner EXCEPT ![s] = 0]

\* CompleteLink goes on when the state, which is consumed anyway, was not too old.
CompleteLink(r, s) ==
  /\ Consume(s)
  /\ job' = [job EXCEPT ![r] = IF s \in expired
                               THEN Idle
                               ELSE [op |-> "link", id |-> owner[s], state |-> s]]

\* Callback of a state that is no QR session's.
Callback(r, s) ==
  /\ job[r] = Idle
  /\ CompleteLink(r, s)
  /\ UNCHANGED <<users, expired, drawn, history>>

\* The rest of CompleteLink: the mailbox is linked for the user who began.
CallbackLinks(r) ==
  /\ job[r].op = "link"
  /\ links' = [links EXCEPT ![job[r].state] = @ + 1]
  /\ Return(r)
  /\ UNCHANGED <<tables, drawn, sessions, wish, behind, undone>>

\* The code is refused, the profile cannot be read, or the row cannot be written.
CallbackFails(r) ==
  /\ Faults \cap {"google", "database"} # {}
  /\ job[r].op = "link"
  /\ Return(r)
  /\ UNCHANGED <<tables, drawn, history>>

(***************************************************************************)
(* The specification                                                       *)
(***************************************************************************)
SignIn(r, e) == \E name \in Values : RegisterLooks(r, e, name) \/ GoogleLooks(r, e, name)

Change(r, i) == \E fields \in SUBSET Fields \ {{}} :
                  \E change \in [fields -> Values] : ProfileReads(r, i, change)

Continue(r) ==
  \/ CreateUser(r) \/ CreateFails(r)
  \/ ProfileWrites(r) \/ ProfileFails(r)
  \/ CallbackLinks(r) \/ CallbackFails(r)

Next ==
  \/ \E r \in Requests :
       \/ \E e \in Emails : SignIn(r, e)
       \/ \E i \in Ids : Change(r, i)
       \/ \E s \in States : Callback(r, s)
       \/ Continue(r)
  \/ \E e \in Emails : Login(e)
  \/ \E s \in States : StateExpires(s) \/ \E i \in Ids : BeginLink(i, s)

Spec == Init /\ [][Next]_vars

(***************************************************************************)
(* Properties                                                              *)
(***************************************************************************)
\* Every variable has its type.
TypeOK ==
  /\ users \in [Ids -> User \cup {NoUser}]
  /\ owner \in [States -> Ids \cup {0}]
  /\ drawn \subseteq States
  /\ expired \subseteq States
  /\ job \in [Requests -> {Idle} \cup Creating \cup Updating \cup Linking]
  /\ sessions \subseteq Emails \X Ids \X BOOLEAN
  /\ links \in [States -> Nat]
  /\ wish \in [Ids -> Profile]
  /\ behind \in [Requests -> SUBSET Fields]
  /\ undone \in [Ids -> SUBSET Fields]

\* Whoever signs in with an e-mail, by password or by Google, and however many
\* registrations and sign-ins found it free at the same time, is the same user.
OneUserPerEmail ==
  \A a, b \in sessions : a[1] = b[1] => a[2] = b[2]

\* A change of the profile stands until another is asked for: a request that names
\* one field does not touch the other, unless it read the user before that field was
\* changed and wrote after.
ProfileStands ==
  \A i \in Registered : \A f \in Fields \ undone[i] : users[i].profile[f] = wish[i][f]

\* A state links a mailbox once: a callback that the browser repeats, even while the
\* first is still talking to Google, finds no row.
OneLinkPerState == \A s \in States : links[s] <= 1
=============================================================================
