------------------------------ MODULE Accounts ------------------------------
(***************************************************************************)
(* Logins with Google, refreshed tokens and authenticated requests, each a *)
(* request with its own SQLAlchemy session.  A login looks for an account  *)
(* and then writes one: between the two others may have done the same, and *)
(* only the unique indexes of the users table stand in between.            *)
(*                                                                         *)
(* Tokens are signed and kept by nobody: a token is as good as the account *)
(* it names is when it is used.                                            *)
(***************************************************************************)
EXTENDS FiniteSets

CONSTANTS
    Requests,     \* HTTP requests
    Identities,   \* Google accounts: "sub" in what Google tells of a user
    Emails,
    EmailOf,      \* the address of each identity; an address may have several
    Earlier,      \* ids of accounts from before
    None

ASSUME IdentityAssumption ==
    /\ EmailOf \in [Identities -> Emails]
    /\ None \notin Identities
    /\ Requests \cap Earlier = {}

VARIABLES
    users,     \* committed rows of users, by id
    draft,     \* what the transaction of a request has flushed
    pc,        \* where the handler is
    who,       \* the identity of the client
    account,   \* the id of the account the handler has found or made
    linking,   \* user.google_id was assigned
    tokens,    \* tokens that clients have received
    barred     \* accounts that were disabled when the request began (history)

vars == <<users, draft, pc, who, account, linking, tokens, barred>>

----------------------------------------------------------------------------
\* An account made by a request has a fresh uuid, which is the request here.
Ids == Requests \cup Earlier
User == [email : Emails, google : Identities \cup {None}, active : BOOLEAN]
Draft == [id : Ids, row : User]
Token == [to : Identities, user : Ids]

Terminal == {"done", "failed"}
Steps == Terminal \cup
    {"idle", "identify", "byGoogle", "byEmail", "create", "insert", "touch",
     "refresh", "authenticate", "commit"}

ASSUME NoneAssumption == None \notin User \cup Draft \cup Ids

Rows == {id \in Ids : users[id] # None}

\* Mutant: the index on email is not unique.
UniqueGoogleOnly(a, b) == a.google # None /\ a.google = b.google

\* Rows that the unique indexes on email and google_id do not let stand together.
Clash(a, b) ==
    \/ a.email = b.email
    \/ a.google # None /\ a.google = b.google

TypeOK ==
    /\ users \in [Ids -> User \cup {None}]
    /\ draft \in [Requests -> Draft \cup {None}]
    /\ pc \in [Requests -> Steps]
    /\ who \in [Requests -> Identities \cup {None}]
    /\ account \in [Requests -> Ids \cup {None}]
    /\ linking \in [Requests -> BOOLEAN]
    /\ tokens \in SUBSET Token
    /\ barred \in [Requests -> SUBSET Ids]

Init ==
    /\ users \in [Ids -> User \cup {None}]
    /\ \A r \in Requests : users[r] = None
    /\ \A a, b \in Rows : a # b => ~Clash(users[a], users[b])
    /\ \A a \in Rows : users[a].google # None => EmailOf[users[a].google] = users[a].email
    /\ draft = [r \in Requests |-> None]
    /\ pc = [r \in Requests |-> "idle"]
    /\ who = [r \in Requests |-> None]
    /\ account = [r \in Requests |-> None]
    /\ linking = [r \in Requests |-> FALSE]
    /\ tokens = {}
    /\ barred = [r \in Requests |-> {}]

----------------------------------------------------------------------------
(* Sessions.                                                               *)

At(r, step) == pc[r] = step
Goto(r, step) == pc' = [pc EXCEPT ![r] = step]

\* get_session rolls back and the error goes to the client.
Fail(r) ==
    /\ Goto(r, "failed")
    /\ draft' = [draft EXCEPT ![r] = None]
    /\ UNCHANGED <<users, who, account, linking, tokens, barred>>

\* Writing this row waits for a transaction that has written it, or one it
\* would clash with.
Waits(r, id, row) ==
    \E o \in Requests \ {r} :
        draft[o] # None /\ (draft[o].id = id \/ Clash(draft[o].row, row))
\* An IntegrityError.
Refused(id, row) == \E other \in Rows \ {id} : Clash(users[other], row)
Flush(r, id, row) ==
    /\ ~Waits(r, id, row)
    /\ IF Refused(id, row) THEN Fail(r)
       ELSE /\ draft' = [draft EXCEPT ![r] = [id |-> id, row |-> row]]
            /\ Goto(r, IF At(r, "insert") THEN "touch" ELSE "commit")
            /\ UNCHANGED <<users, who, account, linking, tokens, barred>>

----------------------------------------------------------------------------
(* Requests.                                                               *)

\* POST /google/callback, whose identity Google tells later; POST
\* /refresh; any request with get_current_user.
Start(r) ==
    /\ At(r, "idle")
    /\ barred' = [barred EXCEPT ![r] = {id \in Rows : ~users[id].active}]
    /\ \/ Goto(r, "identify") /\ UNCHANGED <<who, account>>
       \/ \E token \in tokens :
            /\ who' = [who EXCEPT ![r] = token.to]
            /\ account' = [account EXCEPT ![r] = token.user]
            /\ Goto(r, "refresh") \/ Goto(r, "authenticate")
    /\ UNCHANGED <<users, draft, linking, tokens>>

\* _exchange_google_code and _get_google_user_info.
Identify(r) ==
    /\ At(r, "identify")
    /\ \/ /\ \E identity \in Identities : who' = [who EXCEPT ![r] = identity]
          /\ Goto(r, "byGoogle")
          /\ UNCHANGED <<users, draft, account, linking, tokens, barred>>
       \/ Fail(r)

\* The account is taken if it is active; else AuthenticationError.
Take(r, id, link) ==
    IF users[id].active
    THEN /\ account' = [account EXCEPT ![r] = id]
         /\ linking' = [linking EXCEPT ![r] = link]
         /\ Goto(r, "touch")
         /\ UNCHANGED <<users, draft, who, tokens, barred>>
    ELSE Fail(r)
Pass(r, step) ==
    /\ Goto(r, step)
    /\ UNCHANGED <<users, draft, who, account, linking, tokens, barred>>

\* _handle_google_user, query by query.
FindByGoogleId(r) ==
    /\ At(r, "byGoogle")
    /\ IF \E id \in Rows : users[id].google = who[r]
       THEN \E id \in Rows : users[id].google = who[r] /\ Take(r, id, FALSE)
       ELSE Pass(r, "byEmail")

FindByEmail(r) ==
    /\ At(r, "byEmail")
    /\ IF \E id \in Rows : users[id].email = EmailOf[who[r]]
       THEN \E id \in Rows : users[id].email = EmailOf[who[r]] /\ Take(r, id, TRUE)
       ELSE Pass(r, "create")

\* create_user looks again: who has come since is "already exists".
CheckAgain(r) ==
    /\ At(r, "create")
    /\ IF \E id \in Rows : users[id].email = EmailOf[who[r]]
       THEN Fail(r)
       ELSE /\ account' = [account EXCEPT ![r] = r]
            /\ Goto(r, "insert")
            /\ UNCHANGED <<users, draft, who, linking, tokens, barred>>

NewUser(r) == [email |-> EmailOf[who[r]], google |-> who[r], active |-> TRUE]
InsertUser(r) == At(r, "insert") /\ Flush(r, r, NewUser(r))

\* update_last_login: its flush writes the link too.
Touched(r) ==
    CASE account[r] = r -> NewUser(r)
      [] account[r] # r /\ linking[r] -> [users[account[r]] EXCEPT !.google = who[r]]
      [] OTHER -> users[account[r]]
UpdateLastLogin(r) == At(r, "touch") /\ Flush(r, account[r], Touched(r))

\* Mutant: a refresh trusts the token, which is signed.
RefreshUnchecked(r) ==
    /\ At(r, "refresh")
    /\ IF users[account[r]] # None THEN Pass(r, "commit") ELSE Fail(r)

\* verify_refresh_token; the user must exist and be active.
Refresh(r) ==
    /\ At(r, "refresh")
    /\ IF users[account[r]] # None /\ users[account[r]].active
       THEN Pass(r, "commit") ELSE Fail(r)

\* verify_access_token; the user must exist and be active.
GetCurrentUser(r) ==
    /\ At(r, "authenticate")
    /\ IF users[account[r]] # None /\ users[account[r]].active
       THEN Pass(r, "commit") ELSE Fail(r)

\* The handler has returned: get_session commits, then the response with the
\* tokens of create_tokens is sent.
Commit(r) ==
    /\ At(r, "commit")
    /\ users' = IF draft[r] = None THEN users
                ELSE [users EXCEPT ![draft[r].id] = draft[r].row]
    /\ tokens' = tokens \cup {[to |-> who[r], user |-> account[r]]}
    /\ draft' = [draft EXCEPT ![r] = None]
    /\ Goto(r, "done")
    /\ UNCHANGED <<who, account, linking, barred>>

\* Mutant: get_session raises without rolling back.
AbortKeepsWrites(r) ==
    /\ pc[r] \notin Terminal \cup {"idle"}
    /\ Goto(r, "failed")
    /\ UNCHANGED <<users, draft, who, account, linking, tokens, barred>>

\* The connection to the database breaks, or the client is gone.
Abort(r) ==
    /\ pc[r] \notin Terminal \cup {"idle"}
    /\ Fail(r)

\* An administrator sets is_active in the database: no code does.
Disable(id) ==
    /\ id \in Rows /\ users[id].active
    /\ \A r \in Requests : draft[r] # None => draft[r].id # id
    /\ users' = [users EXCEPT ![id].active = FALSE]
    /\ UNCHANGED <<draft, pc, who, account, linking, tokens, barred>>

----------------------------------------------------------------------------
Step(r) ==
    \/ Identify(r) \/ FindByGoogleId(r) \/ FindByEmail(r) \/ CheckAgain(r)
    \/ InsertUser(r) \/ UpdateLastLogin(r) \/ Refresh(r) \/ GetCurrentUser(r)
    \/ Commit(r)
Next ==
    \/ \E r \in Requests : Start(r) \/ Step(r) \/ Abort(r)
    \/ \E id \in Ids : Disable(id)

Spec == Init /\ [][Next]_vars

\* asyncio resumes every handler, Google answers or the call fails, and a
\* transaction that ends frees those that wait for its keys.
FairSpec == Spec /\ \A r \in Requests : WF_vars(Step(r))

----------------------------------------------------------------------------
(* Properties.                                                             *)

\* However logins with one address race, first logins included, their tokens
\* name one account, and that is in the table.
OneAccountPerAddress ==
    \A s, t \in tokens :
        /\ users[t.user] # None
        /\ EmailOf[s.to] = EmailOf[t.to] => s.user = t.user

\* A request that began when an account was disabled does not end well in the
\* name of that account, whichever way it came to it.
DisabledStayOut == \A r \in Requests : At(r, "done") => account[r] \notin barred[r]

\* Every request ends: a login that waits for another's keys gets its turn, and
\* no two wait for each other.
EveryRequestEnds == \A r \in Requests : ~At(r, "idle") ~> pc[r] \in Terminal
============================================================================
