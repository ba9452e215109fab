--------------------------- MODULE AccountsProofs ---------------------------
(***************************************************************************)
(* One account per address, whatever logins race, and nothing in the name  *)
(* of an account that was disabled before.                                 *)
(*                                                                         *)
(* The unique indexes keep the committed rows apart from each other and,   *)
(* since a write waits for those it clashes with, from what is flushed and *)
(* not yet committed.  No write changes an address or is_active, so what a *)
(* handler knew of its account still holds when its transaction commits.   *)
(***************************************************************************)
EXTENDS Accounts, TLAPS

Linked(row) == row.google # None => EmailOf[row.google] = row.email
RowsApart ==
    /\ \A a \in Rows : Linked(users[a])
    /\ \A a, b \in Rows : a # b => ~Clash(users[a], users[b])

\* What r has flushed: a row of its own, or one that is there, whose address
\* and is_active it keeps.
DraftOf(r) ==
    /\ Linked(draft[r].row)
    /\ draft[r].id = account[r]
    /\ IF users[draft[r].id] = None
       THEN draft[r].id = r /\ draft[r].row.active
       ELSE /\ draft[r].row.email = users[draft[r].id].email
            /\ draft[r].row.active = users[draft[r].id].active
    /\ \A id \in Rows \ {draft[r].id} : ~Clash(users[id], draft[r].row)
    /\ \A o \in Requests \ {r} : draft[o] # None =>
          draft[o].id # draft[r].id /\ ~Clash(draft[o].row, draft[r].row)
DraftsApart ==
    \A r \in Requests : draft[r] # None =>
        DraftOf(r) /\ pc[r] \in {"touch", "commit"}

\* The account of r is in the table, with the address of its client.
Known(r) == account[r] \in Rows /\ users[account[r]].email = EmailOf[who[r]]
Drafted(r) == draft[r] # None /\ draft[r].row.email = EmailOf[who[r]]
Located(r) ==
    /\ pc[r] \in {"byGoogle", "byEmail", "create", "insert", "touch", "refresh",
                  "authenticate", "commit"} => who[r] \in Identities
    /\ pc[r] = "insert" => account[r] = r
    /\ pc[r] = "touch" => IF account[r] = r THEN Drafted(r) ELSE Known(r)
    /\ pc[r] \in {"refresh", "authenticate"} => Known(r)
    /\ pc[r] = "commit" => Drafted(r) \/ Known(r)
    /\ pc[r] \in {"refresh", "authenticate"} => draft[r] = None
    /\ account[r] = r => pc[r] \in {"insert", "touch", "commit", "done", "failed"}
    /\ users[r] # None => pc[r] = "done"

TokensKnown ==
    \A t \in tokens : t.user \in Rows /\ users[t.user].email = EmailOf[t.to]
StillBarred(r) ==
    /\ \A id \in barred[r] : id \in Rows /\ ~users[id].active
    /\ pc[r] \in {"insert", "touch", "commit", "done"} => account[r] \notin barred[r]

IInv ==
    /\ TypeOK /\ RowsApart /\ DraftsApart /\ TokensKnown
    /\ \A r \in Requests : Located(r) /\ StillBarred(r)

----------------------------------------------------------------------------
\* A clash is mutual, and google_id and email are all that it is about.
LEMMA ClashIsMutual ==
    ASSUME NEW a, NEW b PROVE Clash(a, b) <=> Clash(b, a)
  BY DEF Clash

LEMMA InitInvariant == Init => IInv
  <1> SUFFICES ASSUME Init PROVE IInv
    OBVIOUS
  <1>1. TypeOK
    BY IdentityAssumption DEF Init, TypeOK, Steps, Terminal, Ids
  <1>2. RowsApart
    BY DEF Init, RowsApart, Linked
  <1>3. DraftsApart /\ TokensKnown
    BY DEF Init, DraftsApart, TokensKnown
  <1>4. \A r \in Requests : Located(r) /\ StillBarred(r)
    BY NoneAssumption DEF Init, Located, StillBarred, Ids
  <1> QED
    BY <1>1, <1>2, <1>3, <1>4 DEF IInv

\* What is true of a request stays true in a step of others that changes no
\* committed row.
LEMMA OthersKeep ==
    ASSUME IInv, NEW r \in Requests, users' = users,
           NEW o \in Requests, o # r,
           pc'[o] = pc[o], who'[o] = who[o], account'[o] = account[o],
           draft'[o] = draft[o], barred'[o] = barred[o]
    PROVE  Located(o)' /\ StillBarred(o)'
  BY DEF IInv, Located, StillBarred, Known, Drafted, Rows

\* The handler goes on, having read that the account is there and active.
LEMMA PassKeeps ==
    ASSUME IInv, NEW r \in Requests, NEW step, Pass(r, step),
           \/ At(r, "byGoogle") /\ step = "byEmail"
           \/ At(r, "byEmail") /\ step = "create"
           \/ /\ At(r, "refresh") \/ At(r, "authenticate")
              /\ step = "commit"
              /\ users[account[r]].active
    PROVE  IInv'
  <1> USE DEF Pass, Goto, At
  <1>1. TypeOK' BY DEF IInv, TypeOK, Steps, Terminal
  <1>2. RowsApart' /\ TokensKnown' BY DEF IInv, RowsApart, TokensKnown, Rows
  <1>3. DraftsApart'
    <2> SUFFICES ASSUME NEW o \in Requests, draft[o] # None
                 PROVE  DraftOf(o)' /\ pc'[o] \in {"touch", "commit"}
      BY DEF DraftsApart
    <2>1. DraftOf(o)' BY DEF IInv, DraftsApart, DraftOf, Rows
    <2>2. pc[o] \in {"touch", "commit"} BY DEF IInv, DraftsApart
    <2> QED BY <2>1, <2>2 DEF IInv, TypeOK
  <1>4. Located(r)' /\ StillBarred(r)'
    BY DEF IInv, TypeOK, Located, StillBarred, Known, Drafted, Rows
  <1>5. \A o \in Requests \ {r} : Located(o)' /\ StillBarred(o)'
    BY OthersKeep DEF IInv, TypeOK
  <1> QED BY <1>1, <1>2, <1>3, <1>4, <1>5 DEF IInv

LEMMA FailKeeps ==
    ASSUME IInv, NEW r \in Requests, Fail(r), ~At(r, "done")
    PROVE  IInv'
  <1> USE DEF Fail, Goto, At
  <1>1. TypeOK' BY DEF IInv, TypeOK, Steps, Terminal
  <1>2. RowsApart' /\ TokensKnown' BY DEF IInv, RowsApart, TokensKnown, Rows
  <1>3. DraftsApart'
    <2> SUFFICES ASSUME NEW o \in Requests, draft'[o] # None
                 PROVE  DraftOf(o)' /\ pc'[o] \in {"touch", "commit"}
      BY DEF DraftsApart
    <2>1. o # r /\ draft'[o] = draft[o] /\ pc'[o] = pc[o] BY DEF IInv, TypeOK
    <2>2. DraftOf(o)
      BY <2>1 DEF IInv, DraftsApart
    <2>3. \A p \in Requests : draft'[p] # None => draft'[p] = draft[p]
      BY DEF IInv, TypeOK
    <2>4. DraftOf(o)' BY <2>1, <2>2, <2>3 DEF DraftOf, Rows
    <2> QED BY <2>1, <2>4 DEF IInv, DraftsApart
  <1>4. Located(r)' /\ StillBarred(r)'
    BY DEF IInv, TypeOK, Located, StillBarred, Known, Drafted, Rows
  <1>5. \A o \in Requests \ {r} : Located(o)' /\ StillBarred(o)'
    BY OthersKeep DEF IInv, TypeOK
  <1> QED BY <1>1, <1>2, <1>3, <1>4, <1>5 DEF IInv

\* A row that r writes: its own, which is new, or one that is there and that
\* keeps its address and is_active.
LEMMA FlushKeeps ==
    ASSUME IInv, NEW r \in Requests, NEW row \in User,
           At(r, "insert") \/ At(r, "touch"),
           Flush(r, account[r], row),
           Linked(row), row.email = EmailOf[who[r]],
           IF users[account[r]] = None
           THEN account[r] = r /\ row.active
           ELSE /\ account[r] # r
                /\ row.email = users[account[r]].email
                /\ row.active = users[account[r]].active
    PROVE  IInv'
  <1> USE DEF At, Goto
  <1>1. CASE Refused(account[r], row)
    BY <1>1, FailKeeps DEF Flush
  <1>2. CASE ~Refused(account[r], row)
    <2> DEFINE flushed == [id |-> account[r], row |-> row]
    <2>1. /\ draft' = [draft EXCEPT ![r] = flushed]
          /\ pc' = [pc EXCEPT ![r] = IF At(r, "insert") THEN "touch" ELSE "commit"]
          /\ UNCHANGED <<users, who, account, linking, tokens, barred>>
          /\ ~Waits(r, account[r], row)
      BY <1>2 DEF Flush
    <2>2. account[r] \in Ids
      BY DEF IInv, Located, Known, Rows, Ids
    <2>3. flushed \in Draft /\ flushed # None
      BY <2>2, NoneAssumption DEF Draft
    <2>4. TypeOK' BY <2>1, <2>3 DEF IInv, TypeOK, Steps, Terminal
    <2>5. RowsApart' /\ TokensKnown' BY <2>1 DEF IInv, RowsApart, TokensKnown, Rows
    <2>6. draft'[r] = flushed /\ \A o \in Requests \ {r} : draft'[o] = draft[o]
      BY <2>1 DEF IInv, TypeOK
    <2>7. \A o \in Requests \ {r} : draft[o] # None =>
              draft[o].id # account[r] /\ ~Clash(draft[o].row, row)
      BY <2>1 DEF Waits
    <2>8. DraftOf(r)'
      <3>1. \A id \in Rows \ {account[r]} : ~Clash(users[id], row)
        BY <1>2 DEF Refused
      <3> QED BY <2>1, <2>6, <2>7, <3>1 DEF DraftOf, Rows
    <2>9. ASSUME NEW o \in Requests \ {r}, draft[o] # None PROVE DraftOf(o)'
      <3>1. DraftOf(o) BY <2>9 DEF IInv, DraftsApart
      <3>2. account[r] # draft[o].id /\ ~Clash(row, draft[o].row)
        BY <2>7, <2>9, ClashIsMutual
      <3> QED BY <2>1, <2>6, <3>1, <3>2 DEF DraftOf, Rows
    <2>10. DraftsApart'
      <3> SUFFICES ASSUME NEW o \in Requests, draft'[o] # None
                   PROVE  DraftOf(o)' /\ pc'[o] \in {"touch", "commit"}
        BY DEF DraftsApart
      <3>1. CASE o = r BY <2>1, <2>8, <3>1 DEF IInv, TypeOK
      <3>2. CASE o # r BY <2>1, <2>6, <2>9, <3>2 DEF IInv, TypeOK, DraftsApart
      <3> QED BY <3>1, <3>2
    <2>11. Located(r)'
      BY <2>1, <2>3, <2>6 DEF IInv, TypeOK, Located, Known, Drafted, Rows
    <2>12. StillBarred(r)'
      BY <2>1 DEF IInv, TypeOK, StillBarred, Rows
    <2>13. \A o \in Requests \ {r} : Located(o)' /\ StillBarred(o)'
      BY <2>1, <2>6, OthersKeep DEF IInv, TypeOK
    <2> QED BY <2>4, <2>5, <2>10, <2>11, <2>12, <2>13 DEF IInv
  <1> QED BY <1>1, <1>2

\* An account that is active and has the address of the client is taken.
LEMMA TakeKeeps ==
    ASSUME IInv, NEW r \in Requests, NEW id \in Rows, NEW link \in BOOLEAN,
           At(r, "byGoogle") \/ At(r, "byEmail"),
           users[id].email = EmailOf[who[r]], Take(r, id, link)
    PROVE  IInv'
  <1> USE DEF At, Goto
  <1>1. CASE users[id].active
    <2>1. /\ account' = [account EXCEPT ![r] = id]
          /\ linking' = [linking EXCEPT ![r] = link]
          /\ pc' = [pc EXCEPT ![r] = "touch"]
          /\ UNCHANGED <<users, draft, who, tokens, barred>>
      BY <1>1 DEF Take
    <2>2. TypeOK' BY <2>1 DEF IInv, TypeOK, Steps, Terminal, Rows
    <2>3. RowsApart' /\ TokensKnown' BY <2>1 DEF IInv, RowsApart, TokensKnown, Rows
    <2>4. draft[r] = None BY DEF IInv, DraftsApart
    <2>5. DraftsApart'
      <3> SUFFICES ASSUME NEW o \in Requests, draft[o] # None
                   PROVE  DraftOf(o)' /\ pc'[o] \in {"touch", "commit"}
        BY <2>1 DEF DraftsApart
      <3>1. o # r /\ DraftOf(o) BY <2>4 DEF IInv, DraftsApart
      <3>2. DraftOf(o)' BY <2>1, <3>1 DEF IInv, TypeOK, DraftOf, Rows
      <3> QED BY <2>1, <3>1, <3>2 DEF IInv, TypeOK, DraftsApart
    <2>6. id # r BY DEF IInv, Located, Rows
    <2>7. Located(r)'
      BY <2>1, <2>6 DEF IInv, TypeOK, Located, Known, Rows
    <2>8. StillBarred(r)' BY <1>1, <2>1 DEF IInv, TypeOK, StillBarred, Rows
    <2>9. \A o \in Requests \ {r} : Located(o)' /\ StillBarred(o)'
      BY <2>1, OthersKeep DEF IInv, TypeOK
    <2> QED BY <2>2, <2>3, <2>5, <2>7, <2>8, <2>9 DEF IInv
  <1>2. CASE ~users[id].active
    BY <1>2, FailKeeps DEF Take
  <1> QED BY <1>1, <1>2

LEMMA StartKeeps == ASSUME IInv, NEW r \in Requests, Start(r) PROVE IInv'
  <1> USE DEF At, Goto
  <1>1. /\ pc[r] = "idle"
        /\ barred' = [barred EXCEPT ![r] = {id \in Rows : ~users[id].active}]
        /\ UNCHANGED <<users, draft, linking, tokens>>
        /\ \A o \in Requests \ {r} :
              pc'[o] = pc[o] /\ who'[o] = who[o] /\ account'[o] = account[o]
    BY DEF Start, IInv, TypeOK
  <1>2. \/ pc' = [pc EXCEPT ![r] = "identify"] /\ UNCHANGED <<who, account>>
        \/ \E token \in tokens, step \in {"refresh", "authenticate"} :
              /\ who' = [who EXCEPT ![r] = token.to]
              /\ account' = [account EXCEPT ![r] = token.user]
              /\ pc' = [pc EXCEPT ![r] = step]
    BY DEF Start
  <1>3. TypeOK'
    <2>1. Rows \subseteq Ids BY DEF Rows
    <2>2. \A token \in tokens : token.to \in Identities /\ token.user \in Ids
      BY DEF IInv, TypeOK, Token
    <2>3. pc' \in [Requests -> Steps]
      BY <1>2 DEF IInv, TypeOK, Steps, Terminal
    <2>4. who' \in [Requests -> Identities \cup {None}]
          /\ account' \in [Requests -> Ids \cup {None}]
      BY <1>2, <2>2 DEF IInv, TypeOK
    <2>5. barred' \in [Requests -> SUBSET Ids]
      BY <1>1, <2>1 DEF IInv, TypeOK
    <2> QED BY <1>1, <2>3, <2>4, <2>5 DEF IInv, TypeOK
  <1>4. RowsApart' /\ TokensKnown' BY <1>1 DEF IInv, RowsApart, TokensKnown, Rows
  <1>5. draft[r] = None /\ users[r] = None
    BY <1>1 DEF IInv, DraftsApart, Located
  <1>6. DraftsApart'
    <2> SUFFICES ASSUME NEW o \in Requests, draft[o] # None
                 PROVE  DraftOf(o)' /\ pc'[o] \in {"touch", "commit"}
      BY <1>1 DEF DraftsApart
    <2>1. o # r /\ DraftOf(o) /\ account'[o] = account[o]
      BY <1>1, <1>5 DEF IInv, DraftsApart
    <2>2. DraftOf(o)' BY <1>1, <2>1 DEF DraftOf, Rows
    <2> QED BY <1>1, <2>1, <2>2 DEF IInv, DraftsApart
  <1>7. Located(r)' /\ StillBarred(r)'
    <2>1. StillBarred(r)'
      <3>1. barred'[r] = {id \in Rows : ~users[id].active}
        BY <1>1 DEF IInv, TypeOK
      <3>2. pc'[r] \in {"identify", "refresh", "authenticate"}
        BY <1>2 DEF IInv, TypeOK
      <3> QED BY <1>1, <3>1, <3>2 DEF StillBarred, Rows
    <2>2. CASE pc' = [pc EXCEPT ![r] = "identify"] /\ UNCHANGED <<who, account>>
      <3>1. pc'[r] = "identify" BY <2>2 DEF IInv, TypeOK
      <3>2. account[r] # r BY <1>1 DEF IInv, Located
      <3> QED BY <1>1, <1>5, <2>1, <2>2, <3>1, <3>2 DEF Located
    <2>3. CASE \E token \in tokens, step \in {"refresh", "authenticate"} :
                 /\ who' = [who EXCEPT ![r] = token.to]
                 /\ account' = [account EXCEPT ![r] = token.user]
                 /\ pc' = [pc EXCEPT ![r] = step]
      <3>1. PICK token \in tokens, step \in {"refresh", "authenticate"} :
                 /\ who' = [who EXCEPT ![r] = token.to]
                 /\ account' = [account EXCEPT ![r] = token.user]
                 /\ pc' = [pc EXCEPT ![r] = step]
        BY <2>3
      <3>2. who'[r] = token.to /\ account'[r] = token.user /\ pc'[r] = step
        BY <3>1 DEF IInv, TypeOK
      <3>3. token.to \in Identities /\ token.user \in Rows
            /\ users[token.user].email = EmailOf[token.to]
        BY DEF IInv, TypeOK, Token, TokensKnown
      <3>4. token.user # r BY <1>5, <3>3 DEF Rows
      <3> QED BY <1>1, <1>5, <2>1, <3>2, <3>3, <3>4 DEF Located, Known, Rows
    <2> QED BY <1>2, <2>2, <2>3
  <1>8. ASSUME NEW o \in Requests, o # r PROVE Located(o)' /\ StillBarred(o)'
    <2>1. draft'[o] = draft[o] /\ barred'[o] = barred[o] /\ users' = users
      BY <1>1, <1>8 DEF IInv, TypeOK
    <2> QED BY <1>1, <1>8, <2>1, OthersKeep
  <1> QED BY <1>3, <1>4, <1>6, <1>7, <1>8 DEF IInv

LEMMA IdentifyKeeps == ASSUME IInv, NEW r \in Requests, Identify(r) PROVE IInv'
  <1> USE DEF At, Goto
  <1>1. CASE Fail(r) BY <1>1, FailKeeps DEF Identify
  <1>2. ASSUME NEW identity \in Identities, who' = [who EXCEPT ![r] = identity],
               pc' = [pc EXCEPT ![r] = "byGoogle"],
               UNCHANGED <<users, draft, account, linking, tokens, barred>>
        PROVE  IInv'
    <2>1. pc[r] = "identify" BY DEF Identify
    <2>2. TypeOK' BY <1>2 DEF IInv, TypeOK, Steps, Terminal
    <2>3. RowsApart' /\ TokensKnown' BY <1>2 DEF IInv, RowsApart, TokensKnown, Rows
    <2>4. DraftsApart'
      <3> SUFFICES ASSUME NEW o \in Requests, draft[o] # None
                   PROVE  DraftOf(o)' /\ pc'[o] \in {"touch", "commit"}
        BY <1>2 DEF DraftsApart
      <3>1. o # r /\ DraftOf(o) BY <2>1 DEF IInv, DraftsApart
      <3>2. DraftOf(o)' BY <1>2, <3>1 DEF DraftOf, Rows
      <3> QED BY <1>2, <3>1, <3>2 DEF IInv, TypeOK, DraftsApart
    <2>5. Located(r)' /\ StillBarred(r)'
      BY <1>2, <2>1 DEF IInv, TypeOK, Located, StillBarred, Rows
    <2>6. \A o \in Requests \ {r} : Located(o)' /\ StillBarred(o)'
      BY <1>2, OthersKeep DEF IInv, TypeOK
    <2> QED BY <2>2, <2>3, <2>4, <2>5, <2>6 DEF IInv
  <1> QED BY <1>1, <1>2 DEF Identify

LEMMA FindKeeps ==
    ASSUME IInv, NEW r \in Requests, FindByGoogleId(r) \/ FindByEmail(r) PROVE IInv'
  <1> USE DEF At
  <1>1. CASE FindByGoogleId(r)
    <2>1. CASE Pass(r, "byEmail") BY <1>1, <2>1, PassKeeps DEF FindByGoogleId
    <2>2. ASSUME NEW id \in Rows, users[id].google = who[r], Take(r, id, FALSE)
          PROVE  IInv'
      <3>1. who[r] \in Identities BY <1>1 DEF FindByGoogleId, IInv, Located
      <3>2. users[id].email = EmailOf[who[r]]
        BY <2>2, <3>1, IdentityAssumption DEF IInv, RowsApart, Linked
      <3> QED BY <1>1, <2>2, <3>2, TakeKeeps DEF FindByGoogleId
    <2> QED BY <1>1, <2>1, <2>2 DEF FindByGoogleId
  <1>2. CASE FindByEmail(r)
    <2>1. CASE Pass(r, "create") BY <1>2, <2>1, PassKeeps DEF FindByEmail
    <2>2. ASSUME NEW id \in Rows, users[id].email = EmailOf[who[r]],
                 Take(r, id, TRUE)
          PROVE  IInv'
      BY <1>2, <2>2, TakeKeeps DEF FindByEmail
    <2> QED BY <1>2, <2>1, <2>2 DEF FindByEmail
  <1> QED BY <1>1, <1>2

LEMMA CheckAgainKeeps ==
    ASSUME IInv, NEW r \in Requests, CheckAgain(r) PROVE IInv'
  <1> USE DEF At, Goto
  <1>1. CASE Fail(r) BY <1>1, FailKeeps DEF CheckAgain
  <1>2. CASE /\ account' = [account EXCEPT ![r] = r]
             /\ pc' = [pc EXCEPT ![r] = "insert"]
             /\ UNCHANGED <<users, draft, who, linking, tokens, barred>>
    <2>1. pc[r] = "create" BY DEF CheckAgain
    <2>2. TypeOK' BY <1>2 DEF IInv, TypeOK, Steps, Terminal, Ids
    <2>3. RowsApart' /\ TokensKnown' BY <1>2 DEF IInv, RowsApart, TokensKnown, Rows
    <2>4. DraftsApart'
      <3> SUFFICES ASSUME NEW o \in Requests, draft[o] # None
                   PROVE  DraftOf(o)' /\ pc'[o] \in {"touch", "commit"}
        BY <1>2 DEF DraftsApart
      <3>1. o # r /\ DraftOf(o) BY <2>1 DEF IInv, DraftsApart
      <3>2. DraftOf(o)' BY <1>2, <3>1 DEF IInv, TypeOK, DraftOf, Rows
      <3> QED BY <1>2, <3>1, <3>2 DEF IInv, TypeOK, DraftsApart
    <2>5. Located(r)' /\ StillBarred(r)'
      BY <1>2, <2>1 DEF IInv, TypeOK, Located, StillBarred, Rows
    <2>6. \A o \in Requests \ {r} : Located(o)' /\ StillBarred(o)'
      BY <1>2, OthersKeep DEF IInv, TypeOK
    <2> QED BY <2>2, <2>3, <2>4, <2>5, <2>6 DEF IInv
  <1> QED BY <1>1, <1>2 DEF CheckAgain

LEMMA InsertKeeps ==
    ASSUME IInv, NEW r \in Requests, InsertUser(r) PROVE IInv'
  <1>1. /\ pc[r] = "insert" /\ account[r] = r /\ who[r] \in Identities
        /\ users[r] = None
    BY DEF InsertUser, At, IInv, Located
  <1>2. NewUser(r) \in User
    BY <1>1, IdentityAssumption DEF NewUser, User
  <1> QED BY <1>1, <1>2, FlushKeeps DEF InsertUser, At, NewUser, Linked

LEMMA TouchKeeps ==
    ASSUME IInv, NEW r \in Requests, UpdateLastLogin(r) PROVE IInv'
  <1>1. pc[r] = "touch" /\ who[r] \in Identities
    BY DEF UpdateLastLogin, At, IInv, Located
  <1>2. CASE account[r] = r
    <2>1. users[r] = None /\ Touched(r) = NewUser(r)
      BY <1>1, <1>2 DEF Touched, IInv, Located
    <2>2. NewUser(r) \in User BY <1>1, IdentityAssumption DEF NewUser, User
    <2> QED BY <1>1, <1>2, <2>1, <2>2, FlushKeeps
            DEF UpdateLastLogin, At, NewUser, Linked
  <1>3. CASE account[r] # r
    <2> DEFINE row == users[account[r]]
    <2>1. account[r] \in Rows /\ row.email = EmailOf[who[r]] /\ row # None
      BY <1>1, <1>3 DEF IInv, Located, Known, Rows
    <2>2. row \in User /\ Linked(row)
      BY <2>1 DEF IInv, TypeOK, Rows, RowsApart
    <2>3. CASE linking[r]
      <3>1. Touched(r) = [row EXCEPT !.google = who[r]] BY <1>3, <2>3 DEF Touched
      <3>2. /\ Touched(r) \in User /\ Touched(r).google = who[r]
            /\ Touched(r).email = row.email /\ Touched(r).active = row.active
        BY <1>1, <2>2, <3>1 DEF User
      <3> QED BY <1>1, <1>3, <2>1, <3>2, FlushKeeps
              DEF UpdateLastLogin, At, Linked
    <2>4. CASE ~linking[r]
      <3>1. Touched(r) = row BY <1>3, <2>4 DEF Touched
      <3> QED BY <1>1, <1>3, <2>1, <2>2, <3>1, FlushKeeps
              DEF UpdateLastLogin, At
    <2> QED BY <2>3, <2>4
  <1> QED BY <1>2, <1>3

LEMMA CommitKeeps ==
    ASSUME IInv, NEW r \in Requests, Commit(r) PROVE IInv'
  <1> USE DEF At, Goto
  <1> DEFINE token == [to |-> who[r], user |-> account[r]]
  <1>1. /\ pc[r] = "commit" /\ pc' = [pc EXCEPT ![r] = "done"]
        /\ users' = IF draft[r] = None THEN users
                    ELSE [users EXCEPT ![draft[r].id] = draft[r].row]
        /\ tokens' = tokens \cup {token}
        /\ draft' = [draft EXCEPT ![r] = None]
        /\ UNCHANGED <<who, account, linking, barred>>
    BY DEF Commit
  <1>2. draft[r] # None =>
          /\ draft[r].id \in Ids /\ draft[r].row \in User /\ draft[r].row # None
          /\ DraftOf(r)
    BY NoneAssumption DEF IInv, TypeOK, DraftsApart, Draft
  <1>3. /\ who[r] \in Identities
        /\ Drafted(r) \/ Known(r)
    BY <1>1 DEF IInv, Located
  \* What committed rows have become.
  <1>4. \A id \in Ids : users'[id] =
          IF draft[r] # None /\ id = draft[r].id THEN draft[r].row ELSE users[id]
    BY <1>1, <1>2 DEF IInv, TypeOK
  <1>5. \A id \in Rows : /\ id \in Rows' /\ users'[id].email = users[id].email
                         /\ users'[id].active = users[id].active
    BY <1>2, <1>4 DEF Rows, DraftOf
  <1>6. account[r] \in Rows' /\ users'[account[r]].email = EmailOf[who[r]]
    <2>1. CASE Known(r) BY <1>5, <2>1 DEF Known
    <2>2. CASE Drafted(r)
      <3>1. draft[r].id = account[r] BY <1>2, <2>2 DEF Drafted, DraftOf
      <3> QED BY <1>2, <1>4, <2>2, <3>1 DEF Drafted, Rows
    <2> QED BY <1>3, <2>1, <2>2
  <1>7. TypeOK'
    <2>1. account[r] \in Ids BY <1>6 DEF Rows
    <2>2. users' \in [Ids -> User \cup {None}] BY <1>1, <1>2 DEF IInv, TypeOK
    <2>3. token \in Token BY <1>3, <2>1 DEF Token
    <2>4. pc' \in [Requests -> Steps] /\ draft' \in [Requests -> Draft \cup {None}]
          /\ tokens' \in SUBSET Token
      BY <1>1, <2>3 DEF IInv, TypeOK, Steps, Terminal
    <2> QED BY <1>1, <2>2, <2>4 DEF IInv, TypeOK
  <1>8. RowsApart'
    <2>1. \A id \in Rows' : id \in Rows \/ (draft[r] # None /\ id = draft[r].id)
      BY <1>4 DEF Rows
    <2>2. \A id \in Rows' : Linked(users'[id])
      BY <1>2, <1>4, <2>1 DEF IInv, RowsApart, DraftOf, Rows
    <2>3. ASSUME NEW a \in Rows', NEW b \in Rows', a # b
          PROVE  ~Clash(users'[a], users'[b])
      <3>1. CASE draft[r] # None /\ a = draft[r].id
        <4>1. b \in Rows \ {draft[r].id} /\ users'[b] = users[b]
              /\ users'[a] = draft[r].row
          BY <1>4, <2>1, <2>3, <3>1 DEF Rows
        <4> QED BY <1>2, <3>1, <4>1, ClashIsMutual DEF DraftOf
      <3>2. CASE draft[r] # None /\ b = draft[r].id
        <4>1. a \in Rows \ {draft[r].id} /\ users'[a] = users[a]
              /\ users'[b] = draft[r].row
          BY <1>4, <2>1, <2>3, <3>2 DEF Rows
        <4> QED BY <1>2, <3>2, <4>1 DEF DraftOf
      <3>3. CASE draft[r] = None \/ (a # draft[r].id /\ b # draft[r].id)
        <4>1. a \in Rows /\ b \in Rows /\ users'[a] = users[a] /\ users'[b] = users[b]
          BY <1>4, <2>1, <3>3 DEF Rows
        <4> QED BY <2>3, <4>1 DEF IInv, RowsApart
      <3> QED BY <3>1, <3>2, <3>3
    <2> QED BY <2>2, <2>3 DEF RowsApart
  <1>9. DraftsApart'
    <2> SUFFICES ASSUME NEW o \in Requests, draft'[o] # None
                 PROVE  DraftOf(o)' /\ pc'[o] \in {"touch", "commit"}
      BY DEF DraftsApart
    <2>1. /\ o # r /\ draft'[o] = draft[o] /\ pc'[o] = pc[o]
          /\ DraftOf(o) /\ draft[o].id \in Ids
      BY <1>1 DEF IInv, TypeOK, DraftsApart, Draft
    <2>2. draft[r] # None => draft[o].id # draft[r].id
                             /\ ~Clash(draft[r].row, draft[o].row)
      BY <2>1, ClashIsMutual DEF DraftOf
    <2>3. users'[draft[o].id] = users[draft[o].id]
      BY <1>4, <2>1, <2>2
    <2>4. \A id \in Rows' \ {draft[o].id} : ~Clash(users'[id], draft[o].row)
      BY <1>4, <2>1, <2>2 DEF DraftOf, Rows
    <2>5. \A p \in Requests : draft'[p] # None => draft'[p] = draft[p]
      BY <1>1 DEF IInv, TypeOK
    <2>6. DraftOf(o)' BY <1>1, <2>1, <2>3, <2>4, <2>5 DEF DraftOf
    <2> QED BY <2>1, <2>6 DEF IInv, DraftsApart
  <1>10. TokensKnown'
    BY <1>1, <1>5, <1>6 DEF IInv, TokensKnown
  <1>11. ASSUME NEW o \in Requests PROVE Located(o)' /\ StillBarred(o)'
    <2>1. StillBarred(o)'
      BY <1>1, <1>5 DEF IInv, TypeOK, StillBarred
    <2>2. users'[o] # None => pc'[o] = "done"
      <3>1. o \in Ids BY DEF Ids
      <3>2. CASE draft[r] # None /\ o = draft[r].id
        <4>1. CASE users[o] = None BY <1>1, <1>2, <3>2, <4>1 DEF IInv, TypeOK, DraftOf
        <4>2. CASE users[o] # None BY <1>1, <4>2 DEF IInv, TypeOK, Located
        <4> QED BY <4>1, <4>2
      <3>3. CASE draft[r] = None \/ o # draft[r].id
        BY <1>1, <1>4, <3>1, <3>3 DEF IInv, TypeOK, Located
      <3> QED BY <3>2, <3>3
    <2>3. Known(o) => Known(o)' BY <1>1, <1>5 DEF Known
    <2>4. CASE o = r
      <3>1. pc'[o] = "done" BY <1>1, <2>4 DEF IInv, TypeOK
      <3> QED BY <2>1, <2>2, <3>1 DEF Located
    <2>5. CASE o # r
      <3>1. pc'[o] = pc[o] /\ draft'[o] = draft[o] BY <1>1, <2>5 DEF IInv, TypeOK
      <3>2. Drafted(o) => Drafted(o)' BY <1>1, <3>1 DEF Drafted
      <3> QED BY <1>1, <2>1, <2>2, <2>3, <3>1, <3>2 DEF IInv, Located
    <2> QED BY <2>4, <2>5
  <1> QED BY <1>7, <1>8, <1>9, <1>10, <1>11 DEF IInv

LEMMA DisableKeeps == ASSUME IInv, NEW id \in Ids, Disable(id) PROVE IInv'
  <1>1. /\ id \in Rows /\ users[id] \in User
        /\ users' = [users EXCEPT ![id].active = FALSE]
        /\ \A r \in Requests : draft[r] # None => draft[r].id # id
        /\ UNCHANGED <<draft, pc, who, account, linking, tokens, barred>>
    BY DEF Disable, IInv, TypeOK, Rows
  <1>2. /\ users'[id] \in User /\ users'[id] # None /\ ~users'[id].active
        /\ users'[id].email = users[id].email /\ users'[id].google = users[id].google
        /\ \A a \in Ids \ {id} : users'[a] = users[a]
        /\ users' \in [Ids -> User \cup {None}]
    BY <1>1, NoneAssumption DEF IInv, TypeOK, User
  <1>3. Rows' = Rows BY <1>1, <1>2 DEF Rows
  <1>4. \A a \in Rows : users'[a].email = users[a].email
                        /\ users'[a].google = users[a].google
    BY <1>2 DEF Rows
  <1>5. TypeOK' BY <1>1, <1>2 DEF IInv, TypeOK
  <1>6. RowsApart' BY <1>3, <1>4 DEF IInv, RowsApart, Linked, Clash
  <1>7. TokensKnown' BY <1>1, <1>3, <1>4 DEF IInv, TokensKnown
  <1>8. DraftsApart'
    <2> SUFFICES ASSUME NEW o \in Requests, draft[o] # None
                 PROVE  DraftOf(o)' /\ pc'[o] \in {"touch", "commit"}
      BY <1>1 DEF DraftsApart
    <2>1. DraftOf(o) /\ draft[o].id \in Ids \ {id} /\ pc[o] \in {"touch", "commit"}
      BY <1>1 DEF IInv, TypeOK, DraftsApart, Draft
    <2>2. \A a \in Rows \ {draft[o].id} : ~Clash(users'[a], draft[o].row)
      BY <1>4, <2>1 DEF DraftOf, Clash
    <2> QED BY <1>1, <1>2, <1>3, <2>1, <2>2 DEF DraftOf
  <1>9. ASSUME NEW r \in Requests PROVE Located(r)' /\ StillBarred(r)'
    <2>1. Known(r) => Known(r)' BY <1>1, <1>3, <1>4 DEF Known
    <2>2. users'[r] # None => users[r] # None BY <1>1, <1>2 DEF Rows, Ids
    <2>3. Located(r)' BY <1>1, <2>1, <2>2 DEF IInv, Located, Drafted
    <2>4. StillBarred(r)' BY <1>1, <1>2, <1>3 DEF IInv, StillBarred, Rows
    <2> QED BY <2>3, <2>4
  <1> QED BY <1>5, <1>6, <1>7, <1>8, <1>9 DEF IInv

LEMMA StepKeeps == IInv /\ [Next]_vars => IInv'
  <1> SUFFICES ASSUME IInv, [Next]_vars PROVE IInv'
    OBVIOUS
  <1>1. CASE UNCHANGED vars
    <2>1. TypeOK' /\ RowsApart' /\ TokensKnown'
      BY <1>1 DEF vars, IInv, TypeOK, RowsApart, TokensKnown, Rows
    <2>2. DraftsApart' BY <1>1 DEF vars, IInv, DraftsApart, DraftOf, Rows
    <2>3. \A r \in Requests : Located(r)' /\ StillBarred(r)'
      BY <1>1 DEF vars, IInv, Located, StillBarred, Known, Drafted, Rows
    <2> QED BY <2>1, <2>2, <2>3 DEF IInv
  <1>2. ASSUME NEW r \in Requests, Start(r) PROVE IInv' BY <1>2, StartKeeps
  <1>3. ASSUME NEW r \in Requests, Step(r) PROVE IInv'
    <2>1. CASE Identify(r) BY <2>1, IdentifyKeeps
    <2>2. CASE FindByGoogleId(r) \/ FindByEmail(r) BY <2>2, FindKeeps
    <2>3. CASE CheckAgain(r) BY <2>3, CheckAgainKeeps
    <2>4. CASE InsertUser(r) BY <2>4, InsertKeeps
    <2>5. CASE UpdateLastLogin(r) BY <2>5, TouchKeeps
    <2>6. CASE Refresh(r)
      BY <2>6, PassKeeps, FailKeeps DEF Refresh, At
    <2>7. CASE GetCurrentUser(r)
      BY <2>7, PassKeeps, FailKeeps DEF GetCurrentUser, At
    <2>8. CASE Commit(r) BY <2>8, CommitKeeps
    <2> QED BY <1>3, <2>1, <2>2, <2>3, <2>4, <2>5, <2>6, <2>7, <2>8 DEF Step
  <1>4. ASSUME NEW r \in Requests, Abort(r) PROVE IInv'
    BY <1>4, FailKeeps DEF Abort, Terminal, At
  <1>5. ASSUME NEW id \in Ids, Disable(id) PROVE IInv' BY <1>5, DisableKeeps
  <1> QED BY <1>1, <1>2, <1>3, <1>4, <1>5 DEF Next

LEMMA InvariantHolds == Spec => []IInv
  BY InitInvariant, StepKeeps, PTL DEF Spec

\* TypeOK: rows, drafts and steps of any number of requests.
THEOREM AccountsTypeCorrect == Spec => []TypeOK
  <1>1. IInv => TypeOK BY DEF IInv
  <1> QED BY <1>1, InvariantHolds, PTL

\* Any number of racing logins with Google make one account of an address, and
\* all their tokens name it (_handle_google_user and the unique indexes).
THEOREM LoginsShareTheAccount == Spec => []OneAccountPerAddress
  <1>1. IInv => OneAccountPerAddress
    <2> SUFFICES ASSUME IInv, NEW s \in tokens, NEW t \in tokens
                 PROVE  /\ users[t.user] # None
                        /\ EmailOf[s.to] = EmailOf[t.to] => s.user = t.user
      BY DEF OneAccountPerAddress
    <2> QED BY DEF IInv, TokensKnown, RowsApart, Rows, Clash
  <1> QED BY <1>1, InvariantHolds, PTL

\* No login, refresh or authenticated request that begins after an account was
\* disabled ends well in its name.
THEOREM DisabledAccountsStayOut == Spec => []DisabledStayOut
  <1>1. IInv => DisabledStayOut BY DEF IInv, StillBarred, DisabledStayOut, At
  <1> QED BY <1>1, InvariantHolds, PTL
============================================================================
