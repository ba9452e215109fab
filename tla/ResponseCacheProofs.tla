------------------------ MODULE ResponseCacheProofs ------------------------
(***************************************************************************)
(* What the cache promises, for any tasks, functions and tenants and any   *)
(* number of changes of what the functions read: a call's function returns *)
(* once, a removal that nobody was in the way of leaves nothing older than *)
(* itself, and values of tenants stay apart.                               *)
(*                                                                         *)
(* A removal deletes its keys one by one while calls go on storing.  What  *)
(* keeps it good to its end is said for every removal under way: a key is  *)
(* still on its list or holds nothing older, and what calls have read and  *)
(* may yet store is no older either (RemovalsSweep).                       *)
(***************************************************************************)
EXTENDS ResponseCache, TLAPS

Calling(c) == pc[c] \in {"get", "run", "set", "again"}

\* What a task does, and how often its function has returned, fits where it is.
Fits(c) ==
    /\ Calling(c) => job[c] \in Call
    /\ At(c, "remove") => job[c] \in Removal
    /\ pc[c] \in Terminal => job[c] \in Call \cup Removal \cup Scope
    /\ At(c, "idle") => job[c] = None
    /\ pc[c] \notin Terminal \cup {"set"} => runs[c] = 0
    /\ At(c, "set") => runs[c] = 1 /\ got[c] # None
    /\ pc[c] \in {"idle", "get", "remove", "raised"} => got[c] = None
    /\ At(c, "done") /\ got[c] # None => job[c] \in Call
TasksFit == \A c \in Clients : Fits(c)

\* What a function returned was computed from a version that is not older.
NotOlder(value, version) ==
    value = Nothing \/ (value \in Result /\ version <= value.version)
KeepsNoOlder(key, version) == entries[key] = None \/ NotOlder(entries[key], version)

\* What is stored and what is about to be, against the removals that ended.
StoredIsFresh == \A f \in Functions : KeepsNoOlder(MakeKey(f), floor[f])
HeldIsFresh ==
    \A c \in Clients : Holds(c) => NotOlder(got[c], floor[job[c].function])
\* What is not to be stored is answered all the same.
AgainIsFresh ==
    \A c \in Clients : At(c, "again") /\ got[c] # None =>
        NotOlder(got[c], job[c].since[job[c].function])
FloorsRise ==
    /\ \A f \in Functions : floor[f] <= data
    /\ \A c \in Clients : Calling(c) => job[c].since[job[c].function] <= floor[job[c].function]
    /\ \A c \in Clients : At(c, "remove") => job[c].since <= data

\* The same against a removal under way.
Sweeps(d) ==
    /\ \A f \in Functions : Prefix[f] = job[d].prefix =>
         MakeKey(f) \in job[d].todo \/ KeepsNoOlder(MakeKey(f), job[d].since)
    /\ \A c \in Clients : Holds(c) /\ Prefix[job[c].function] = job[d].prefix =>
         NotOlder(got[c], job[d].since)
RemovalsSweep == \A d \in Clients : At(d, "remove") /\ job[d].quiet => Sweeps(d)
AnswersAreResults ==
    \A c \in Clients : Answered(c) => reply[c] \in Result \cup {Nothing}

\* A key of a tenant keeps what was stored for it.
ScopesAreApart == \A s \in Scoped : entries[KeyFor(s)] \in {None, Nothing, s}

IInv ==
    /\ TypeOK /\ TasksFit /\ WorkDoneOnce
    /\ StoredIsFresh /\ HeldIsFresh /\ AgainIsFresh /\ FloorsRise /\ RemovalsSweep
    /\ AnswersAreResults /\ FreshAfterRemoval
    /\ ScopesAreApart /\ TenantsApart

----------------------------------------------------------------------------
(* How often functions run.                                                *)

WInv == TypeOK /\ TasksFit /\ WorkDoneOnce

DoneOnce(c) == runs[c] <= 1 /\ (Answered(c) /\ runs[c] = 0 => reply[c] # Nothing)

\* A step of c changes nothing of the others.
Alone(c) ==
    \A o \in Clients \ {c} :
        /\ pc'[o] = pc[o] /\ job'[o] = job[o] /\ got'[o] = got[o]
        /\ runs'[o] = runs[o] /\ reply'[o] = reply[o]

LEMMA OneMoves ==
    ASSUME WInv, NEW c \in Clients, Alone(c), TypeOK', Fits(c)', DoneOnce(c)'
    PROVE  WInv'
<1>1. TasksFit'
  BY DEF WInv, TasksFit, Fits, Alone, Calling, At
<1>2. WorkDoneOnce'
  BY DEF WInv, WorkDoneOnce, DoneOnce, Answered, Alone, At
<1>. QED  BY <1>1, <1>2 DEF WInv

\* The keys, and what is stored under them.
LEMMA KeysOfFunctions ==
    /\ \A f \in Functions : MakeKey(f) \in Keys /\ MakeKey(f) \in FunctionKeys
    /\ \A s \in Scoped : KeyFor(s) \in Keys
BY DEF Keys, FunctionKeys

LEMMA BeginCallFits == ASSUME WInv, NEW c \in Clients, BeginCall(c) PROVE WInv' /\ Alone(c)
<1>. USE DEF WInv
<1>1. PICK f \in Functions, arg \in Args :
        job' = [job EXCEPT ![c] = [does |-> "call", function |-> f, arg |-> arg, since |-> floor]]
  BY DEF BeginCall
<1>2. /\ At(c, "idle") /\ pc' = [pc EXCEPT ![c] = pc'[c]] /\ pc'[c] \in {"get", "again"}
      /\ UNCHANGED <<initialized, data, entries, got, runs, reply, floor>>
  BY DEF BeginCall, Goto, TypeOK
<1>3. job'[c] \in Call
  BY <1>1 DEF TypeOK, Call
<1>4. TypeOK'
  BY <1>1, <1>2, <1>3 DEF TypeOK
<1>5. Alone(c)
  BY <1>1, <1>2 DEF TypeOK, Alone
<1>6. Fits(c)' /\ DoneOnce(c)'
  BY <1>2, <1>3 DEF TasksFit, Fits, Calling, At, Terminal, DoneOnce, Answered
<1>. QED  BY <1>4, <1>5, <1>6, OneMoves

LEMMA GetFits == ASSUME WInv, NEW c \in Clients, Get(c) PROVE WInv' /\ Alone(c)
<1>. USE DEF WInv
<1>1. At(c, "get") /\ job[c] \in Call /\ runs[c] = 0
  BY DEF Get, TasksFit, Fits, Calling, At, Terminal
<1>2. UNCHANGED <<initialized, data, entries, job, got, runs, floor>>
  BY DEF Get
<1>3. entries[MakeKey(job[c].function)] \in Value \cup {None}
  BY <1>1, KeysOfFunctions DEF TypeOK, Call
<1>4. CASE /\ entries[MakeKey(job[c].function)] \notin {None, Nothing}
           /\ Return(c, entries[MakeKey(job[c].function)])
  <2>1. TypeOK'
    BY <1>2, <1>3, <1>4 DEF TypeOK, Return, Goto, Terminal
  <2>2. Alone(c)
    BY <1>2, <1>4 DEF TypeOK, Alone, Return, Goto
  <2>3. pc'[c] = "done" /\ reply'[c] # Nothing
    BY <1>4 DEF TypeOK, Return, Goto
  <2>4. Fits(c)' /\ DoneOnce(c)'
    BY <1>1, <1>2, <2>3 DEF Fits, Calling, At, Terminal, DoneOnce
  <2>. QED  BY <2>1, <2>2, <2>4, OneMoves
<1>5. CASE Goto(c, "run") /\ UNCHANGED reply
  <2>1. TypeOK'
    BY <1>2, <1>5 DEF TypeOK, Goto
  <2>2. Alone(c) /\ pc'[c] = "run"
    BY <1>2, <1>5 DEF TypeOK, Alone, Goto
  <2>3. Fits(c)' /\ DoneOnce(c)'
    BY <1>1, <1>2, <2>2 DEF Fits, Calling, At, Terminal, DoneOnce, Answered
  <2>. QED  BY <2>1, <2>2, <2>3, OneMoves
<1>. QED  BY <1>4, <1>5 DEF Get

\* What a function computes.
LEMMA ReadsValue ==
    ASSUME WInv, NEW c \in Clients, Read(c)
    PROVE  /\ At(c, "run") \/ At(c, "again")
           /\ Calling(c) /\ job[c] \in Call /\ got[c] = None /\ runs[c] = 0
           /\ UNCHANGED <<initialized, data, entries, pc, job, runs, reply, floor>>
           /\ \E value \in Result \cup {Nothing} :
                /\ value # None => got'[c] = value
                /\ got' = [got EXCEPT ![c] = value]
                /\ value = Nothing \/ (value \in Result /\ value.version = data)
<1>1. /\ At(c, "run") \/ At(c, "again")
      /\ Calling(c) /\ job[c] \in Call /\ got[c] = None /\ runs[c] = 0
  BY DEF Read, WInv, TasksFit, Fits, Calling, At, Terminal
<1>2. UNCHANGED <<initialized, data, entries, pc, job, runs, reply, floor>>
  BY DEF Read
<1>3. PICK value \in Value :
        /\ \/ value = Nothing
           \/ value = [of |-> job[c].function, arg |-> job[c].arg, version |-> data]
        /\ got' = [got EXCEPT ![c] = value]
  BY DEF Read
<1>4. value = Nothing \/ (value \in Result /\ value.version = data)
  BY <1>1, <1>3 DEF WInv, TypeOK, Call, Result
<1>5. got'[c] = value
  BY <1>3 DEF WInv, TypeOK
<1>. QED  BY <1>1, <1>2, <1>3, <1>4, <1>5

LEMMA ReadFits == ASSUME WInv, NEW c \in Clients, Read(c) PROVE WInv' /\ Alone(c)
<1>. USE DEF WInv
<1>1. /\ At(c, "run") \/ At(c, "again")
      /\ UNCHANGED <<initialized, data, entries, pc, job, runs, reply, floor>>
      /\ runs[c] = 0 /\ job[c] \in Call
  BY ReadsValue
<1>2. \E value \in Value : got' = [got EXCEPT ![c] = value]
  BY ReadsValue DEF Value
<1>3. TypeOK'
  BY <1>1, <1>2 DEF TypeOK
<1>4. Alone(c)
  BY <1>1, <1>2 DEF TypeOK, Alone
<1>5. Fits(c)' /\ DoneOnce(c)'
  BY <1>1 DEF Fits, Calling, At, Terminal, DoneOnce, Answered
<1>. QED  BY <1>3, <1>4, <1>5, OneMoves

LEMMA RunFits == ASSUME WInv, NEW c \in Clients, Run(c) PROVE WInv' /\ Alone(c)
<1>. USE DEF WInv
<1>1. /\ At(c, "run") /\ Calling(c) /\ job[c] \in Call /\ runs[c] = 0
      /\ UNCHANGED <<initialized, data, entries, job, reply, floor>>
  BY DEF Run, TasksFit, Fits, Calling, At, Terminal
<1>2. CASE Returns(c) /\ Goto(c, "set") /\ UNCHANGED got
  <2>1. runs' = [runs EXCEPT ![c] = 1] /\ got[c] # None
    BY <1>1, <1>2 DEF Returns
  <2>2. TypeOK'
    BY <1>1, <1>2, <2>1 DEF TypeOK, Goto
  <2>3. Alone(c) /\ pc'[c] = "set" /\ runs'[c] = 1
    BY <1>1, <1>2, <2>1 DEF TypeOK, Alone, Goto
  <2>4. Fits(c)' /\ DoneOnce(c)'
    BY <1>1, <1>2, <2>1, <2>3 DEF Fits, Calling, At, Terminal, DoneOnce, Answered
  <2>. QED  BY <2>2, <2>3, <2>4, OneMoves
<1>3. CASE /\ Goto(c, IF Fallback[job[c].function] THEN "again" ELSE "raised")
           /\ Forget(c) /\ UNCHANGED runs
  <2>1. TypeOK'
    BY <1>1, <1>3 DEF TypeOK, Goto, Terminal, Forget
  <2>2. Alone(c) /\ pc'[c] \in {"again", "raised"} /\ got'[c] = None
    BY <1>1, <1>3 DEF TypeOK, Alone, Goto, Forget
  <2>3. Fits(c)' /\ DoneOnce(c)'
    BY <1>1, <1>3, <2>2 DEF Fits, Calling, At, Terminal, DoneOnce, Answered
  <2>. QED  BY <2>1, <2>2, <2>3, OneMoves
<1>. QED  BY <1>2, <1>3 DEF Run

\* What is held is stored, or it is not, and then it may still be held.
LEMMA StoresHeld ==
    ASSUME WInv, NEW c \in Clients, Set(c) \/ RedisIsLate(c)
    PROVE  /\ Holds(c) /\ job[c] \in Call
           /\ UNCHANGED <<initialized, data, job, runs, floor>>
           /\ \/ entries' = [entries EXCEPT ![MakeKey(job[c].function)] = got[c]]
              \/ entries' = entries
           /\ got' \in {got, [got EXCEPT ![c] = None]}
<1>1. Holds(c)
  BY DEF Set, RedisIsLate, Holds, At, WInv, TasksFit, Fits
<1>2. job[c] \in Call
  BY DEF Set, RedisIsLate, At, WInv, TasksFit, Fits, Calling
<1>3. /\ UNCHANGED <<initialized, data, job, runs, floor>>
      /\ \/ entries' = [entries EXCEPT ![MakeKey(job[c].function)] = got[c]]
         \/ entries' = entries
  BY DEF Set, RedisIsLate, Store
<1>4. got' \in {got, [got EXCEPT ![c] = None]}
  BY DEF Set, RedisIsLate, Forget
<1>. QED  BY <1>1, <1>2, <1>3, <1>4

LEMMA StoringFits ==
    ASSUME WInv, NEW c \in Clients, Set(c) \/ RedisIsLate(c) PROVE WInv' /\ Alone(c)
<1>. USE DEF WInv
<1>1. /\ job[c] \in Call /\ got' \in {got, [got EXCEPT ![c] = None]}
      /\ UNCHANGED <<initialized, data, job, runs, floor>>
  BY StoresHeld
<1>2. entries' \in [Keys -> Value \cup {None}]
  <2>1. got[c] \in Value \cup {None}
    BY DEF TypeOK
  <2>. QED  BY <2>1, StoresHeld DEF TypeOK
<1>3. CASE Set(c)
  <2>1. Return(c, got[c]) /\ runs[c] = 1
    BY <1>3 DEF Set, TasksFit, Fits
  <2>2. TypeOK'
    BY <1>1, <1>2, <2>1 DEF TypeOK, Return, Goto, Terminal
  <2>3. Alone(c) /\ pc'[c] = "done"
    BY <1>1, <2>1 DEF TypeOK, Alone, Return, Goto
  <2>4. Fits(c)' /\ DoneOnce(c)'
    BY <1>1, <2>1, <2>3 DEF Fits, Calling, At, Terminal, DoneOnce
  <2>. QED  BY <2>2, <2>3, <2>4, OneMoves
<1>4. CASE RedisIsLate(c)
  <2>1. At(c, "done") /\ UNCHANGED <<pc, reply>>
    BY <1>4 DEF RedisIsLate
  <2>2. TypeOK'
    BY <1>1, <1>2, <2>1 DEF TypeOK
  <2>3. Alone(c)
    BY <1>1, <2>1 DEF TypeOK, Alone
  <2>4. Fits(c)' /\ DoneOnce(c)'
    BY <1>1, <2>1 DEF TasksFit, Fits, Calling, At, Terminal, DoneOnce, WorkDoneOnce, Answered
  <2>. QED  BY <2>2, <2>3, <2>4, OneMoves
<1>. QED  BY <1>3, <1>4

LEMMA RunUncachedFits == ASSUME WInv, NEW c \in Clients, RunUncached(c) PROVE WInv' /\ Alone(c)
<1>. USE DEF WInv
<1>1. /\ At(c, "again") /\ Calling(c) /\ job[c] \in Call /\ runs[c] = 0 /\ Forget(c)
      /\ UNCHANGED <<initialized, data, entries, job, floor>>
  BY DEF RunUncached, TasksFit, Fits, Calling, At, Terminal
<1>2. CASE Returns(c) /\ Return(c, got[c])
  <2>1. runs' = [runs EXCEPT ![c] = 1] /\ got[c] \in Value \cup {None}
    BY <1>1, <1>2 DEF Returns, TypeOK
  <2>2. TypeOK'
    BY <1>1, <1>2, <2>1 DEF TypeOK, Return, Goto, Terminal, Forget
  <2>3. Alone(c) /\ pc'[c] = "done" /\ runs'[c] = 1 /\ got'[c] = None
    BY <1>1, <1>2, <2>1 DEF TypeOK, Alone, Return, Goto, Forget
  <2>4. Fits(c)' /\ DoneOnce(c)'
    BY <1>1, <2>3 DEF Fits, Calling, At, Terminal, DoneOnce
  <2>. QED  BY <2>2, <2>3, <2>4, OneMoves
<1>3. CASE Goto(c, "raised") /\ UNCHANGED <<runs, reply>>
  <2>1. TypeOK'
    BY <1>1, <1>3 DEF TypeOK, Goto, Terminal, Forget
  <2>2. Alone(c) /\ pc'[c] = "raised" /\ got'[c] = None
    BY <1>1, <1>3 DEF TypeOK, Alone, Goto, Forget
  <2>3. Fits(c)' /\ DoneOnce(c)'
    BY <1>1, <1>3, <2>2 DEF Fits, Calling, At, Terminal, DoneOnce, Answered
  <2>. QED  BY <2>1, <2>2, <2>3, OneMoves
<1>. QED  BY <1>2, <1>3 DEF RunUncached

LEMMA BeginRemoveFits == ASSUME WInv, NEW c \in Clients, BeginRemove(c) PROVE WInv' /\ Alone(c)
<1>. USE DEF WInv
<1>1. PICK prefix \in {Prefix[f] : f \in Functions}, quiet \in BOOLEAN :
        job' = [job EXCEPT ![c] = [does |-> "remove", prefix |-> prefix, todo |-> Stored(prefix),
                                   since |-> data, quiet |-> quiet]]
  BY DEF BeginRemove
<1>2. /\ At(c, "idle") /\ runs[c] = 0 /\ got[c] = None
      /\ UNCHANGED <<initialized, data, entries, got, runs, reply, floor>>
  BY DEF BeginRemove, TasksFit, Fits, At, Terminal
<1>3. pc' = [pc EXCEPT ![c] = "remove"] /\ pc'[c] = "remove"
  BY DEF BeginRemove, Goto, TypeOK
<1>4. job'[c] \in Removal
  <2>1. Stored(prefix) \in SUBSET FunctionKeys
    BY DEF Stored
  <2>. QED  BY <1>1, <2>1 DEF TypeOK, Removal
<1>5. TypeOK'
  BY <1>1, <1>2, <1>3, <1>4 DEF TypeOK
<1>6. Alone(c)
  BY <1>1, <1>2, <1>3 DEF TypeOK, Alone
<1>7. Fits(c)' /\ DoneOnce(c)'
  BY <1>2, <1>3, <1>4 DEF Fits, Calling, At, Terminal, DoneOnce, Answered
<1>. QED  BY <1>5, <1>6, <1>7, OneMoves

LEMMA DeleteNextFits == ASSUME WInv, NEW c \in Clients, DeleteNext(c) PROVE WInv' /\ Alone(c)
<1>. USE DEF WInv
<1>1. /\ At(c, "remove") /\ runs[c] = 0 /\ got[c] = None /\ job[c] \in Removal
      /\ UNCHANGED <<initialized, data, pc, got, runs, reply, floor>>
  BY DEF DeleteNext, TasksFit, Fits, At, Terminal
<1>2. PICK k \in job[c].todo \cup Stored(job[c].prefix) :
        /\ entries' = [entries EXCEPT ![k] = None]
        /\ job' = [job EXCEPT ![c].todo = @ \ {k}]
  BY DEF DeleteNext, Store
<1>3. job'[c] \in Removal
  BY <1>1, <1>2 DEF TypeOK, Removal
<1>4. TypeOK'
  BY <1>1, <1>2, <1>3 DEF TypeOK
<1>5. Alone(c)
  BY <1>1, <1>2 DEF TypeOK, Alone
<1>6. Fits(c)' /\ DoneOnce(c)'
  BY <1>1, <1>3 DEF Fits, Calling, At, Terminal, DoneOnce, Answered
<1>. QED  BY <1>4, <1>5, <1>6, OneMoves

LEMMA EndRemoveFits ==
    ASSUME WInv, NEW c \in Clients, FinishRemove(c) \/ FailRemove(c)
    PROVE  WInv' /\ Alone(c)
<1>. USE DEF WInv
<1>1. /\ At(c, "remove") /\ runs[c] = 0 /\ got[c] = None /\ job[c] \in Removal /\ job[c].does = "remove"
      /\ UNCHANGED <<initialized, data, entries, job, got, runs>>
  BY DEF FinishRemove, FailRemove, TasksFit, Fits, At, Terminal, Removal
<1>2. /\ pc' = [pc EXCEPT ![c] = pc'[c]] /\ pc'[c] \in {"done", "raised"}
      /\ reply' \in {reply, [reply EXCEPT ![c] = None]}
  BY DEF FinishRemove, FailRemove, Return, Goto, TypeOK
<1>3. floor' \in [Functions -> 0 .. MaxVersion]
  BY <1>1 DEF FinishRemove, FailRemove, TypeOK, Removal
<1>4. TypeOK'
  BY <1>1, <1>2, <1>3 DEF TypeOK, Terminal
<1>5. Alone(c)
  BY <1>1, <1>2 DEF TypeOK, Alone
<1>6. Fits(c)' /\ DoneOnce(c)'
  BY <1>1, <1>2 DEF Fits, Calling, At, Terminal, DoneOnce, Answered
<1>. QED  BY <1>4, <1>5, <1>6, OneMoves

LEMMA TenantFits ==
    ASSUME WInv, NEW c \in Clients, NEW scope \in Scoped, TenantStep(c, scope)
    PROVE  /\ WInv' /\ Alone(c) /\ data' = data /\ floor' = floor
           /\ At(c, "idle") /\ pc'[c] = "done" /\ job'[c] \in Scope /\ job'[c].scope = scope
           /\ entries' \in {entries, [entries EXCEPT ![KeyFor(scope)] = scope],
                            [entries EXCEPT ![KeyFor(scope)] = Nothing]}
           /\ job'[c].does = "get" => reply'[c] \in {None, entries[KeyFor(scope)]}
<1>. USE DEF WInv
<1>1. \E does \in {"get", "set", "delete", "invalidate"} : Begins(c, does, scope)
  BY DEF TenantStep, GetTenantScoped, SetTenantScoped, DeleteTenantScoped, Invalidate
<1>2. PICK does \in {"get", "set", "delete", "invalidate"} :
        job' = [job EXCEPT ![c] = [does |-> does, scope |-> scope]]
  BY <1>1 DEF Begins
<1>3. /\ At(c, "idle") /\ runs[c] = 0 /\ got[c] = None /\ UNCHANGED <<initialized, data, got, runs, floor>>
  BY <1>1 DEF Begins, TasksFit, Fits, At, Terminal
<1>4. /\ job'[c] \in Scope /\ job'[c].does = does /\ job'[c].scope = scope
      /\ job'[c].does # "call"
  BY <1>2 DEF TypeOK, Scope
<1>5. entries' \in {entries, [entries EXCEPT ![KeyFor(scope)] = scope],
                    [entries EXCEPT ![KeyFor(scope)] = Nothing]}
  BY DEF TenantStep, GetTenantScoped, SetTenantScoped, DeleteTenantScoped, Invalidate, Store
<1>6. PICK value \in Value \cup Outcome \cup {None} : Return(c, value)
  <2>1. entries[KeyFor(scope)] \in Value \cup {None}
    BY KeysOfFunctions DEF TypeOK
  <2>2. Said(TRUE) \in Outcome /\ Said(FALSE) \in Outcome /\ Said(None) \in Outcome
        /\ [count |-> 0] \in Outcome
    BY DEF Said, Outcome
  <2>. QED
    BY <2>1, <2>2 DEF TenantStep, GetTenantScoped, SetTenantScoped, DeleteTenantScoped, Invalidate
<1>7. entries' \in [Keys -> Value \cup {None}]
  <2>1. scope \in Value /\ Nothing \in Value
    BY DEF Value
  <2>. QED  BY <1>5, <2>1 DEF TypeOK
<1>8. TypeOK'
  BY <1>2, <1>3, <1>4, <1>6, <1>7 DEF TypeOK, Return, Goto, Terminal
<1>9. Alone(c) /\ pc'[c] = "done"
  BY <1>2, <1>3, <1>6 DEF TypeOK, Alone, Return, Goto
<1>10. Fits(c)' /\ DoneOnce(c)'
  BY <1>3, <1>4, <1>9 DEF Fits, Calling, At, Terminal, DoneOnce, Answered
<1>11. WInv'
  BY <1>8, <1>9, <1>10, OneMoves
<1>12. job'[c].does = "get" => reply'[c] \in {None, entries[KeyFor(scope)]}
  <2>1. ASSUME GetTenantScoped(c, scope) PROVE reply'[c] \in {None, entries[KeyFor(scope)]}
    BY <2>1 DEF GetTenantScoped, Return, TypeOK
  <2>2. ASSUME NEW other \in {"set", "delete", "invalidate"}, Begins(c, other, scope)
        PROVE  job'[c].does # "get"
    BY <2>2 DEF Begins, TypeOK
  <2>. QED
    BY <2>1, <2>2 DEF TenantStep, SetTenantScoped, DeleteTenantScoped, Invalidate
<1>. QED  BY <1>3, <1>4, <1>5, <1>9, <1>11, <1>12

LEMMA RedisAndDataFit == ASSUME WInv, Expire \/ Write \/ UNCHANGED vars PROVE WInv'
<1>. USE DEF WInv
<1>1. UNCHANGED <<initialized, pc, job, got, runs, reply, floor>>
  BY DEF Expire, Write, vars
<1>2. data' \in 0 .. MaxVersion
  BY VersionAssumption DEF Expire, Write, vars, TypeOK
<1>3. entries' \in [Keys -> Value \cup {None}]
  BY DEF Expire, Write, vars, TypeOK, Store
<1>4. TypeOK'
  BY <1>1, <1>2, <1>3 DEF TypeOK
<1>5. TasksFit' /\ WorkDoneOnce'
  BY <1>1 DEF TasksFit, Fits, Calling, At, WorkDoneOnce, Answered
<1>. QED  BY <1>4, <1>5

LEMMA WorkKeeps == ASSUME WInv, [Next]_vars PROVE WInv'
BY BeginCallFits, GetFits, ReadFits, RunFits, StoringFits, RunUncachedFits, BeginRemoveFits,
   DeleteNextFits, EndRemoveFits, TenantFits, RedisAndDataFit DEF Next, CallStep, RemoveStep

----------------------------------------------------------------------------
(* Keys.                                                                   *)

LEMMA FunctionKeysApart ==
    /\ \A f, g \in Functions : MakeKey(f) = MakeKey(g) => f = g
    /\ \A f \in Functions : \A prefix : Under(prefix, MakeKey(f)) <=> Prefix[f] = prefix
BY DEF MakeKey, Under

\* The key of a value of a tenant, part by part.
LEMMA KeyParts ==
    ASSUME NEW s \in Scoped
    PROVE  /\ KeyFor(s)[1] = s.base[1] /\ KeyFor(s)[2] = "tenant" /\ KeyFor(s)[3] = s.tenant
           /\ Len(KeyFor(s)) = IF s.user = None THEN 3 ELSE 5
           /\ s.user # None => KeyFor(s)[4] = "user" /\ KeyFor(s)[5] = s.user
<1>1. s.base = <<s.base[1]>> /\ s.tenant # None
  BY BaseAssumption, IdAssumption DEF Scoped
<1>2. KeyFor(s) = <<s.base[1]>> \o <<"tenant", s.tenant>> \o Tagged("user", s.user)
  BY <1>1 DEF KeyFor, MakeTenantKey, Tagged
<1>3. CASE s.user = None
  <2>1. KeyFor(s) = <<s.base[1]>> \o <<"tenant", s.tenant>> \o <<>>
    BY <1>2, <1>3 DEF Tagged
  <2>. QED  BY <1>3, <2>1
<1>4. CASE s.user # None
  <2>1. KeyFor(s) = <<s.base[1]>> \o <<"tenant", s.tenant>> \o <<"user", s.user>>
    BY <1>2, <1>4 DEF Tagged
  <2>. QED  BY <1>4, <2>1
<1>. QED  BY <1>3, <1>4

LEMMA TenantKeysApart ==
    /\ \A s \in Scoped : \A f \in Functions : KeyFor(s) # MakeKey(f)
    /\ \A s, t \in Scoped : KeyFor(s) = KeyFor(t) => s = t
<1>1. ASSUME NEW s \in Scoped, NEW f \in Functions PROVE KeyFor(s) # MakeKey(f)
  <2>1. KeyFor(s)[2] = "tenant"
    BY KeyParts
  <2>2. MakeKey(f)[2] = ""
    BY DEF MakeKey
  <2>. QED  BY <2>1, <2>2
<1>2. ASSUME NEW s \in Scoped, NEW t \in Scoped, KeyFor(s) = KeyFor(t) PROVE s = t
  <2>1. s.base[1] = t.base[1] /\ s.tenant = t.tenant
    BY <1>2, KeyParts
  <2>2. s.user = t.user
    <3>1. Len(KeyFor(s)) = (IF s.user = None THEN 3 ELSE 5)
      BY KeyParts
    <3>2. Len(KeyFor(t)) = (IF t.user = None THEN 3 ELSE 5)
      BY KeyParts
    <3>3. s.user # None => KeyFor(s)[5] = s.user
      BY KeyParts
    <3>4. t.user # None => KeyFor(t)[5] = t.user
      BY KeyParts
    <3>. QED  BY <1>2, <3>1, <3>2, <3>3, <3>4
  <2>3. s.base = t.base
    BY <2>1, BaseAssumption DEF Scoped
  <2>. QED  BY <2>1, <2>2, <2>3 DEF Scoped
<1>. QED  BY <1>1, <1>2

----------------------------------------------------------------------------
(* What removals leave.                                                    *)

FInv ==
    /\ WInv /\ StoredIsFresh /\ HeldIsFresh /\ AgainIsFresh /\ FloorsRise /\ RemovalsSweep
    /\ AnswersAreResults /\ FreshAfterRemoval
Fresh ==
    /\ StoredIsFresh /\ HeldIsFresh /\ AgainIsFresh /\ FloorsRise /\ RemovalsSweep
    /\ AnswersAreResults /\ FreshAfterRemoval

\* Entries are as they were or gone.
EntriesGo ==
    \A f \in Functions : entries'[MakeKey(f)] \in {entries[MakeKey(f)], None}

\* Numbers that are compared.
LEMMA Versions ==
    ASSUME WInv
    PROVE  /\ data \in 0 .. MaxVersion /\ \A f \in Functions : floor[f] \in 0 .. MaxVersion
           /\ \A c \in Clients : Calling(c) => /\ job[c].function \in Functions
                                               /\ job[c].since \in [Functions -> 0 .. MaxVersion]
           /\ \A c \in Clients : Holds(c) => /\ job[c] \in Call /\ job[c].function \in Functions
                                            /\ pc[c] \in {"run", "set", "done"}
           /\ \A c \in Clients : At(c, "remove") => /\ job[c].since \in 0 .. MaxVersion
                                                    /\ job[c].todo \in SUBSET FunctionKeys
           /\ \A c \in Clients : Answered(c) => job[c] \in Call
           /\ \A r \in Result : r.version \in 0 .. MaxVersion
           /\ Nothing \notin Result \/ None \in Functions
BY DEF WInv, TypeOK, TasksFit, Fits, Calling, At, Call, Removal, Result, Answered, Terminal, Scope,
       Nothing, Holds

\* A step that stores nothing, comes to hold nothing and ends no removal.
LEMMA NothingStale ==
    ASSUME FInv, NEW c \in Clients, Alone(c), EntriesGo, floor' = floor, data' = data,
           pc'[c] # "remove",
           Holds(c)' => Holds(c) /\ got'[c] = got[c] /\ job'[c] = job[c],
           got'[c] # None /\ pc'[c] = "again" => got'[c] = got[c] /\ job'[c] = job[c] /\ pc[c] = "again",
           Calling(c)' => job'[c].since[job'[c].function] <= floor[job'[c].function],
           Answered(c)' => /\ reply'[c] \in Result \cup {Nothing}
                           /\ reply'[c] = Nothing \/ reply'[c].version >= job'[c].since[job'[c].function]
    PROVE  Fresh'
<1>. USE DEF FInv
<1>1. StoredIsFresh'
  BY DEF StoredIsFresh, NotOlder, KeepsNoOlder, EntriesGo
<1>2. \A o \in Clients : Holds(o)' => Holds(o) /\ got'[o] = got[o] /\ job'[o] = job[o]
  BY DEF Alone, Holds, At
<1>3. HeldIsFresh'
  BY <1>2 DEF HeldIsFresh, NotOlder
<1>4. AgainIsFresh'
  BY DEF AgainIsFresh, Alone, At, NotOlder
<1>5. FloorsRise'
  BY DEF FloorsRise, Alone, At, Calling
<1>6. RemovalsSweep'
  BY <1>2 DEF RemovalsSweep, Sweeps, Alone, At, NotOlder, KeepsNoOlder, EntriesGo
<1>7. AnswersAreResults' /\ FreshAfterRemoval'
  BY DEF AnswersAreResults, FreshAfterRemoval, Answered, Alone, At
<1>. QED  BY <1>1, <1>3, <1>4, <1>5, <1>6, <1>7 DEF Fresh

LEMMA BeginCallFresh == ASSUME FInv, NEW c \in Clients, BeginCall(c) PROVE Fresh'
<1>. USE DEF FInv
<1>1. Alone(c)
  BY BeginCallFits
<1>2. PICK f \in Functions, arg \in Args :
        job' = [job EXCEPT ![c] = [does |-> "call", function |-> f, arg |-> arg, since |-> floor]]
  BY DEF BeginCall
<1>3. /\ UNCHANGED <<entries, floor, data>> /\ pc'[c] \in {"get", "again"}
  BY DEF BeginCall, Goto, WInv, TypeOK
<1>4. job'[c].since[job'[c].function] <= floor[job'[c].function]
  <2>1. job'[c].since = floor /\ job'[c].function = f
    BY <1>2 DEF WInv, TypeOK
  <2>. QED  BY <2>1, Versions
<1>5. EntriesGo /\ ~Answered(c)'
  BY <1>3 DEF EntriesGo, Answered, At
<1>6. got'[c] = None
  BY DEF BeginCall, WInv, TasksFit, Fits, At
<1>. QED  BY <1>1, <1>3, <1>4, <1>5, <1>6, NothingStale DEF Holds

LEMMA GetFresh == ASSUME FInv, NEW c \in Clients, Get(c) PROVE Fresh'
<1>. USE DEF FInv
<1>1. Alone(c)
  BY GetFits
<1>2. /\ UNCHANGED <<entries, floor, data, job>> /\ At(c, "get") /\ Calling(c)
      /\ job[c] \in Call /\ job[c].function \in Functions
  BY DEF Get, At, WInv, TasksFit, Fits, Calling, Call
<1>3. job[c].since[job[c].function] <= floor[job[c].function]
  BY <1>2 DEF FloorsRise
<1>. DEFINE found == entries[MakeKey(job[c].function)]
<1>4. \/ found \notin {None, Nothing} /\ pc'[c] = "done" /\ reply'[c] = found
      \/ pc'[c] = "run"
  BY DEF Get, Return, Goto, WInv, TypeOK
<1>5. ASSUME found \notin {None, Nothing}
      PROVE  found \in Result /\ found.version >= job[c].since[job[c].function]
  <2>1. found \in Result /\ floor[job[c].function] <= found.version
    BY <1>2, <1>5 DEF StoredIsFresh, KeepsNoOlder, NotOlder
  <2>. QED  BY <1>2, <1>3, <2>1, Versions
<1>. HIDE DEF found
<1>6. EntriesGo /\ got'[c] = None
  BY <1>2 DEF EntriesGo, Get, WInv, TasksFit, Fits, At
<1>. QED  BY <1>1, <1>2, <1>3, <1>4, <1>5, <1>6, NothingStale DEF Answered, At, Holds

LEMMA RunUncachedFresh == ASSUME FInv, NEW c \in Clients, RunUncached(c) PROVE Fresh'
<1>. USE DEF FInv
<1>1. Alone(c)
  BY RunUncachedFits
<1>2. /\ UNCHANGED <<entries, floor, data, job>> /\ At(c, "again") /\ job[c] \in Call
      /\ job[c].function \in Functions
  BY DEF RunUncached, At, WInv, TasksFit, Fits, Calling, Call
<1>3. EntriesGo /\ got'[c] = None
  BY <1>2 DEF EntriesGo, RunUncached, Forget, WInv, TypeOK
<1>4. CASE Returns(c) /\ Return(c, got[c])
  <2>1. NotOlder(got[c], job[c].since[job[c].function])
    BY <1>2, <1>4 DEF AgainIsFresh, Returns
  <2>2. pc'[c] = "done" /\ reply'[c] = got[c]
    BY <1>4 DEF Return, Goto, WInv, TypeOK
  <2>3. got[c] = Nothing \/ (got[c] \in Result /\ got[c].version >= job[c].since[job[c].function])
    BY <1>2, <2>1, Versions DEF NotOlder, Call
  <2>. QED  BY <1>1, <1>2, <1>3, <2>2, <2>3, NothingStale DEF Calling, Holds
<1>5. CASE Goto(c, "raised")
  <2>1. pc'[c] = "raised"
    BY <1>5 DEF Goto, WInv, TypeOK
  <2>. QED  BY <1>1, <1>2, <1>3, <2>1, NothingStale DEF Calling, Answered, At, Holds
<1>. QED  BY <1>4, <1>5 DEF RunUncached

LEMMA FailRemoveFresh == ASSUME FInv, NEW c \in Clients, FailRemove(c) PROVE Fresh'
<1>. USE DEF FInv
<1>1. Alone(c)
  BY EndRemoveFits
<1>2. UNCHANGED <<entries, floor, data>> /\ pc'[c] = "raised"
  BY DEF FailRemove, Goto, WInv, TypeOK
<1>3. EntriesGo /\ got'[c] = None
  BY <1>2 DEF EntriesGo, FailRemove, WInv, TasksFit, Fits, At
<1>. QED  BY <1>1, <1>2, <1>3, NothingStale DEF Calling, Answered, At, Holds

LEMMA TenantFresh ==
    ASSUME FInv, NEW c \in Clients, NEW scope \in Scoped, TenantStep(c, scope)
    PROVE  Fresh'
<1>. USE DEF FInv
<1>1. /\ Alone(c) /\ data' = data /\ floor' = floor /\ pc'[c] = "done" /\ job'[c] \in Scope
      /\ entries' \in {entries, [entries EXCEPT ![KeyFor(scope)] = scope],
                       [entries EXCEPT ![KeyFor(scope)] = Nothing]}
  BY TenantFits
<1>2. EntriesGo
  BY <1>1, TenantKeysApart, KeysOfFunctions DEF EntriesGo, WInv, TypeOK
<1>3. got'[c] = None
  <2>1. got' = got /\ At(c, "idle")
    BY DEF TenantStep, GetTenantScoped, SetTenantScoped, DeleteTenantScoped, Invalidate, Begins
  <2>. QED  BY <2>1 DEF WInv, TasksFit, Fits, At
<1>. QED  BY <1>1, <1>2, <1>3, NothingStale DEF Calling, Answered, Scope, Holds

\* What a function reads is as new as anything that was, or is being, removed.
LEMMA ReadFresh == ASSUME FInv, NEW c \in Clients, Read(c) PROVE Fresh'
<1>. USE DEF FInv
<1>1. Alone(c)
  BY ReadFits
<1>2. /\ UNCHANGED <<entries, floor, data, job, pc, reply>> /\ Calling(c)
      /\ job[c] \in Call /\ job[c].function \in Functions /\ ~At(c, "done")
  BY ReadsValue DEF Call, At
<1>3. got'[c] = Nothing \/ (got'[c] \in Result /\ got'[c].version = data)
  <2>1. PICK value \in Result \cup {Nothing} :
          /\ got' = [got EXCEPT ![c] = value]
          /\ value = Nothing \/ (value \in Result /\ value.version = data)
    BY ReadsValue
  <2>. QED  BY <2>1 DEF WInv, TypeOK
<1>4. NotOlder(got'[c], floor[job[c].function])
  BY <1>2, <1>3 DEF NotOlder, FloorsRise
<1>5. NotOlder(got'[c], job[c].since[job[c].function])
  <2>1. job[c].since[job[c].function] <= data
    BY <1>2, Versions DEF FloorsRise
  <2>. QED  BY <1>3, <2>1 DEF NotOlder
<1>6. \A d \in Clients : At(d, "remove") => NotOlder(got'[c], job[d].since)
  BY <1>3 DEF NotOlder, FloorsRise
<1>7. StoredIsFresh'
  BY <1>2 DEF StoredIsFresh, KeepsNoOlder, NotOlder
<1>8. \A o \in Clients \ {c} : Holds(o)' <=> Holds(o)
  BY <1>1 DEF Holds, Alone, At
<1>9. HeldIsFresh' /\ AgainIsFresh'
  BY <1>1, <1>2, <1>4, <1>5, <1>8 DEF HeldIsFresh, AgainIsFresh, Alone, At, NotOlder
<1>10. FloorsRise'
  BY <1>1, <1>2 DEF FloorsRise, Alone, At, Calling
<1>11. RemovalsSweep'
  <2>. SUFFICES ASSUME NEW d \in Clients, (At(d, "remove") /\ job[d].quiet)'
                PROVE  Sweeps(d)'
    BY DEF RemovalsSweep
  <2>1. At(d, "remove") /\ job[d].quiet
    BY <1>2 DEF At
  <2>2. Sweeps(d)
    BY <2>1 DEF RemovalsSweep
  <2>. QED  BY <1>1, <1>2, <1>6, <1>8, <2>1, <2>2 DEF Sweeps, Alone, KeepsNoOlder, NotOlder
<1>12. AnswersAreResults' /\ FreshAfterRemoval'
  BY <1>1, <1>2 DEF AnswersAreResults, FreshAfterRemoval, Answered, Alone, At
<1>. QED  BY <1>7, <1>9, <1>10, <1>11, <1>12 DEF Fresh

LEMMA RunFresh == ASSUME FInv, NEW c \in Clients, Run(c) PROVE Fresh'
<1>. USE DEF FInv
<1>1. Alone(c)
  BY RunFits
<1>2. /\ UNCHANGED <<entries, floor, data, job>> /\ Calling(c) /\ At(c, "run")
  BY DEF Run, At, Calling
<1>3. EntriesGo
  BY <1>2 DEF EntriesGo
<1>4. job[c].since[job[c].function] <= floor[job[c].function]
  BY <1>2 DEF FloorsRise
<1>5. CASE Returns(c) /\ Goto(c, "set") /\ UNCHANGED got
  <2>1. pc'[c] = "set" /\ got'[c] = got[c] /\ Holds(c)
    BY <1>2, <1>5 DEF Goto, WInv, TypeOK, Returns, Holds, At
  <2>. QED  BY <1>1, <1>2, <1>3, <1>4, <2>1, NothingStale DEF Answered, At
<1>6. CASE Goto(c, IF Fallback[job[c].function] THEN "again" ELSE "raised") /\ Forget(c)
  <2>1. pc'[c] \in {"again", "raised"} /\ got'[c] = None
    BY <1>6 DEF Goto, Forget, WInv, TypeOK
  <2>. QED  BY <1>1, <1>2, <1>3, <1>4, <2>1, NothingStale DEF Answered, At, Holds
<1>. QED  BY <1>5, <1>6 DEF Run

\* What is stored late is still no older than what was, or is being, removed.
LEMMA StoringFresh == ASSUME FInv, NEW c \in Clients, Set(c) \/ RedisIsLate(c) PROVE Fresh'
<1>. USE DEF FInv
<1>1. Alone(c)
  BY StoringFits
<1>2. /\ UNCHANGED <<floor, data, job>> /\ Holds(c) /\ job[c] \in Call
      /\ job[c].function \in Functions
  BY StoresHeld DEF Call
<1>3. pc'[c] = "done" /\ got'[c] \in {got[c], None} /\ reply'[c] \in {got[c], reply[c]}
  BY StoresHeld DEF Set, RedisIsLate, Return, Goto, WInv, TypeOK, At
<1>4. \A f \in Functions : \/ entries'[MakeKey(f)] = entries[MakeKey(f)]
                           \/ f = job[c].function /\ entries'[MakeKey(f)] = got[c]
  BY StoresHeld, <1>2, KeysOfFunctions, FunctionKeysApart DEF WInv, TypeOK
<1>5. NotOlder(got[c], floor[job[c].function])
  BY <1>2 DEF HeldIsFresh
<1>6. StoredIsFresh'
  BY <1>2, <1>4, <1>5 DEF StoredIsFresh, KeepsNoOlder, NotOlder
<1>7. \A o \in Clients : Holds(o)' => Holds(o) /\ got'[o] = got[o]
  BY <1>1, <1>2, <1>3 DEF Holds, Alone, At
<1>8. HeldIsFresh' /\ AgainIsFresh'
  BY <1>1, <1>2, <1>3, <1>7 DEF HeldIsFresh, AgainIsFresh, Alone, At, NotOlder
<1>9. FloorsRise'
  BY <1>1, <1>2, <1>3 DEF FloorsRise, Alone, At, Calling
<1>10. RemovalsSweep'
  <2>. SUFFICES ASSUME NEW d \in Clients, (At(d, "remove") /\ job[d].quiet)'
                PROVE  Sweeps(d)'
    BY DEF RemovalsSweep
  <2>1. At(d, "remove") /\ job[d].quiet
    BY <1>1, <1>2, <1>3 DEF Alone, At
  <2>2. Sweeps(d)
    BY <2>1 DEF RemovalsSweep
  <2>. QED  BY <1>2, <1>4, <1>7, <2>1, <2>2 DEF Sweeps, KeepsNoOlder, NotOlder
<1>11. AnswersAreResults' /\ FreshAfterRemoval'
  <2>1. CASE Set(c)
    <3>1. Calling(c) /\ reply'[c] = got[c]
      BY <2>1 DEF Set, Calling, At, Return, WInv, TypeOK
    <3>2. job[c].since[job[c].function] <= floor[job[c].function]
      BY <3>1 DEF FloorsRise
    <3>3. got[c] = Nothing \/ (got[c] \in Result /\ got[c].version >= job[c].since[job[c].function])
      <4>1. CASE got[c] = Nothing
        BY <4>1
      <4>2. CASE got[c] \in Result /\ floor[job[c].function] <= got[c].version
        BY <1>2, <3>1, <3>2, <4>2, Versions
      <4>. QED  BY <1>5, <4>1, <4>2 DEF NotOlder
    <3>. QED
      BY <1>1, <1>2, <1>3, <3>1, <3>3 DEF AnswersAreResults, FreshAfterRemoval, Answered, Alone, At
  <2>2. CASE RedisIsLate(c)
    BY <1>2, <2>2 DEF RedisIsLate, AnswersAreResults, FreshAfterRemoval, Answered, At
  <2>. QED  BY <2>1, <2>2
<1>. QED  BY <1>6, <1>8, <1>9, <1>10, <1>11 DEF Fresh

\* A removal begins with all that is stored on its list; it is quiet if nothing
\* older may be.
LEMMA BeginRemoveFresh == ASSUME FInv, NEW c \in Clients, BeginRemove(c) PROVE Fresh'
<1>. USE DEF FInv
<1>1. Alone(c)
  BY BeginRemoveFits
<1>2. /\ UNCHANGED <<entries, floor, data, got, reply>> /\ At(c, "idle")
      /\ pc'[c] = "remove"
  BY DEF BeginRemove, Goto, WInv, TypeOK
<1>3. PICK prefix \in {Prefix[f] : f \in Functions} :
        job' = [job EXCEPT ![c] =
                  [does |-> "remove", prefix |-> prefix, todo |-> Stored(prefix), since |-> data,
                   quiet |-> ~\E o \in Clients : Holds(o) /\ Prefix[job[o].function] = prefix]]
  BY DEF BeginRemove
<1>4. /\ job'[c].prefix = prefix /\ job'[c].todo = Stored(prefix) /\ job'[c].since = data
      /\ job'[c].quiet <=> ~\E o \in Clients : Holds(o) /\ Prefix[job[o].function] = prefix
  <2>. DEFINE calm == ~\E o \in Clients : Holds(o) /\ Prefix[job[o].function] = prefix
  <2>. HIDE DEF calm
  <2>1. job'[c] = [does |-> "remove", prefix |-> prefix, todo |-> Stored(prefix), since |-> data,
                   quiet |-> calm]
    BY <1>3 DEF WInv, TypeOK, calm
  <2>2. job'[c].quiet = calm
    BY <2>1
  <2>3. job'[c].quiet <=> calm
    BY <2>2
  <2>4. job'[c].prefix = prefix /\ job'[c].todo = Stored(prefix) /\ job'[c].since = data
    BY <2>1
  <2>. QED  BY <2>3, <2>4 DEF calm
<1>5. StoredIsFresh'
  BY <1>2 DEF StoredIsFresh, KeepsNoOlder, NotOlder
<1>10. \A o \in Clients : Holds(o)' \/ At(o, "again")' =>
                              /\ job'[o] = job[o]
                              /\ Holds(o)' <=> Holds(o)
                              /\ At(o, "again")' <=> At(o, "again")
  <2>1. got[c] = None
    BY <1>2 DEF WInv, TasksFit, Fits, At
  <2>. QED  BY <1>1, <1>2, <2>1 DEF Holds, Alone, At
<1>6. HeldIsFresh' /\ AgainIsFresh'
  BY <1>2, <1>10 DEF HeldIsFresh, AgainIsFresh, NotOlder
<1>7. FloorsRise'
  BY <1>1, <1>2, <1>4, Versions DEF FloorsRise, Alone, At, Calling
<1>8. RemovalsSweep'
  <2>. SUFFICES ASSUME NEW d \in Clients, (At(d, "remove") /\ job[d].quiet)'
                PROVE  Sweeps(d)'
    BY DEF RemovalsSweep
  <2>1. CASE d = c
    <3>2. \A o \in Clients : Holds(o) => Prefix[job[o].function] # prefix
      BY <1>4, <2>1
    <3>3. \A f \in Functions : Prefix[f] = prefix =>
            MakeKey(f) \in Stored(prefix) \/ entries[MakeKey(f)] = None
      BY FunctionKeysApart, KeysOfFunctions DEF Stored
    <3>. QED  BY <1>2, <1>4, <1>10, <2>1, <3>2, <3>3 DEF Sweeps, KeepsNoOlder
  <2>2. CASE d # c
    <3>1. At(d, "remove") /\ job[d].quiet /\ job'[d] = job[d]
      BY <1>1, <2>2 DEF Alone, At
    <3>2. Sweeps(d)
      BY <3>1 DEF RemovalsSweep
    <3>. QED  BY <1>2, <1>10, <3>1, <3>2 DEF Sweeps, KeepsNoOlder, NotOlder
  <2>. QED  BY <2>1, <2>2
<1>9. AnswersAreResults' /\ FreshAfterRemoval'
  BY <1>1, <1>2 DEF AnswersAreResults, FreshAfterRemoval, Answered, Alone, At
<1>. QED  BY <1>5, <1>6, <1>7, <1>8, <1>9 DEF Fresh

LEMMA DeleteNextFresh == ASSUME FInv, NEW c \in Clients, DeleteNext(c) PROVE Fresh'
<1>. USE DEF FInv
<1>1. Alone(c)
  BY DeleteNextFits
<1>2. /\ UNCHANGED <<pc, floor, data, got, reply>> /\ At(c, "remove") /\ job[c] \in Removal
  BY DEF DeleteNext, WInv, TasksFit, Fits
<1>3. PICK k \in job[c].todo \cup Stored(job[c].prefix) :
        /\ entries' = [entries EXCEPT ![k] = None]
        /\ job' = [job EXCEPT ![c].todo = @ \ {k}]
  BY DEF DeleteNext, Store
<1>4. /\ job'[c].prefix = job[c].prefix /\ job'[c].since = job[c].since
      /\ job'[c].quiet = job[c].quiet /\ job'[c].todo = job[c].todo \ {k}
  BY <1>2, <1>3 DEF WInv, TypeOK, Removal
<1>5. \A f \in Functions :
        entries'[MakeKey(f)] = IF MakeKey(f) = k THEN None ELSE entries[MakeKey(f)]
  BY <1>3, KeysOfFunctions DEF WInv, TypeOK
<1>6. StoredIsFresh'
  BY <1>2, <1>5 DEF StoredIsFresh, KeepsNoOlder, NotOlder
<1>11. \A o \in Clients : Holds(o)' \/ At(o, "again")' =>
                              /\ job'[o] = job[o]
                              /\ Holds(o)' <=> Holds(o)
                              /\ At(o, "again")' <=> At(o, "again")
  <2>1. got[c] = None
    BY <1>2 DEF WInv, TasksFit, Fits, At
  <2>. QED  BY <1>1, <1>2, <2>1 DEF Holds, Alone, At
<1>7. HeldIsFresh' /\ AgainIsFresh'
  BY <1>2, <1>11 DEF HeldIsFresh, AgainIsFresh, NotOlder
<1>8. FloorsRise'
  BY <1>1, <1>2, <1>4 DEF FloorsRise, Alone, At, Calling
<1>9. RemovalsSweep'
  <2>. SUFFICES ASSUME NEW d \in Clients, (At(d, "remove") /\ job[d].quiet)'
                PROVE  Sweeps(d)'
    BY DEF RemovalsSweep
  <2>1. /\ At(d, "remove") /\ job[d].quiet /\ job'[d].prefix = job[d].prefix
        /\ job'[d].since = job[d].since
        /\ job'[d].todo = job[d].todo \/ job'[d].todo = job[d].todo \ {k}
    BY <1>1, <1>2, <1>4 DEF Alone, At
  <2>2. Sweeps(d)
    BY <2>1 DEF RemovalsSweep
  <2>. QED  BY <1>2, <1>5, <1>11, <2>1, <2>2 DEF Sweeps, KeepsNoOlder, NotOlder
<1>10. AnswersAreResults' /\ FreshAfterRemoval'
  BY <1>1, <1>2 DEF AnswersAreResults, FreshAfterRemoval, Answered, Alone, At
<1>. QED  BY <1>6, <1>7, <1>8, <1>9, <1>10 DEF Fresh

\* The list is empty: all that is stored, or about to be, is no older than the
\* removal.
LEMMA FinishRemoveFresh == ASSUME FInv, NEW c \in Clients, FinishRemove(c) PROVE Fresh'
<1>. USE DEF FInv
<1>1. Alone(c)
  BY EndRemoveFits
<1>2. /\ UNCHANGED <<entries, data, job, got>> /\ At(c, "remove") /\ job[c] \in Removal
      /\ job[c].todo = {} /\ pc'[c] = "done" /\ job[c].does = "remove"
  BY DEF FinishRemove, Return, Goto, WInv, TypeOK, TasksFit, Fits, Removal
<1>3. \A f \in Functions :
        floor'[f] = IF job[c].quiet /\ Prefix[f] = job[c].prefix /\ floor[f] < job[c].since
                    THEN job[c].since ELSE floor[f]
  BY DEF FinishRemove
<1>4. \A f \in Functions : floor[f] <= floor'[f] /\ floor'[f] <= data
  BY <1>2, <1>3, Versions DEF FloorsRise
<1>5. job[c].quiet => Sweeps(c)
  BY <1>2 DEF RemovalsSweep
<1>6. StoredIsFresh'
  <2>. SUFFICES ASSUME NEW f \in Functions PROVE KeepsNoOlder(MakeKey(f), floor[f])'
    BY DEF StoredIsFresh
  <2>1. KeepsNoOlder(MakeKey(f), floor[f])
    BY DEF StoredIsFresh
  <2>2. job[c].quiet /\ Prefix[f] = job[c].prefix => KeepsNoOlder(MakeKey(f), job[c].since)
    BY <1>2, <1>5 DEF Sweeps
  <2>. QED  BY <1>2, <1>3, <2>1, <2>2 DEF KeepsNoOlder, NotOlder
<1>11. \A o \in Clients : Holds(o)' <=> Holds(o)
  <2>1. got[c] = None
    BY <1>2 DEF WInv, TasksFit, Fits, At
  <2>. QED  BY <1>1, <1>2, <2>1 DEF Holds, Alone, At
<1>12. AgainIsFresh'
  BY <1>1, <1>2 DEF AgainIsFresh, Alone, At, NotOlder
<1>7. HeldIsFresh'
  <2>. SUFFICES ASSUME NEW o \in Clients, Holds(o)'
                PROVE  NotOlder(got[o], floor[job[o].function])'
    BY DEF HeldIsFresh
  <2>1. Holds(o) /\ job[o].function \in Functions /\ NotOlder(got[o], floor[job[o].function])
    BY <1>11, Versions DEF HeldIsFresh
  <2>2. job[c].quiet /\ Prefix[job[o].function] = job[c].prefix => NotOlder(got[o], job[c].since)
    BY <1>5, <2>1 DEF Sweeps
  <2>. QED  BY <1>2, <1>3, <2>1, <2>2 DEF NotOlder
<1>8. FloorsRise'
  <2>1. ASSUME NEW o \in Clients, Calling(o)'
        PROVE  job'[o].since[job'[o].function] <= floor'[job'[o].function]
    <3>1. /\ Calling(o) /\ job'[o] = job[o] /\ job[o].function \in Functions
          /\ job[o].since[job[o].function] <= floor[job[o].function]
          /\ job[o].since[job[o].function] \in 0 .. MaxVersion
      BY <1>1, <1>2, <2>1, Versions DEF FloorsRise, Alone, Calling
    <3>2. floor[job[o].function] <= floor'[job[o].function]
      BY <1>4, <3>1
    <3>3. floor'[job[o].function] \in 0 .. MaxVersion /\ floor[job[o].function] \in 0 .. MaxVersion
      BY <3>1, Versions, EndRemoveFits DEF WInv, TypeOK
    <3>. QED  BY <3>1, <3>2, <3>3
  <2>. QED  BY <1>1, <1>2, <1>4, <2>1 DEF FloorsRise, Alone, At
<1>9. RemovalsSweep'
  <2>. SUFFICES ASSUME NEW d \in Clients, (At(d, "remove") /\ job[d].quiet)'
                PROVE  Sweeps(d)'
    BY DEF RemovalsSweep
  <2>1. At(d, "remove") /\ job[d].quiet
    BY <1>1, <1>2 DEF Alone, At
  <2>2. Sweeps(d)
    BY <2>1 DEF RemovalsSweep
  <2>. QED  BY <1>2, <1>11, <2>1, <2>2 DEF Sweeps, KeepsNoOlder, NotOlder
<1>10. AnswersAreResults' /\ FreshAfterRemoval'
  BY <1>1, <1>2 DEF AnswersAreResults, FreshAfterRemoval, Answered, Alone, At
<1>. QED  BY <1>6, <1>7, <1>8, <1>9, <1>10, <1>12 DEF Fresh

LEMMA RedisAndDataFresh == ASSUME FInv, Expire \/ Write \/ UNCHANGED vars PROVE Fresh'
<1>. USE DEF FInv
<1>1. UNCHANGED <<pc, job, got, reply, floor>>
  BY DEF Expire, Write, vars
<1>2. EntriesGo
  BY KeysOfFunctions DEF EntriesGo, Expire, Write, vars, Store, WInv, TypeOK
<1>3. data' \in 0 .. MaxVersion /\ data <= data'
  BY VersionAssumption, Versions DEF Expire, Write, vars
<1>4. StoredIsFresh'
  BY <1>1, <1>2 DEF StoredIsFresh, KeepsNoOlder, NotOlder, EntriesGo
<1>5. HeldIsFresh' /\ AgainIsFresh'
  BY <1>1 DEF HeldIsFresh, AgainIsFresh, Holds, At, NotOlder
<1>6. FloorsRise'
  BY <1>1, <1>3, Versions DEF FloorsRise, At, Calling
<1>7. RemovalsSweep'
  BY <1>1, <1>2 DEF RemovalsSweep, Sweeps, Holds, At, KeepsNoOlder, NotOlder, EntriesGo
<1>8. AnswersAreResults' /\ FreshAfterRemoval'
  BY <1>1 DEF AnswersAreResults, FreshAfterRemoval, Answered, At
<1>. QED  BY <1>4, <1>5, <1>6, <1>7, <1>8 DEF Fresh

LEMMA FreshKeeps == ASSUME FInv, [Next]_vars PROVE FInv'
<1>1. WInv'
  BY WorkKeeps DEF FInv
<1>2. Fresh'
  BY BeginCallFresh, GetFresh, ReadFresh, RunFresh, StoringFresh, RunUncachedFresh, BeginRemoveFresh,
     DeleteNextFresh, FinishRemoveFresh, FailRemoveFresh, TenantFresh, RedisAndDataFresh
  DEF Next, CallStep, RemoveStep
<1>. QED  BY <1>1, <1>2 DEF FInv, Fresh

----------------------------------------------------------------------------
(* Tenants.                                                                *)

\* What follows the first of the places where the word is.
LEMMA FirstPlace ==
    ASSUME NEW key, NEW word, Len(key) \in Nat, NEW i \in 1 .. Len(key) - 1, key[i] = word,
           \A j \in 1 .. i - 1 : key[j] # word
    PROVE  PartAfter(key, word) = key[i + 1]
<1>. DEFINE at == {j \in 1 .. Len(key) - 1 : key[j] = word}
            first == CHOOSE j \in at : \A k \in at : j <= k
<1>1. i \in at /\ \A k \in at : i <= k
  OBVIOUS
<1>2. first \in at /\ \A k \in at : first <= k
  BY <1>1
<1>3. first = i
  BY <1>1, <1>2
<1>4. PartAfter(key, word) = IF at = {} THEN None ELSE key[1 + first]
  BY DEF PartAfter
<1>. HIDE DEF at, first
<1>. QED  BY <1>1, <1>3, <1>4

\* A key of the type that goes on with whose it is.
Owned(key, type, s) ==
    /\ Len(key) \in Nat /\ Len(key) >= 3
    /\ key[1] = type /\ key[2] = "tenant" /\ key[3] = s.tenant
    /\ s.user # None => Len(key) >= 5 /\ key[4] = "user" /\ key[5] = s.user
    /\ s.user = None => \A i \in 4 .. Len(key) - 1 : key[i] # "user"

LEMMA OwnedTells ==
    ASSUME NEW s \in Scoped, NEW key, NEW type, Owned(key, type, s), type # "tenant"
    PROVE  TellsOf(key, type, s)
<1>1. s.tenant # None /\ s.tenant # "user"
  BY IdAssumption DEF Scoped
<1>2. PartAfter(key, "tenant") = s.tenant
  <2>1. 2 \in 1 .. Len(key) - 1 /\ \A j \in 1 .. 2 - 1 : key[j] # "tenant"
    BY DEF Owned
  <2>2. PartAfter(key, "tenant") = key[2 + 1]
    BY <2>1, FirstPlace DEF Owned
  <2>. QED  BY <2>2 DEF Owned
<1>3. PartAfter(key, "user") = IF type = "user" THEN "tenant" ELSE s.user
  <2>1. CASE type = "user"
    <3>1. 1 \in 1 .. Len(key) - 1 /\ \A j \in 1 .. 1 - 1 : key[j] # "user"
      BY DEF Owned
    <3>2. PartAfter(key, "user") = key[1 + 1]
      BY <2>1, <3>1, FirstPlace DEF Owned
    <3>. QED  BY <2>1, <3>2 DEF Owned
  <2>2. CASE type # "user" /\ s.user # None
    <3>1. 4 \in 1 .. Len(key) - 1 /\ key[4] = "user" /\ \A j \in 1 .. 4 - 1 : key[j] # "user"
      BY <1>1, <2>2 DEF Owned
    <3>2. PartAfter(key, "user") = key[4 + 1]
      BY <3>1, FirstPlace DEF Owned
    <3>. QED  BY <2>2, <3>2 DEF Owned
  <2>3. CASE type # "user" /\ s.user = None
    <3>1. \A j \in 1 .. Len(key) - 1 : key[j] # "user"
      BY <1>1, <2>3 DEF Owned
    <3>. QED  BY <2>3, <3>1 DEF PartAfter
  <2>. QED  BY <2>1, <2>2, <2>3
<1>. QED
  BY <1>1, <1>2, <1>3
  DEF TellsOf, ExtractTenantContext, ExtractTenantFromKey, ExtractUserFromKey

\* What is added to a key of an owner leaves it the owner's.
Owner(type, s) == <<type>> \o Tagged("tenant", s.tenant) \o Tagged("user", s.user)

LEMMA OwnerOwns ==
    ASSUME NEW s \in Scoped, NEW type
    PROVE  Owned(Owner(type, s), type, s)
<1>1. Tagged("tenant", s.tenant) = <<"tenant", s.tenant>>
  BY IdAssumption DEF Tagged, Scoped
<1>2. CASE s.user = None
  BY <1>1, <1>2 DEF Tagged, Owned, Owner
<1>3. CASE s.user # None
  BY <1>1, <1>3 DEF Tagged, Owned, Owner
<1>. QED  BY <1>2, <1>3

LEMMA OwnedWithMore ==
    ASSUME NEW s \in Scoped, NEW type, NEW tag, tag # "user", NEW id
    PROVE  Owned(Owner(type, s) \o Tagged(tag, id), type, s)
<1>1. Tagged("tenant", s.tenant) = <<"tenant", s.tenant>>
  BY IdAssumption DEF Tagged, Scoped
<1>2. CASE s.user = None /\ id = None
  BY <1>1, <1>2 DEF Tagged, Owned, Owner
<1>3. CASE s.user = None /\ id # None
  BY <1>1, <1>3 DEF Tagged, Owned, Owner
<1>4. CASE s.user # None /\ id = None
  BY <1>1, <1>4 DEF Tagged, Owned, Owner
<1>5. CASE s.user # None /\ id # None
  BY <1>1, <1>5 DEF Tagged, Owned, Owner
<1>. QED  BY <1>2, <1>3, <1>4, <1>5

LEMMA OwnedWithTwo ==
    ASSUME NEW s \in Scoped, NEW type, NEW tag, NEW id, NEW other, s.user # None
    PROVE  Owned(Owner(type, s) \o Tagged(tag, id) \o Tagged("resource", other), type, s)
<1>1. Tagged("tenant", s.tenant) = <<"tenant", s.tenant>>
  BY IdAssumption DEF Tagged, Scoped
<1>2. CASE id = None
  BY <1>1, <1>2 DEF Tagged, Owned, Owner
<1>3. CASE id # None
  BY <1>1, <1>3 DEF Tagged, Owned, Owner
<1>. QED  BY <1>2, <1>3

LEMMA KeysTell == ASSUME NEW scope \in Scoped PROVE KeysTellOf(scope)
<1>. DEFINE type == scope.base[1]
<1>1. scope.base = <<type>> /\ type # "tenant"
  BY BaseAssumption DEF Scoped
<1>2. TellsOf(KeyFor(scope), type, scope)
  <2>1. Owned(Owner(type, scope), type, scope)
    BY OwnerOwns
  <2>2. KeyFor(scope) = Owner(type, scope)
    BY <1>1 DEF KeyFor, MakeTenantKey, Owner
  <2>. QED  BY <1>1, <2>1, <2>2, OwnedTells
<1>3. ASSUME NEW id PROVE TellsOf(MakeAuthCacheKey(scope.base, scope.tenant, scope.user, id), type, scope)
  <2>. DEFINE key == Owner(type, scope) \o Tagged("resource", id)
  <2>1. Owned(key, type, scope)
    <3>1. "resource" # "user"
      OBVIOUS
    <3>. QED  BY <3>1, OwnedWithMore
  <2>2. MakeAuthCacheKey(scope.base, scope.tenant, scope.user, id) = key
    BY <1>1 DEF MakeAuthCacheKey, Owner
  <2>. HIDE DEF key
  <2>. QED  BY <1>1, <2>1, <2>2, OwnedTells
<1>4. ASSUME NEW id PROVE TellsOf(MakeSessionKey(scope.base, scope.tenant, scope.user, id), type, scope)
  <2>. DEFINE key == Owner(type, scope) \o Tagged("session", id)
  <2>1. Owned(key, type, scope)
    <3>1. "session" # "user"
      OBVIOUS
    <3>. QED  BY <3>1, OwnedWithMore
  <2>2. MakeSessionKey(scope.base, scope.tenant, scope.user, id) = key
    BY <1>1 DEF MakeSessionKey, Owner
  <2>. HIDE DEF key
  <2>. QED  BY <1>1, <2>1, <2>2, OwnedTells
<1>5. ASSUME NEW id, scope.user # None
      PROVE  TellsOf(MakePermissionKey(scope.tenant, scope.user, "user", id), "permissions", scope)
  <2>. DEFINE key == Owner("permissions", scope) \o Tagged("resource_type", "user")
                     \o Tagged("resource", id)
  <2>1. Owned(key, "permissions", scope)
    BY <1>5, OwnedWithTwo
  <2>2. MakePermissionKey(scope.tenant, scope.user, "user", id) = key
    BY DEF MakePermissionKey, Owner
  <2>. HIDE DEF key
  <2>. QED  BY <2>1, <2>2, OwnedTells
<1>. QED  BY <1>2, <1>3, <1>4, <1>5 DEF KeysTellOf

AInv == WInv /\ ScopesAreApart /\ TenantsApart

\* What is stored for tenants is as it was or gone.
ScopedEntriesGo ==
    \A s \in Scoped : entries'[KeyFor(s)] \in {entries[KeyFor(s)], None}

LEMMA CallsLeaveThemApart ==
    ASSUME AInv, NEW c \in Clients, Alone(c), ScopedEntriesGo, job'[c] \in Call \cup Removal
    PROVE  ScopesAreApart' /\ TenantsApart'
<1>. USE DEF AInv
<1>1. ScopesAreApart'
  BY DEF ScopesAreApart, ScopedEntriesGo
<1>2. job'[c].does \in {"call", "remove"}
  BY DEF Call, Removal
<1>3. TenantsApart'
  BY <1>2 DEF TenantsApart, Alone, At
<1>. QED  BY <1>1, <1>3

LEMMA TenantStaysApart ==
    ASSUME AInv, NEW c \in Clients, NEW scope \in Scoped, TenantStep(c, scope)
    PROVE  ScopesAreApart' /\ TenantsApart'
<1>. USE DEF AInv
<1>1. /\ Alone(c) /\ job'[c] \in Scope /\ job'[c].scope = scope
      /\ entries' \in {entries, [entries EXCEPT ![KeyFor(scope)] = scope],
                       [entries EXCEPT ![KeyFor(scope)] = Nothing]}
      /\ job'[c].does = "get" => reply'[c] \in {None, entries[KeyFor(scope)]}
  BY TenantFits
<1>2. ScopesAreApart'
  BY <1>1, TenantKeysApart, KeysOfFunctions DEF ScopesAreApart, WInv, TypeOK
<1>3. job'[c].does = "get" => reply'[c] \in {None, Nothing, scope}
  BY <1>1 DEF ScopesAreApart
<1>4. TenantsApart'
  BY <1>1, <1>3, KeysTell DEF TenantsApart, Alone, At
<1>. QED  BY <1>2, <1>4

LEMMA ApartKeeps == ASSUME AInv, [Next]_vars PROVE AInv'
<1>. USE DEF AInv
<1>1. WInv'
  BY WorkKeeps
<1>2. ASSUME NEW c \in Clients, CallStep(c) \/ RemoveStep(c)
      PROVE  ScopesAreApart' /\ TenantsApart'
  <2>1. Alone(c)
    BY <1>2, BeginCallFits, GetFits, ReadFits, RunFits, StoringFits, RunUncachedFits, BeginRemoveFits, DeleteNextFits,
       EndRemoveFits DEF CallStep, RemoveStep
  <2>2. ASSUME BeginCall(c) \/ BeginRemove(c) \/ DeleteNext(c) PROVE Calling(c)' \/ At(c, "remove")'
    BY <2>2 DEF BeginCall, BeginRemove, DeleteNext, Goto, Calling, At, WInv, TypeOK
  <2>3. ASSUME Get(c) \/ Read(c) \/ Run(c) \/ Set(c) \/ RunUncached(c) \/ FinishRemove(c) \/ FailRemove(c)
        PROVE  job' = job /\ (Calling(c) \/ At(c, "remove"))
    BY <2>3 DEF Get, Read, Run, Set, RunUncached, FinishRemove, FailRemove, Calling, At
  <2>4. job'[c] \in Call \cup Removal
    BY <1>1, <1>2, <2>2, <2>3, StoresHeld DEF CallStep, RemoveStep, WInv, TasksFit, Fits
  <2>5. \/ entries' = entries
        \/ \E k \in FunctionKeys : \E value : entries' = [entries EXCEPT ![k] = value]
    <3>1. CASE Set(c) \/ RedisIsLate(c)
      <4>1. job[c].function \in Functions
        BY <3>1, StoresHeld DEF Call
      <4>. QED  BY <3>1, <4>1, StoresHeld, KeysOfFunctions
    <3>2. CASE DeleteNext(c)
      BY <3>2, Versions DEF DeleteNext, Store, Stored
    <3>3. CASE ~Set(c) /\ ~RedisIsLate(c) /\ ~DeleteNext(c)
      BY <1>2, <3>3 DEF CallStep, RemoveStep, BeginCall, Get, Read, Run, RunUncached, BeginRemove,
         FinishRemove, FailRemove
    <3>. QED  BY <3>1, <3>2, <3>3
  <2>6. ScopedEntriesGo
    BY <2>5, TenantKeysApart, KeysOfFunctions DEF ScopedEntriesGo, FunctionKeys, WInv, TypeOK
  <2>. QED  BY <2>1, <2>4, <2>6, CallsLeaveThemApart
<1>3. ASSUME Expire \/ Write \/ UNCHANGED vars PROVE ScopesAreApart' /\ TenantsApart'
  <2>1. UNCHANGED <<pc, job, reply>>
    BY <1>3 DEF Expire, Write, vars
  <2>2. ScopedEntriesGo
    BY <1>3, KeysOfFunctions DEF ScopedEntriesGo, Expire, Write, vars, Store, WInv, TypeOK
  <2>. QED  BY <2>1, <2>2 DEF ScopesAreApart, ScopedEntriesGo, TenantsApart, At
<1>. QED  BY <1>1, <1>2, <1>3, TenantStaysApart DEF Next

----------------------------------------------------------------------------
LEMMA Begin == ASSUME Init PROVE IInv
<1>1. TypeOK
  BY VersionAssumption DEF Init, TypeOK
<1>2. TasksFit /\ WorkDoneOnce
  BY DEF Init, TasksFit, Fits, Calling, At, Terminal, WorkDoneOnce, Answered
<1>3. StoredIsFresh /\ ScopesAreApart
  BY KeysOfFunctions DEF Init, StoredIsFresh, KeepsNoOlder, ScopesAreApart
<1>4. /\ HeldIsFresh /\ AgainIsFresh /\ FloorsRise /\ RemovalsSweep /\ AnswersAreResults
      /\ FreshAfterRemoval
  BY DEF Init, HeldIsFresh, AgainIsFresh, Holds, FloorsRise, RemovalsSweep, AnswersAreResults, FreshAfterRemoval, At,
     Calling, Answered
<1>5. TenantsApart
  BY DEF Init, TenantsApart
<1>. QED  BY <1>1, <1>2, <1>3, <1>4, <1>5 DEF IInv

LEMMA Always == Spec => []IInv
<1>1. Init => IInv
  BY Begin
<1>2. IInv /\ [Next]_vars => IInv'
  BY FreshKeeps, ApartKeeps DEF IInv, FInv, AInv, WInv
<1>. QED  BY <1>1, <1>2, PTL DEF Spec

----------------------------------------------------------------------------
(* What the cache promises.                                                *)

\* Every variable has its type: what is stored was returned by a function or
\* kept for a tenant, and a function never runs a third time.
THEOREM TypeCorrect == Spec => []TypeOK
<1>1. IInv => TypeOK
  BY DEF IInv
<1>. QED  BY <1>1, Always, PTL

\* A call's function returns at most once, and just once if nothing was cached,
\* whichever commands of Redis fail.
THEOREM CallsWorkOnce == Spec => []WorkDoneOnce
<1>1. IInv => WorkDoneOnce
  BY DEF IInv
<1>. QED  BY <1>1, Always, PTL

\* After a removal that began while no call of its prefix was between its
\* reading and the end of its store, nothing older is served, with any number
\* of calls, removals and expirations between the deletions of its keys and
\* whatever Redis does late (CacheManager.cached awaits the function, and
\* remove_by_prefix knows nothing of calls under way).
THEOREM RemovalsRefresh == Spec => []FreshAfterRemoval
<1>1. IInv => FreshAfterRemoval
  BY DEF IInv
<1>. QED  BY <1>1, Always, PTL

\* What is kept for a tenant or a user is given to no other, and every key made
\* for them tells whose it is.
THEOREM TenantsStayApart == Spec => []TenantsApart
<1>1. IInv => TenantsApart
  BY DEF IInv
<1>. QED  BY <1>1, Always, PTL
============================================================================
