--------------------------- MODULE ResponseCache ---------------------------
(***************************************************************************)
(* Functions decorated with Cache.cached, removal by prefix, and values    *)
(* that are kept per tenant, over one Redis.  A call that finds nothing    *)
(* runs the function, which is awaited: it reads at one time and returns   *)
(* at another, and then what it returned is stored.  A removal in between  *)
(* has nothing to remove.                                                  *)
(*                                                                         *)
(* Redis does one command at a time, and any command may fail; what timed  *)
(* out may have been done, or be done later.  Results are told apart by    *)
(* what they were computed from, which both JSON and pickle keep.          *)
(***************************************************************************)
EXTENDS Naturals, Sequences, FiniteSets

CONSTANTS
    Clients,     \* tasks, each of which calls once
    Functions,   \* decorated functions
    Prefix,      \* the prefix (or the tag) of each
    Fallback,    \* fallback_on_error of each
    Args,        \* what a function is called with
    Bases,       \* base keys and types of keys, each a sequence of parts
    Tenants,
    Users,
    MaxVersion,  \* bound: how often what the functions read changes
    None

ASSUME VersionAssumption == MaxVersion \in Nat
ASSUME FunctionAssumption == Fallback \in [Functions -> BOOLEAN]

\* Base keys and types are words ("user", "profile") without a colon, ids are UUIDs.
ASSUME BaseAssumption == \A base \in Bases : base = <<base[1]>> /\ base[1] # "tenant"
ASSUME IdAssumption == None \notin Tenants \cup Users /\ "user" \notin Tenants

VARIABLES
    initialized, \* Cache.init was called
    data,        \* version of what the functions read
    entries,     \* what Redis keeps, by key
    pc,          \* where the task is
    job,         \* what it does
    got,         \* what its function computed, until that is returned or stored
    runs,        \* how often its function returned (history)
    reply,       \* what it was given
    floor        \* version from which on all that is cached must be (history)

vars == <<initialized, data, entries, pc, job, got, runs, reply, floor>>

----------------------------------------------------------------------------
(* Keys, as sequences of the parts between colons.                         *)

\* Mutant: ids without what they are of.
Untagged(tag, id) == IF id = None THEN <<>> ELSE <<id>>

Tagged(tag, id) == IF id = None THEN <<>> ELSE <<tag, id>>

MakeTenantKey(base, tenant, user) ==
    base \o Tagged("tenant", tenant) \o Tagged("user", user)
MakeAuthCacheKey(type, tenant, user, resource) ==
    type \o Tagged("tenant", tenant) \o Tagged("user", user) \o Tagged("resource", resource)
MakeSessionKey(type, tenant, user, session) ==
    type \o Tagged("tenant", tenant) \o Tagged("user", user) \o Tagged("session", session)
MakePermissionKey(tenant, user, type, resource) ==
    <<"permissions">> \o Tagged("tenant", tenant) \o Tagged("user", user)
    \o Tagged("resource_type", type) \o Tagged("resource", resource)

\* The part after the first that is the word.
PartAfter(key, word) ==
    LET at == {i \in 1 .. Len(key) - 1 : key[i] = word}
    IN IF at = {} THEN None
       ELSE key[1 + CHOOSE i \in at : \A j \in at : i <= j]
ExtractTenantFromKey(key) == PartAfter(key, "tenant")
ExtractUserFromKey(key) == PartAfter(key, "user")
ExtractTenantContext(key) ==
    IF ExtractTenantFromKey(key) = None THEN None
    ELSE [tenant |-> ExtractTenantFromKey(key), user |-> ExtractUserFromKey(key)]

\* The names of the parameters are in the key of a call; their values are not.
MakeKey(f) == <<Prefix[f], "", f>>
Under(prefix, key) == Len(key) >= 2 /\ key[1] = prefix /\ key[2] = ""

FunctionKeys == {MakeKey(f) : f \in Functions}
Scoped == [base : Bases, tenant : Tenants, user : Users \cup {None}]
\* Mutant: the user is left out.
SharedByUsers(scope) == MakeTenantKey(scope.base, scope.tenant, None)

KeyFor(scope) == MakeTenantKey(scope.base, scope.tenant, scope.user)
Keys == FunctionKeys \cup {KeyFor(scope) : scope \in Scoped}

----------------------------------------------------------------------------
\* What functions return: None, or something they computed from the data.
Nothing == [of |-> None]
Result == [of : Functions, arg : Args, version : 0 .. MaxVersion]
Value == Result \cup Scoped \cup {Nothing}

Call == [does : {"call"}, function : Functions, arg : Args, since : [Functions -> 0 .. MaxVersion]]
Removal == [does : {"remove"}, prefix : {Prefix[f] : f \in Functions},
            todo : SUBSET FunctionKeys, since : 0 .. MaxVersion, quiet : BOOLEAN]
Scope == [does : {"get", "set", "delete", "invalidate"}, scope : Scoped]

\* What set and delete return, and how many entries were invalidated.
Outcome == [success : BOOLEAN \cup {None}] \cup [count : {0}]
Said(success) == [success |-> success]

Terminal == {"done", "raised"}
TypeOK ==
    /\ initialized \in BOOLEAN
    /\ data \in 0 .. MaxVersion
    /\ entries \in [Keys -> Value \cup {None}]
    /\ pc \in [Clients -> Terminal \cup {"idle", "get", "run", "set", "again", "remove"}]
    /\ job \in [Clients -> Call \cup Removal \cup Scope \cup {None}]
    /\ got \in [Clients -> Value \cup {None}]
    /\ runs \in [Clients -> 0 .. 2]
    /\ reply \in [Clients -> Value \cup Outcome \cup {None}]
    /\ floor \in [Functions -> 0 .. MaxVersion]

Init ==
    /\ initialized \in BOOLEAN
    /\ data = 0
    /\ entries = [k \in Keys |-> None]
    /\ pc = [c \in Clients |-> "idle"]
    /\ job = [c \in Clients |-> None]
    /\ got = [c \in Clients |-> None]
    /\ runs = [c \in Clients |-> 0]
    /\ reply = [c \in Clients |-> None]
    /\ floor = [f \in Functions |-> 0]

At(c, step) == pc[c] = step
Goto(c, step) == pc' = [pc EXCEPT ![c] = step]
Return(c, value) == Goto(c, "done") /\ reply' = [reply EXCEPT ![c] = value]
Store(key, value) == entries' = [entries EXCEPT ![key] = value]

----------------------------------------------------------------------------
(* CacheManager.cached.                                                    *)

BeginCall(c) ==
    /\ At(c, "idle")
    /\ \E f \in Functions, arg \in Args :
         job' = [job EXCEPT ![c] = [does |-> "call", function |-> f, arg |-> arg,
                                    since |-> floor]]
    /\ Goto(c, IF initialized THEN "get" ELSE "again")
    /\ UNCHANGED <<initialized, data, entries, got, runs, reply, floor>>

\* The backend catches what goes wrong: for the caller it is a miss.  So is a
\* None that was stored.
Get(c) ==
    /\ At(c, "get")
    /\ LET found == entries[MakeKey(job[c].function)]
       IN \/ found \notin {None, Nothing} /\ Return(c, found)
          \/ Goto(c, "run") /\ UNCHANGED reply
    /\ UNCHANGED <<initialized, data, entries, job, got, runs, floor>>

\* The function reads what it needs (if that takes several reads, the version
\* is that of the first), unless it raises before.
Read(c) ==
    /\ \/ At(c, "run")
       \/ At(c, "again") /\ (initialized \/ Fallback[job[c].function])
    /\ got[c] = None
    /\ \E value \in Value :
         /\ \/ value = Nothing
            \/ value = [of |-> job[c].function, arg |-> job[c].arg, version |-> data]
         /\ got' = [got EXCEPT ![c] = value]
    /\ UNCHANGED <<initialized, data, entries, pc, job, runs, reply, floor>>

Forget(c) == got' = [got EXCEPT ![c] = None]
Returns(c) == got[c] # None /\ runs' = [runs EXCEPT ![c] = @ + 1]

\* If the function raises, it is called once more, in the outer handler.
Run(c) ==
    /\ At(c, "run")
    /\ \/ Returns(c) /\ Goto(c, "set") /\ UNCHANGED got
       \/ /\ Goto(c, IF Fallback[job[c].function] THEN "again" ELSE "raised")
          /\ Forget(c) /\ UNCHANGED runs
    /\ UNCHANGED <<initialized, data, entries, job, reply, floor>>

\* Mutant: what set raises is left to the outer handler.
SetUncaught(c) ==
    /\ At(c, "set")
    /\ \/ Store(MakeKey(job[c].function), got[c]) /\ Return(c, got[c])
       \/ Goto(c, "again") /\ UNCHANGED <<entries, reply>>
    /\ Forget(c)
    /\ UNCHANGED <<initialized, data, job, runs, floor>>

\* The caller has its response whether or not Redis could store it.  A command
\* that timed out is in got until it is done.
Set(c) ==
    /\ At(c, "set")
    /\ \/ Store(MakeKey(job[c].function), got[c]) /\ Forget(c)
       \/ UNCHANGED entries /\ (Forget(c) \/ UNCHANGED got)
    /\ Return(c, got[c])
    /\ UNCHANGED <<initialized, data, job, runs, floor>>
RedisIsLate(c) ==
    /\ At(c, "done") /\ got[c] # None
    /\ Store(MakeKey(job[c].function), got[c]) /\ Forget(c)
    /\ UNCHANGED <<initialized, data, pc, job, runs, reply, floor>>

\* The function without the cache.
RunUncached(c) ==
    /\ At(c, "again")
    /\ IF ~initialized /\ ~Fallback[job[c].function]
       THEN Goto(c, "raised") /\ UNCHANGED <<runs, reply>>
       ELSE \/ Returns(c) /\ Return(c, got[c])
            \/ Goto(c, "raised") /\ UNCHANGED <<runs, reply>>
    /\ Forget(c)
    /\ UNCHANGED <<initialized, data, entries, job, floor>>

----------------------------------------------------------------------------
(* remove_by_prefix and remove_by_tag.                                     *)

Stored(prefix) == {k \in FunctionKeys : Under(prefix, k) /\ entries[k] # None}

\* A call that has read and whose result may yet be stored.
Holds(c) == got[c] # None /\ ~At(c, "again")

\* quiet: no call of the prefix has read before and may store after.
BeginRemove(c) ==
    /\ At(c, "idle") /\ initialized
    /\ \E prefix \in {Prefix[f] : f \in Functions} :
         job' = [job EXCEPT ![c] =
                   [does |-> "remove", prefix |-> prefix, todo |-> Stored(prefix), since |-> data,
                    quiet |-> ~\E o \in Clients : Holds(o) /\ Prefix[job[o].function] = prefix]]
    /\ Goto(c, "remove")
    /\ UNCHANGED <<initialized, data, entries, got, runs, reply, floor>>

\* SCAN gives all keys that are there all the time, and some of the others.
DeleteNext(c) ==
    /\ At(c, "remove")
    /\ \E k \in job[c].todo \cup Stored(job[c].prefix) :
         /\ Store(k, None)
         /\ job' = [job EXCEPT ![c].todo = @ \ {k}]
    /\ UNCHANGED <<initialized, data, pc, got, runs, reply, floor>>

\* The removal is over; after a quiet one nothing older is served.
FinishRemove(c) ==
    /\ At(c, "remove") /\ job[c].todo = {}
    /\ Return(c, None)
    /\ floor' = [f \in Functions |->
                   IF job[c].quiet /\ Prefix[f] = job[c].prefix /\ floor[f] < job[c].since
                   THEN job[c].since ELSE floor[f]]
    /\ UNCHANGED <<initialized, data, entries, job, got, runs>>

\* Mutant: the error of a command is logged and no more.
FailureIsLogged(c) ==
    /\ At(c, "remove")
    /\ job' = [job EXCEPT ![c].todo = {}]
    /\ UNCHANGED <<initialized, data, entries, pc, got, runs, reply, floor>>

FailRemove(c) ==
    /\ At(c, "remove")
    /\ Goto(c, "raised")
    /\ UNCHANGED <<initialized, data, entries, job, got, runs, reply, floor>>

----------------------------------------------------------------------------
(* TenantCacheManager: one command of Redis each, whose failure is caught; *)
(* it may have been done all the same.                                     *)

Begins(c, does, scope) ==
    /\ At(c, "idle") /\ initialized
    /\ job' = [job EXCEPT ![c] = [does |-> does, scope |-> scope]]
    /\ UNCHANGED <<initialized, data, got, runs, floor>>

GetTenantScoped(c, scope) ==
    /\ Begins(c, "get", scope)
    /\ Return(c, entries[KeyFor(scope)]) \/ Return(c, None)
    /\ UNCHANGED entries

SetTenantScoped(c, scope) ==
    /\ Begins(c, "set", scope)
    /\ \/ Store(KeyFor(scope), scope) /\ Return(c, Said(TRUE))
       \/ (Store(KeyFor(scope), scope) \/ UNCHANGED entries) /\ Return(c, Said(FALSE))

\* RedisBackend has no delete: None is stored for a second, and None returned.
DeleteTenantScoped(c, scope) ==
    /\ Begins(c, "delete", scope)
    /\ \/ Store(KeyFor(scope), Nothing) /\ Return(c, Said(None))
       \/ (Store(KeyFor(scope), Nothing) \/ UNCHANGED entries) /\ Return(c, Said(FALSE))

\* RedisBackend has no delete_pattern: invalidate_tenant_cache and
\* invalidate_user_cache invalidate nothing and say so.
Invalidate(c, scope) ==
    /\ Begins(c, "invalidate", scope)
    /\ Return(c, [count |-> 0])
    /\ UNCHANGED entries

----------------------------------------------------------------------------
\* An entry's time is over.
Expire ==
    /\ \E k \in Keys : entries[k] # None /\ Store(k, None)
    /\ UNCHANGED <<initialized, data, pc, job, got, runs, reply, floor>>

\* What the functions read is written.
Write ==
    /\ data < MaxVersion
    /\ data' = data + 1
    /\ UNCHANGED <<initialized, entries, pc, job, got, runs, reply, floor>>

CallStep(c) ==
    BeginCall(c) \/ Get(c) \/ Read(c) \/ Run(c) \/ Set(c) \/ RedisIsLate(c) \/ RunUncached(c)
RemoveStep(c) == BeginRemove(c) \/ DeleteNext(c) \/ FinishRemove(c) \/ FailRemove(c)
TenantStep(c, scope) ==
    \/ GetTenantScoped(c, scope) \/ SetTenantScoped(c, scope)
    \/ DeleteTenantScoped(c, scope) \/ Invalidate(c, scope)
Next ==
    \/ \E c \in Clients : CallStep(c) \/ RemoveStep(c)
    \/ \E c \in Clients, scope \in Scoped : TenantStep(c, scope)
    \/ Expire \/ Write

Spec == Init /\ [][Next]_vars

----------------------------------------------------------------------------
(* Properties.                                                             *)

Answered(c) == At(c, "done") /\ job[c].does = "call"

\* When a removal has ended that began while no call of its prefix was between
\* its reading and the end of its store, no later call is given anything read
\* before the removal: neither from a key that another call stored between the
\* deletion of one key and of the next, nor after a removal that failed half-way.
FreshAfterRemoval ==
    \A c \in Clients : Answered(c) /\ reply[c] # Nothing =>
        reply[c].version >= job[c].since[job[c].function]

\* A call that is answered got what is stored or else its function has returned
\* just once, whatever fails in Redis, before or after it.  (If the function
\* raises, it is started a second time.)
WorkDoneOnce ==
    \A c \in Clients :
        /\ runs[c] <= 1
        /\ Answered(c) /\ runs[c] = 0 => reply[c] # Nothing

\* Every key that is made for a tenant, and a user, tells of whose it is, unless
\* "user" is the type of the key: then the user it tells of is the part after
\* that, "tenant" (extract_tenant_context).
TellsOf(key, type, scope) ==
    ExtractTenantContext(key) =
        [tenant |-> scope.tenant, user |-> IF type = "user" THEN "tenant" ELSE scope.user]
KeysTellOf(scope) ==
    /\ TellsOf(KeyFor(scope), scope.base[1], scope)
    /\ \A id \in Users \cup {None} :
         /\ TellsOf(MakeAuthCacheKey(scope.base, scope.tenant, scope.user, id),
                    scope.base[1], scope)
         /\ scope.user # None =>
              /\ TellsOf(MakeSessionKey(scope.base, scope.tenant, scope.user, id),
                         scope.base[1], scope)
              /\ TellsOf(MakePermissionKey(scope.tenant, scope.user, "user", id),
                         "permissions", scope)

\* What one tenant, or one user of a tenant, stores, no other is given, and the
\* keys that they use tell whose they are (TenantCacheManager, CustomKeyMaker).
TenantsApart ==
    \A c \in Clients : job[c] # None /\ job[c].does \in {"get", "set", "delete"} =>
        /\ KeysTellOf(job[c].scope)
        /\ At(c, "done") /\ job[c].does = "get" =>
             reply[c] \in {None, Nothing, job[c].scope}
============================================================================
