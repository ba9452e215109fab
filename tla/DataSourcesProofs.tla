------------------------- MODULE DataSourcesProofs -------------------------
(***************************************************************************)
(* The safety of DataSources, for any set of requests, any faults and any  *)
(* number of crashes.                                                      *)
(*                                                                         *)
(* The properties are not inductive by themselves.  IInv adds what the     *)
(* code relies on without saying so: which sessions may hold an            *)
(* uncommitted write and at which step (SessionInv), that those writes     *)
(* exclude each other (LockInv), that nothing else runs while the upload   *)
(* has not committed (UploadInv), and how far a deletion has come          *)
(* (DeleteInv).                                                            *)
(***************************************************************************)
EXTENDS DataSources, TLAPS

\* Uncommitted writes of the schema row and of its parent exclude each other.
LockInv ==
    \A r, o \in Requests : r # o =>
        /\ ~(WritesSchema(r) /\ WritesSchema(o))
        /\ ~(WritesSchema(r) /\ tx[o].deleted)
        /\ ~(tx[r].deleted /\ tx[o].deleted)

\* Where in its handler a session has uncommitted writes, and which.
WriteSteps ==
    {"checkFile", "mark", "extract", "llm", "markFailed", "raise", "leaked", "commit"}
SessionOK(r) ==
    /\ Running(r) => WritesSchema(r)
    /\ WritesSchema(r) =>
          /\ row = "live" /\ ~tx[r].deleted /\ ~tx[r].created
          /\ pc[r] \in WriteSteps
          /\ At(r, "commit") =>
                tx[r].schema.status = "completed" /\ tx[r].schema.ready
    /\ tx[r].deleted => At(r, "commit") /\ row = "live"
    /\ tx[r].created => At(r, "commit") /\ row = "none" /\ ~tx[r].deleted
SessionInv == \A r \in Requests : SessionOK(r)

\* Until the upload commits, it is the only request.
Uploading(r) == pc[r] \in {"persist", "insertRow"} \/ tx[r].created
UploadInv ==
    /\ (\A r \in Requests : At(r, "idle")) => row = "none"
    /\ \A r \in Requests : Uploading(r) =>
          /\ row = "none"
          /\ \A o \in Others(r) : At(o, "idle")
          /\ (At(r, "insertRow") \/ tx[r].created) => file

DeleteSteps == {"deleteFetch", "unlink", "dropChunks", "deleteRow"}
DeleteOK(r) ==
    /\ pc[r] \in DeleteSteps => kind[r] = "delete"
    /\ kind[r] = "delete" => pc[r] \in DeleteSteps \cup {"commit", "ok", "failed"}
    /\ At(r, "commit") /\ kind[r] = "delete" => tx[r].deleted \/ row # "live"
DeleteInv == \A r \in Requests : DeleteOK(r)

IInv ==
    /\ TypeOK
    /\ LockInv
    /\ SessionInv
    /\ UploadInv
    /\ DeleteInv
    /\ OnlyFinishedIsVisible
    /\ SchemaHasDataSource
    /\ LostRaceIsRecovered
    /\ FileLostOnlyByDelete

----------------------------------------------------------------------------
(* Rows and sessions, so that the steps below need not open the records.   *)

LEMMA SchemaRows ==
    /\ NoSchema \in SchemaRow /\ ~NoSchema.ready
    /\ NewSchema \in SchemaRow /\ NewSchema # NoSchema
    /\ \A s \in SchemaRow :
          /\ Extracting(s) \in SchemaRow /\ Extracting(s) # NoSchema
          /\ Failed(s) \in SchemaRow /\ Failed(s) # NoSchema
    /\ \A c \in BOOLEAN :
          /\ Completed(c) \in SchemaRow /\ Completed(c) # NoSchema
          /\ Completed(c).status = "completed" /\ Completed(c).ready
<1>1. NoSchema \in SchemaRow /\ ~NoSchema.ready /\ NoSchema.status = "absent"
  BY DEF NoSchema, SchemaRow, Status
<1>2. NewSchema \in SchemaRow /\ NewSchema.status = "pending"
  BY <1>1 DEF NewSchema, SchemaRow, Status, NoSchema
<1>3. ASSUME NEW s \in SchemaRow
      PROVE  /\ Extracting(s) \in SchemaRow /\ Extracting(s).status = "extracting"
             /\ Failed(s) \in SchemaRow /\ Failed(s).status = "failed"
  BY DEF Extracting, Failed, SchemaRow, Status
<1>4. ASSUME NEW c \in BOOLEAN
      PROVE  /\ Completed(c) \in SchemaRow /\ Completed(c).status = "completed"
             /\ Completed(c).ready
  BY DEF Completed, SchemaRow, Status
<1>5. QED
  BY <1>1, <1>2, <1>3, <1>4

LEMMA Sessions ==
    /\ NoTx \in Tx /\ ~NoTx.created /\ ~NoTx.deleted /\ NoTx.schema = NoSchema
    /\ \A t \in Tx :
          /\ t.schema \in SchemaRow /\ t.created \in BOOLEAN
          /\ t.deleted \in BOOLEAN /\ t.meta \in BOOLEAN
          /\ \A s \in SchemaRow : [t EXCEPT !.schema = s] \in Tx
          /\ \A b \in BOOLEAN :
                /\ [t EXCEPT !.created = b] \in Tx
                /\ [t EXCEPT !.deleted = b] \in Tx
                /\ [t EXCEPT !.meta = b] \in Tx
  BY SchemaRows DEF NoTx, Tx

----------------------------------------------------------------------------
(* What the control operators do to pc, kind and tx.                       *)

\* A step of r leaves the other requests and their sessions alone.
Frame(r) ==
    \A o \in Others(r) : pc'[o] = pc[o] /\ tx'[o] = tx[o] /\ kind'[o] = kind[o]

LEMMA GotoEffect ==
    ASSUME TypeOK, NEW r \in Requests, NEW step \in Steps, Goto(r, step)
    PROVE  /\ pc' \in [Requests -> Steps] /\ pc'[r] = step
           /\ \A o \in Others(r) : pc'[o] = pc[o]
  BY DEF TypeOK, Goto, Others

LEMMA FlushEffect ==
    ASSUME TypeOK, NEW r \in Requests, NEW s \in SchemaRow, FlushSchema(r, s)
    PROVE  /\ tx' \in [Requests -> Tx] /\ tx'[r].schema = s
           /\ tx'[r].created = tx[r].created /\ tx'[r].deleted = tx[r].deleted
           /\ \A o \in Others(r) : tx'[o] = tx[o]
  BY DEF TypeOK, FlushSchema, Others, Tx

LEMMA WriteEffect ==
    ASSUME TypeOK, NEW r \in Requests, NEW b \in BOOLEAN
    PROVE  /\ tx' = [tx EXCEPT ![r].created = b] =>
                 /\ tx' \in [Requests -> Tx] /\ tx'[r].created = b
                 /\ tx'[r].deleted = tx[r].deleted /\ tx'[r].schema = tx[r].schema
                 /\ \A o \in Others(r) : tx'[o] = tx[o]
           /\ tx' = [tx EXCEPT ![r].deleted = b] =>
                 /\ tx' \in [Requests -> Tx] /\ tx'[r].deleted = b
                 /\ tx'[r].created = tx[r].created /\ tx'[r].schema = tx[r].schema
                 /\ \A o \in Others(r) : tx'[o] = tx[o]
           /\ tx' = [tx EXCEPT ![r].meta = b] =>
                 /\ tx' \in [Requests -> Tx] /\ tx'[r].deleted = tx[r].deleted
                 /\ tx'[r].created = tx[r].created /\ tx'[r].schema = tx[r].schema
                 /\ \A o \in Others(r) : tx'[o] = tx[o]
  BY DEF TypeOK, Others, Tx

LEMMA EndEffect ==
    ASSUME TypeOK, NEW r \in Requests, EndTx(r)
    PROVE  /\ tx' \in [Requests -> Tx] /\ tx'[r] = NoTx
           /\ \A o \in Others(r) : tx'[o] = tx[o]
  BY Sessions DEF TypeOK, Others, EndTx

LEMMA RaiseEffect ==
    ASSUME TypeOK, NEW r \in Requests, Raise(r)
    PROVE  /\ pc' \in [Requests -> Steps] /\ tx' \in [Requests -> Tx]
           /\ \/ pc'[r] = "leaked" /\ tx' = tx /\ kind[r] # "delete"
              \/ pc'[r] = "failed" /\ tx'[r] = NoTx
           /\ \A o \in Others(r) : pc'[o] = pc[o] /\ tx'[o] = tx[o]
<1>1. {"leaked", "failed"} \subseteq Steps
  BY DEF Steps, Terminal
<1>2. CASE kind[r] \in Background
  BY <1>1, <1>2, GotoEffect DEF Raise, TypeOK, Background
<1>3. CASE kind[r] \notin Background
  BY <1>1, <1>3, GotoEffect, EndEffect DEF Raise
<1>4. QED
  BY <1>2, <1>3

LEMMA ContinueEffect ==
    ASSUME TypeOK, NEW r \in Requests, Continue(r)
    PROVE  /\ pc' \in [Requests -> Steps]
           /\ kind' \in [Requests -> RequestKinds \cup Background]
           /\ pc'[r] \in {"ok", "fetch", "indexFetch"}
           /\ kind[r] = "delete" => pc'[r] = "ok" /\ kind' = kind
           /\ kind[r] # "delete" => kind'[r] # "delete"
           /\ \A o \in Others(r) : pc'[o] = pc[o] /\ kind'[o] = kind[o]
<1>1. {"ok", "fetch", "indexFetch"} \subseteq Steps
  BY DEF Steps, Terminal
<1>2. ASSUME NEW k \in Background, kind' = [kind EXCEPT ![r] = k]
      PROVE  /\ kind' \in [Requests -> RequestKinds \cup Background]
             /\ kind'[r] = k
             /\ \A o \in Others(r) : kind'[o] = kind[o]
  BY <1>2 DEF TypeOK, Others
<1>3. QED
  BY <1>1, <1>2, GotoEffect DEF Continue, Background, TypeOK

----------------------------------------------------------------------------
(* Type correctness.                                                       *)

LEMMA StepTypes ==
    ASSUME TypeOK, NEW r \in Requests, Step(r)
    PROVE  TypeOK' /\ Frame(r)
<1> USE DEF TypeOK, Frame, committed
<1>0. Terminal \cup {"persist", "insertRow", "fetch", "lookup", "insert",
        "refetch", "checkFile", "mark", "extract", "llm", "markFailed",
        "raise", "commit", "indexFetch", "readFile", "embed", "upsert",
        "saveMeta", "unindex", "deleteFetch", "unlink", "dropChunks",
        "deleteRow", "leaked"} \subseteq Steps
  BY DEF Steps
<1>1. CASE Upload(r)
  <2>1. CASE RejectUpload(r)
    BY <2>1, RaiseEffect DEF RejectUpload
  <2>2. CASE PersistFile(r)
    BY <2>2, <1>0, GotoEffect DEF PersistFile
  <2>3. CASE InsertRow(r)
    <3>1. tx' = [tx EXCEPT ![r].created = TRUE]
      BY <2>3 DEF InsertRow
    <3>2. QED
      BY <2>3, <3>1, <1>0, GotoEffect, WriteEffect, TRUE \in BOOLEAN DEF InsertRow
  <2>4. QED
    BY <1>1, <2>1, <2>2, <2>3 DEF Upload
<1>2. CASE Process(r)
  <2>1. CASE FetchDataSource(r) \/ CheckFile(r) \/ RaiseError(r)
    BY <2>1, <1>0, GotoEffect, RaiseEffect DEF FetchDataSource, CheckFile, RaiseError
  <2>2. CASE LookupSchema(r)
    BY <2>2, <1>0, GotoEffect, ContinueEffect DEF LookupSchema
  <2>3. CASE Refetch(r)
    BY <2>3, RaiseEffect, ContinueEffect DEF Refetch
  <2>4. CASE InsertSchema(r)
    BY <2>4, <1>0, SchemaRows, GotoEffect, FlushEffect DEF InsertSchema
  <2>5. CASE MarkExtracting(r) \/ MarkFailed(r)
    <3>1. Seen(r) \in SchemaRow
      BY Sessions DEF Seen
    <3>2. QED
      BY <2>5, <3>1, <1>0, SchemaRows, GotoEffect, FlushEffect, RaiseEffect
         DEF MarkExtracting, MarkFailed
  <2>6. CASE Extract(r)
    BY <2>6, <1>0, SchemaRows, GotoEffect, FlushEffect DEF Extract, Complete
  <2>7. CASE MapAndEnrich(r)
    BY <2>7, <1>0, SchemaRows, GotoEffect, FlushEffect DEF MapAndEnrich, Complete
  <2>8. QED
    BY <1>2, <2>1, <2>2, <2>3, <2>4, <2>5, <2>6, <2>7 DEF Process
<1>3. CASE Index(r)
  <2>1. CASE IndexFetch(r) \/ ReadFile(r) \/ Embed(r)
    BY <2>1, <1>0, GotoEffect, RaiseEffect DEF IndexFetch, ReadFile, Embed
  <2>2. CASE Upsert(r)
    BY <2>2, <1>0, GotoEffect, RaiseEffect DEF Upsert
  <2>3. CASE Unindex(r)
    BY <2>3, RaiseEffect, ContinueEffect DEF Unindex
  <2>4. CASE SaveMeta(r)
    <3>1. CASE tx' = [tx EXCEPT ![r].meta = TRUE] /\ Goto(r, "commit")
      <4>1. tx' \in [Requests -> Tx] /\ \A o \in Others(r) : tx'[o] = tx[o]
        BY <3>1, WriteEffect
      <4>2. pc' \in [Requests -> Steps] /\ \A o \in Others(r) : pc'[o] = pc[o]
        BY <3>1, <1>0, GotoEffect
      <4>3. QED
        BY <2>4, <4>1, <4>2 DEF SaveMeta
    <3>2. CASE Raise(r)
      BY <2>4, <3>2, RaiseEffect DEF SaveMeta
    <3>3. QED
      BY <2>4, <3>1, <3>2 DEF SaveMeta
  <2>5. QED
    BY <1>3, <2>1, <2>2, <2>3, <2>4 DEF Index
<1>4. CASE Delete(r)
  <2>1. CASE DeleteFetch(r)
    BY <2>1, <1>0, GotoEffect, RaiseEffect DEF DeleteFetch
  <2>2. CASE Unlink(r) \/ DropChunks(r)
    BY <2>2, <1>0, GotoEffect DEF Unlink, DropChunks
  <2>3. CASE DeleteRow(r)
    BY <2>3, <1>0, GotoEffect, WriteEffect DEF DeleteRow
  <2>4. QED
    BY <1>4, <2>1, <2>2, <2>3 DEF Delete
<1>5. CASE End(r)
  <2>1. CASE Commit(r)
    BY <2>1, Sessions, SchemaRows, EndEffect, ContinueEffect DEF Commit, Seen
  <2>2. CASE CommitFails(r) \/ Reclaim(r)
    BY <2>2, <1>0, GotoEffect, EndEffect DEF CommitFails, Reclaim, Terminal
  <2>3. QED
    BY <1>5, <2>1, <2>2 DEF End
<1>6. QED
  BY <1>1, <1>2, <1>3, <1>4, <1>5 DEF Step

----------------------------------------------------------------------------
(* The inductive invariant.                                                *)


\* Only a commit changes what other sessions see, and two steps the file.
LEMMA StepShared ==
    ASSUME NEW r \in Requests, Step(r)
    PROVE  /\ Commit(r) \/ UNCHANGED <<row, schema>>
           /\ PersistFile(r) \/ Unlink(r) \/ UNCHANGED file
<1> USE DEF committed
<1>1. CASE Upload(r)
  BY <1>1 DEF Upload, RejectUpload, PersistFile, InsertRow
<1>2. CASE Process(r)
  BY <1>2 DEF Process, FetchDataSource, LookupSchema, InsertSchema, Refetch,
     CheckFile, MarkExtracting, Extract, MapAndEnrich, MarkFailed, RaiseError
<1>3. CASE Index(r)
  BY <1>3 DEF Index, IndexFetch, ReadFile, Embed, Upsert, SaveMeta, Unindex
<1>4. CASE Delete(r)
  BY <1>4 DEF Delete, DeleteFetch, Unlink, DropChunks, DeleteRow
<1>5. CASE End(r)
  BY <1>5 DEF End, Commit, CommitFails, Reclaim
<1>6. QED
  BY <1>1, <1>2, <1>3, <1>4, <1>5 DEF Step


\* A session begins to write only what no other session has written.
Locks(r) ==
    /\ (WritesSchema(r))' =>
          \/ WritesSchema(r)
          \/ ~UpdateWaits(r)
          \/ ~InsertWaits(r) /\ schema = NoSchema
    /\ tx'[r].deleted => tx[r].deleted \/ ~DeleteWaits(r)

\* An upload does not go back, no request becomes idle again, the handler
\* comes to refetch only past a row that is there or a parent that is not,
\* and a deletion that removed the file ends with its row or fails.
PastUnlink(r) ==
    kind[r] = "delete" /\ pc[r] \in {"dropChunks", "deleteRow", "commit", "failed"}
Advances(r) ==
    /\ ~At(r, "idle") /\ pc'[r] # "idle"
    /\ (Uploading(r))' => PersistFile(r) \/ InsertRow(r)
    /\ pc'[r] = "refetch" => InsertSchema(r) /\ ~(schema = NoSchema /\ row = "live")
    /\ PastUnlink(r) /\ row = "live" /\ row' = "live" => (PastUnlink(r))'

LEMMA StepRequest ==
    ASSUME IInv, NEW r \in Requests, Step(r), TypeOK'
    PROVE  /\ (SessionOK(r))' /\ (DeleteOK(r))'
           /\ Locks(r) /\ Advances(r)
<1> USE DEF IInv, SessionInv, SessionOK, WriteSteps, Running, WritesSchema, At,
            DeleteInv, DeleteOK, DeleteSteps, Locks, Advances, Uploading,
            PastUnlink, committed
<1>0. /\ Terminal \cup WriteSteps \cup
            {"persist", "insertRow", "lookup", "insert", "refetch", "readFile",
             "embed", "upsert", "saveMeta", "unlink", "dropChunks", "deleteRow"}
            \subseteq Steps
      /\ "failed" \in Terminal
  BY DEF Steps, Terminal
<1>1. CASE Upload(r)
  <2>1. CASE RejectUpload(r)
    BY <2>1, Sessions, RaiseEffect DEF RejectUpload
  <2>2. CASE PersistFile(r)
    BY <2>2, <1>0, GotoEffect DEF PersistFile
  <2>3. CASE InsertRow(r)
    <3>1. tx' = [tx EXCEPT ![r].created = TRUE]
      BY <2>3 DEF InsertRow
    <3>2. row = "none"
      BY <2>3 DEF InsertRow, UploadInv, Uploading
    <3>3. QED
      BY <2>3, <3>1, <3>2, <1>0, GotoEffect, WriteEffect, TRUE \in BOOLEAN DEF InsertRow
  <2>4. QED
    BY <1>1, <2>1, <2>2, <2>3 DEF Upload
<1>2. CASE Process(r)
  <2>1. CASE FetchDataSource(r) \/ CheckFile(r) \/ RaiseError(r)
    BY <2>1, <1>0, Sessions, GotoEffect, RaiseEffect
       DEF FetchDataSource, CheckFile, RaiseError
  <2>2. CASE LookupSchema(r)
    <3>1. ~WritesSchema(r) /\ ~tx[r].deleted /\ ~tx[r].created
      BY <2>2 DEF LookupSchema
    <3>2. /\ pc'[r] \in {"ok", "fetch", "indexFetch", "insert", "checkFile"}
          /\ kind[r] # "delete" /\ kind'[r] # "delete"
      BY <2>2, <1>0, GotoEffect, ContinueEffect DEF LookupSchema
    <3>3. QED
      BY <2>2, <3>1, <3>2 DEF LookupSchema
  <2>3. CASE Refetch(r)
    BY <2>3, Sessions, RaiseEffect, ContinueEffect DEF Refetch
  <2>4. CASE InsertSchema(r)
    <3>1. ~WritesSchema(r) /\ ~tx[r].deleted /\ ~tx[r].created
      BY <2>4 DEF InsertSchema
    <3>2. CASE schema = NoSchema /\ row = "live"
      BY <2>4, <3>1, <3>2, <1>0, SchemaRows, GotoEffect, FlushEffect DEF InsertSchema
    <3>3. CASE ~(schema = NoSchema /\ row = "live")
      BY <2>4, <3>1, <3>3, <1>0, GotoEffect DEF InsertSchema
    <3>4. QED
      BY <3>2, <3>3
  <2>5. CASE MarkExtracting(r) \/ MarkFailed(r)
    <3>1. Seen(r) \in SchemaRow
      BY Sessions DEF Seen, TypeOK
    <3>2. Seen(r) # NoSchema => row = "live"
      BY DEF Seen, SchemaHasDataSource
    <3>3. QED
      BY <2>5, <3>1, <3>2, <1>0, SchemaRows, Sessions, GotoEffect, FlushEffect, RaiseEffect
         DEF MarkExtracting, MarkFailed
  <2>6. CASE Extract(r)
    <3>1. ASSUME NEW c \in BOOLEAN, Complete(r, c)
          PROVE  (SessionOK(r))' /\ (DeleteOK(r))' /\ Locks(r) /\ Advances(r)
      BY <2>6, <3>1, <1>0, SchemaRows, GotoEffect, FlushEffect DEF Extract, Complete
    <3>2. CASE Goto(r, "llm") /\ UNCHANGED tx
      BY <2>6, <3>2, <1>0, GotoEffect DEF Extract
    <3>3. CASE Goto(r, "markFailed") /\ UNCHANGED tx
      BY <2>6, <3>3, <1>0, GotoEffect DEF Extract
    <3>4. QED
      BY <2>6, <3>1, <3>2, <3>3, TRUE \in BOOLEAN DEF Extract
  <2>7. CASE MapAndEnrich(r)
    BY <2>7, <1>0, SchemaRows, GotoEffect, FlushEffect DEF MapAndEnrich, Complete
  <2>8. QED
    BY <1>2, <2>1, <2>2, <2>3, <2>4, <2>5, <2>6, <2>7 DEF Process
<1>3. CASE Index(r)
  <2>1. CASE IndexFetch(r) \/ ReadFile(r) \/ Embed(r)
    BY <2>1, <1>0, Sessions, GotoEffect, RaiseEffect DEF IndexFetch, ReadFile, Embed
  <2>2. CASE Upsert(r)
    BY <2>2, <1>0, Sessions, GotoEffect, RaiseEffect DEF Upsert
  <2>3. CASE Unindex(r)
    BY <2>3, Sessions, RaiseEffect, ContinueEffect DEF Unindex
  <2>4. CASE SaveMeta(r)
    <3>1. CASE tx' = [tx EXCEPT ![r].meta = TRUE] /\ Goto(r, "commit")
      <4>1. /\ tx'[r].schema = tx[r].schema /\ tx'[r].created = tx[r].created
            /\ tx'[r].deleted = tx[r].deleted
        BY <3>1, WriteEffect
      <4>2. pc'[r] = "commit"
        BY <3>1, <1>0, GotoEffect
      <4>3. QED
        BY <2>4, <4>1, <4>2 DEF SaveMeta
    <3>2. CASE Raise(r)
      BY <2>4, <3>2, Sessions, RaiseEffect DEF SaveMeta
    <3>3. QED
      BY <2>4, <3>1, <3>2 DEF SaveMeta
  <2>5. QED
    BY <1>3, <2>1, <2>2, <2>3, <2>4 DEF Index
<1>4. CASE Delete(r)
  <2>1. CASE DeleteFetch(r)
    BY <2>1, <1>0, Sessions, GotoEffect, RaiseEffect DEF DeleteFetch
  <2>2. CASE Unlink(r) \/ DropChunks(r)
    BY <2>2, <1>0, GotoEffect DEF Unlink, DropChunks
  <2>3. CASE DeleteRow(r)
    <3>1. /\ tx'[r].deleted = (row = "live") /\ tx'[r].schema = tx[r].schema
          /\ tx'[r].created = tx[r].created
      BY <2>3, WriteEffect DEF DeleteRow
    <3>2. pc'[r] = "commit"
      BY <2>3, <1>0, GotoEffect DEF DeleteRow
    <3>3. QED
      BY <2>3, <3>1, <3>2 DEF DeleteRow
  <2>4. QED
    BY <1>4, <2>1, <2>2, <2>3 DEF Delete
<1>5. CASE End(r)
  <2>1. CASE Commit(r)
    BY <2>1, Sessions, EndEffect, ContinueEffect DEF Commit
  <2>2. CASE CommitFails(r) \/ Reclaim(r)
    BY <2>2, <1>0, Sessions, GotoEffect, EndEffect DEF CommitFails, Reclaim
  <2>3. QED
    BY <1>5, <2>1, <2>2 DEF End
<1>6. QED
  BY <1>1, <1>2, <1>3, <1>4, <1>5 DEF Step

LEMMA StepLock ==
    ASSUME IInv, NEW r \in Requests, Locks(r), Frame(r)
    PROVE  LockInv'
<1> DEFINE Excluded == \A o \in Others(r) : ~WritesSchema(o) /\ ~tx[o].deleted
<1>1. (WritesSchema(r))' => WritesSchema(r) \/ Excluded
  BY DEF Locks, UpdateWaits, InsertWaits
<1>2. tx'[r].deleted => tx[r].deleted \/ Excluded
  BY DEF Locks, DeleteWaits, UpdateWaits
<1>3. QED
  BY <1>1, <1>2 DEF IInv, LockInv, WritesSchema, Frame, Others

----------------------------------------------------------------------------
(* The upload.                                                             *)

LEMMA StepUpload ==
    ASSUME IInv, NEW r \in Requests, Step(r), (SessionOK(r))', Advances(r), Frame(r)
    PROVE  UploadInv'
<1> USE DEF IInv, UploadInv, At
<1>1. (\A o \in Requests : pc'[o] = "idle") => row' = "none"
  BY DEF Advances
<1>2. ASSUME NEW u \in Requests, (Uploading(u))'
      PROVE  u = r /\ (PersistFile(r) \/ InsertRow(r)) /\ Uploading(r)
  <2>1. u = r
    BY <1>2 DEF Uploading, Frame, Others, Advances
  <2>2. QED
    BY <1>2, <2>1 DEF Advances, PersistFile, InsertRow, Uploading
<1>3. ASSUME NEW u \in Requests, (Uploading(u))'
      PROVE  /\ row' = "none"
             /\ \A o \in Others(u) : pc'[o] = "idle"
             /\ pc'[u] = "insertRow" \/ tx'[u].created => file'
  <2>1. u = r /\ Uploading(r) /\ (PersistFile(r) \/ InsertRow(r))
    BY <1>2, <1>3
  <2>2. row' = "none" /\ \A o \in Others(r) : pc'[o] = "idle"
    BY <2>1 DEF Frame, PersistFile, InsertRow, committed
  <2>3. file'
    BY <2>1 DEF PersistFile, InsertRow
  <2>4. QED
    BY <2>1, <2>2, <2>3
<1>4. QED
  BY <1>1, <1>3 DEF Others

----------------------------------------------------------------------------
(* The committed schema and the stored file.                               *)

LEMMA StepVisible ==
    ASSUME IInv, NEW r \in Requests, Step(r), TypeOK'
    PROVE  OnlyFinishedIsVisible' /\ SchemaHasDataSource'
<1> USE DEF IInv, OnlyFinishedIsVisible, SchemaHasDataSource
<1>1. CASE UNCHANGED <<row, schema>>
  BY <1>1
<1>2. CASE Commit(r)
  BY <1>2 DEF Commit, Seen, SessionInv, SessionOK
<1>3. QED
  BY <1>1, <1>2, StepShared

LEMMA StepRefetch ==
    ASSUME IInv, NEW r \in Requests, Step(r), Frame(r), Advances(r),
           OnlyFinishedIsVisible'
    PROVE  LostRaceIsRecovered'
<1> SUFFICES ASSUME NEW o \in Requests, pc'[o] = "refetch", row' = "live"
             PROVE  schema'.status = "completed"
  BY DEF LostRaceIsRecovered, At
<1> USE DEF IInv, OnlyFinishedIsVisible
<1>1. schema.status = "completed" => schema # NoSchema
  BY DEF NoSchema
<1>2. CASE o = r
  BY <1>2 DEF Advances, InsertSchema, committed
<1>3. CASE o # r
  <2>1. pc[o] = "refetch"
    BY <1>3 DEF Frame, Others
  <2>2. CASE UNCHANGED <<row, schema>>
    BY <2>1, <2>2 DEF LostRaceIsRecovered, At
  <2>3. CASE Commit(r)
    <3>1. ~tx[r].created
      BY <1>3, <2>1 DEF UploadInv, Uploading, Others, At
    <3>2. row = "live" /\ schema' = Seen(r)
      BY <2>3, <3>1 DEF Commit
    <3>3. Seen(r) # NoSchema
      BY <1>1, <2>1, <3>2 DEF Seen, WritesSchema, LostRaceIsRecovered, At
    <3>4. QED
      BY <3>2, <3>3
  <2>4. QED
    BY <2>2, <2>3, StepShared
<1>4. QED
  BY <1>2, <1>3

LEMMA StepFile ==
    ASSUME IInv, NEW r \in Requests, Step(r), Frame(r), Advances(r)
    PROVE  FileLostOnlyByDelete'
<1> SUFFICES ASSUME row' = "live", ~file'
             PROVE  \E w \in Requests : (PastUnlink(w))'
  BY DEF FileLostOnlyByDelete, PastUnlink
<1> USE DEF IInv
<1>1. CASE Unlink(r)
  <2>1. pc'[r] = "dropChunks" /\ kind'[r] = "delete"
    BY <1>1, GotoEffect DEF Unlink, At, DeleteInv, DeleteOK, DeleteSteps, Steps
  <2>2. QED
    BY <2>1 DEF PastUnlink
<1>2. CASE ~Unlink(r)
  <2>1. ~file
    BY <1>2, StepShared DEF PersistFile
  <2>2. row = "live"
    <3>1. CASE UNCHANGED <<row, schema>>
      BY <3>1
    <3>2. CASE Commit(r)
      <4>1. ~tx[r].created
        BY <2>1 DEF UploadInv, Uploading
      <4>2. QED
        BY <3>2, <4>1 DEF Commit
    <3>3. QED
      BY <3>1, <3>2, StepShared
  <2>3. PICK w \in Requests : PastUnlink(w)
    BY <2>1, <2>2 DEF FileLostOnlyByDelete, PastUnlink
  <2>4. CASE w # r
    BY <2>3, <2>4 DEF Frame, Others, PastUnlink
  <2>5. CASE w = r
    BY <2>2, <2>3, <2>5 DEF Advances
  <2>6. QED
    BY <2>4, <2>5
<1>3. QED
  BY <1>1, <1>2

----------------------------------------------------------------------------
(* The theorems.                                                           *)

LEMMA StepInv ==
    ASSUME IInv, NEW r \in Requests, Step(r)
    PROVE  IInv'
<1>1. TypeOK' /\ Frame(r)
  BY StepTypes DEF IInv
<1>2. (SessionOK(r))' /\ (DeleteOK(r))' /\ Locks(r) /\ Advances(r)
  BY <1>1, StepRequest
<1>3. LockInv' /\ UploadInv' /\ OnlyFinishedIsVisible' /\ SchemaHasDataSource'
  BY <1>1, <1>2, StepLock, StepUpload, StepVisible
<1>4. LostRaceIsRecovered' /\ FileLostOnlyByDelete'
  BY <1>1, <1>2, <1>3, StepRefetch, StepFile
<1>5. ASSUME NEW o \in Others(r)
      PROVE  (SessionOK(o))' /\ (DeleteOK(o))'
  <2>1. SessionOK(o) /\ DeleteOK(o) /\ o # r
    BY DEF IInv, SessionInv, DeleteInv, Others
  <2>2. pc'[o] = pc[o] /\ tx'[o] = tx[o] /\ kind'[o] = kind[o]
    BY <1>1 DEF Frame
  <2>3. CASE UNCHANGED <<row, schema>>
    BY <2>1, <2>2, <2>3
       DEF SessionOK, DeleteOK, Running, WritesSchema, At
  <2>4. CASE Commit(r)
    <3>1. WritesSchema(o) \/ tx[o].deleted => row' = row
      <4>1. WritesSchema(o) \/ tx[o].deleted => ~tx[r].deleted
        BY <2>1 DEF IInv, LockInv, Others
      <4>2. WritesSchema(o) \/ tx[o].deleted => ~tx[r].created
        BY <2>1 DEF IInv, SessionInv, SessionOK
      <4>3. QED
        BY <2>4, <4>1, <4>2 DEF Commit
    <3>2. ~tx[o].created /\ (At(o, "commit") => ~tx[r].created)
      BY <2>1, <2>4 DEF IInv, UploadInv, Uploading, Others, Commit, At
    <3>3. At(o, "commit") /\ row # "live" => row' # "live"
      BY <2>4, <3>2 DEF Commit
    <3>4. QED
      BY <2>1, <2>2, <3>1, <3>2, <3>3
         DEF SessionOK, DeleteOK, Running, WritesSchema, At
  <2>5. QED
    BY <2>3, <2>4, StepShared
<1>6. SessionInv' /\ DeleteInv'
  BY <1>2, <1>5 DEF SessionInv, DeleteInv, Others
<1>7. QED
  BY <1>1, <1>3, <1>4, <1>6 DEF IInv

LEMMA StartInv ==
    ASSUME IInv, NEW r \in Requests, NEW k \in RequestKinds, Start(r, k)
    PROVE  IInv'
<1> DEFINE first == FirstStep[k]
<1>1. /\ first \in {"persist", "fetch", "indexFetch", "unindex", "deleteFetch"}
      /\ first = "persist" => k = "upload"
      /\ first = "deleteFetch" <=> k = "delete"
  BY DEF FirstStep, RequestKinds
<1>2. first \in Steps
  BY <1>1 DEF Steps
<1>3. /\ At(r, "idle") /\ pc'[r] = first /\ kind'[r] = k
      /\ \A o \in Others(r) : pc'[o] = pc[o] /\ kind'[o] = kind[o]
      /\ UNCHANGED <<row, schema, file, tx>>
  BY <1>2, GotoEffect DEF Start, IInv, TypeOK, Others, committed
<1>4. TypeOK'
  BY <1>2, GotoEffect DEF Start, IInv, TypeOK, committed
<1>5. ~WritesSchema(r) /\ ~tx[r].deleted /\ ~tx[r].created
  BY <1>3 DEF IInv, SessionInv, SessionOK, WriteSteps, At
<1>6. SessionInv'
  BY <1>1, <1>3, <1>5
     DEF IInv, SessionInv, SessionOK, Running, WritesSchema, At, Others
<1>7. DeleteInv'
  BY <1>1, <1>3 DEF IInv, DeleteInv, DeleteOK, DeleteSteps, At, Others
<1>8. UploadInv'
  <2>1. CASE k = "upload"
    <3>1. row = "none" /\ \A o \in Others(r) : pc'[o] = "idle"
      BY <1>3, <2>1 DEF Start, IInv, UploadInv, Others, At
    <3>2. \A o \in Requests : ~tx[o].created
      BY <1>3, <1>5, <2>1 DEF Start, IInv, SessionInv, SessionOK, At
    <3>3. QED
      BY <1>1, <1>3, <3>1, <3>2 DEF UploadInv, Uploading, Others, At
  <2>2. CASE k # "upload"
    <3>1. row # "none"
      BY <2>2 DEF Start
    <3>2. \A o \in Requests : ~(Uploading(o))'
      BY <1>1, <1>3, <2>2, <3>1 DEF IInv, UploadInv, Uploading, Others
    <3>3. QED
      BY <1>1, <1>3, <3>1, <3>2 DEF UploadInv, At
  <2>3. QED
    BY <2>1, <2>2
<1>9. LockInv' /\ OnlyFinishedIsVisible' /\ SchemaHasDataSource'
  BY <1>3 DEF IInv, LockInv, OnlyFinishedIsVisible, SchemaHasDataSource, WritesSchema
<1>10. LostRaceIsRecovered'
  BY <1>1, <1>3 DEF IInv, LostRaceIsRecovered, At, Others
<1>11. FileLostOnlyByDelete'
  BY <1>3 DEF IInv, FileLostOnlyByDelete, At, Others
<1>12. QED
  BY <1>4, <1>6, <1>7, <1>8, <1>9, <1>10, <1>11 DEF IInv

LEMMA CrashInv ==
    ASSUME IInv, Crash
    PROVE  IInv'
<1>1. /\ UNCHANGED <<row, indexedFlag, schema, file, chunks, kind>>
      /\ \A r \in Requests : tx'[r] = NoTx
      /\ \A r \in Requests :
            \/ pc[r] \in {"ok", "failed", "idle"} /\ pc'[r] = pc[r]
            \/ pc[r] \notin {"ok", "failed", "idle"} /\ pc'[r] = "failed"
  BY DEF Crash, committed, Terminal
<1>2. TypeOK'
  BY Sessions, CrashAssumption DEF Crash, committed, IInv, TypeOK, Steps, Terminal
<1>3. LockInv' /\ SessionInv'
  BY <1>1, Sessions DEF LockInv, SessionInv, SessionOK, Running, WritesSchema, At
<1>4. UploadInv'
  BY <1>1, Sessions DEF IInv, UploadInv, Uploading, At
<1>5. DeleteInv'
  BY <1>1 DEF IInv, DeleteInv, DeleteOK, DeleteSteps, At
<1>6. OnlyFinishedIsVisible' /\ SchemaHasDataSource' /\ LostRaceIsRecovered'
  BY <1>1 DEF IInv, OnlyFinishedIsVisible, SchemaHasDataSource, LostRaceIsRecovered, At
<1>7. FileLostOnlyByDelete'
  BY <1>1 DEF IInv, FileLostOnlyByDelete
<1>8. QED
  BY <1>2, <1>3, <1>4, <1>5, <1>6, <1>7 DEF IInv

LEMMA InitInv == Init => IInv
<1> SUFFICES ASSUME Init PROVE IInv
  OBVIOUS
<1> USE DEF Init
<1>1. TypeOK
  <2>1. tx \in [Requests -> Tx] /\ kind \in [Requests -> RequestKinds]
    BY Sessions DEF RequestKinds
  <2>2. pc \in [Requests -> Steps] /\ crashes \in 0..MaxCrashes /\ schema \in SchemaRow
    BY SchemaRows, CrashAssumption DEF Steps
  <2>3. QED
    BY <2>1, <2>2 DEF TypeOK
<1>2. LockInv /\ SessionInv
  BY Sessions DEF LockInv, SessionInv, SessionOK, Running, WritesSchema, At
<1>3. UploadInv /\ DeleteInv
  BY Sessions DEF UploadInv, Uploading, DeleteInv, DeleteOK, DeleteSteps, At
<1>4. QED
  BY <1>1, <1>2, <1>3 DEF IInv, OnlyFinishedIsVisible, SchemaHasDataSource,
     LostRaceIsRecovered, FileLostOnlyByDelete, At

LEMMA NextInv == IInv /\ [Next]_vars => IInv'
<1> SUFFICES ASSUME IInv, [Next]_vars PROVE IInv'
  OBVIOUS
<1>1. CASE \E r \in Requests : Step(r)
  BY <1>1, StepInv
<1>2. CASE \E r \in Requests, k \in RequestKinds : Start(r, k)
  BY <1>2, StartInv
<1>3. CASE Crash
  BY <1>3, CrashInv
<1>4. CASE UNCHANGED vars
  BY <1>4 DEF vars, committed, IInv, TypeOK, LockInv, SessionInv, SessionOK, Running,
     WritesSchema, UploadInv, Uploading, DeleteInv, DeleteOK, OnlyFinishedIsVisible,
     SchemaHasDataSource, LostRaceIsRecovered, FileLostOnlyByDelete, At
<1>5. QED
  BY <1>1, <1>2, <1>3, <1>4 DEF Next

\* The inductive invariant holds throughout: who holds which row's lock, what each session
\* has written and not committed, and how far each request is, for every interleaving of
\* requests, faults and crashes.  Every safety theorem below is read off it.
THEOREM Invariance == Spec => []IInv
  BY InitInv, NextInv, PTL DEF Spec

\* The types, and with them that no session ever holds a malformed row.
THEOREM TypeCorrect == Spec => []TypeOK
<1>1. IInv => TypeOK
  BY DEF IInv
<1>2. QED
  BY <1>1, Invariance, PTL

\* Mutual exclusion of the extraction and LLM phases: who runs them has an
\* uncommitted write of the schema row, and two of those exclude each other.
THEOREM MutualExclusion == Spec => []OnePipeline
<1>1. IInv => OnePipeline
  BY DEF IInv, SessionInv, SessionOK, LockInv, OnePipeline
<1>2. QED
  BY <1>1, Invariance, PTL

\* What the database shows of processing: finished schemas only, and none
\* without its data source.
THEOREM VisibleSchemas == Spec => [](OnlyFinishedIsVisible /\ SchemaHasDataSource)
<1>1. IInv => OnlyFinishedIsVisible /\ SchemaHasDataSource
  BY DEF IInv
<1>2. QED
  BY <1>1, Invariance, PTL

\* The IntegrityError handler finds a finished schema or no data source.
THEOREM RaceRecovery == Spec => []LostRaceIsRecovered
<1>1. IInv => LostRaceIsRecovered
  BY DEF IInv
<1>2. QED
  BY <1>1, Invariance, PTL

\* Only a deletion separates a listed data source from its stored file.
THEOREM StoredFile == Spec => []FileLostOnlyByDelete
<1>1. IInv => FileLostOnlyByDelete
  BY DEF IInv
<1>2. QED
  BY <1>1, Invariance, PTL

\* Readiness, once visible, ends only with the data source.
THEOREM Stability == Spec => ReadyIsStable
<1>1. IInv /\ [Next]_vars => [schema.ready => schema'.ready \/ row' = "gone"]_vars
  <2> SUFFICES ASSUME IInv, [Next]_vars, schema.ready
               PROVE  schema'.ready \/ row' = "gone"
    OBVIOUS
  <2>1. CASE UNCHANGED schema
    BY <2>1
  <2>2. ASSUME NEW r \in Requests, Commit(r)
        PROVE  schema'.ready \/ row' = "gone"
    <3>1. row = "live"
      BY SchemaRows DEF IInv, SchemaHasDataSource
    <3>2. ~tx[r].created /\ (WritesSchema(r) => tx[r].schema.ready)
      BY <2>2, <3>1 DEF IInv, SessionInv, SessionOK, Commit
    <3>3. QED
      BY <2>2, <3>2 DEF Commit, Seen
  <2>3. UNCHANGED schema \/ \E r \in Requests : Commit(r)
    <3>1. CASE \E r \in Requests : Step(r)
      BY <3>1, StepShared
    <3>2. CASE ~\E r \in Requests : Step(r)
      BY <3>2 DEF Next, Start, Crash, vars, committed
    <3>3. QED
      BY <3>1, <3>2
  <2>4. QED
    BY <2>1, <2>2, <2>3
<1>2. QED
  BY <1>1, Invariance, PTL DEF Spec, ReadyIsStable

----------------------------------------------------------------------------
(* The code implements ProcessingLease.                                    *)

LEMMA LeaseCommit ==
    ASSUME IInv, NEW r \in Requests, Commit(r), Frame(r), TypeOK'
    PROVE  [Lease!Next]_Lease!vars
<1> USE DEF IInv
<1>1. (Holders)' = Holders \ {r} /\ schema' = IF tx[r].deleted THEN NoSchema ELSE Seen(r)
  <2>1. tx'[r] = NoTx
    BY EndEffect DEF Commit
  <2>2. QED
    BY <2>1, Sessions DEF Commit, Holders, WritesSchema, Frame, Others
<1>2. CASE tx[r].created
  <2>1. row = "none" /\ ~tx[r].deleted /\ row' = "live"
    BY <1>2 DEF SessionInv, SessionOK, Commit
  <2>2. Holders = {}
    BY <2>1 DEF SessionInv, SessionOK, Holders
  <2>3. schema' = NoSchema
    BY <1>1, <2>1, <2>2 DEF Holders, Seen, SchemaHasDataSource
  <2>4. Phase = "none" /\ Phase' = "unprocessed"
    BY <2>1, <2>3, SchemaRows DEF Phase
  <2>5. Lease!Create
    BY <1>1, <2>2, <2>4 DEF Lease!Create
  <2>6. QED
    BY <2>5 DEF Lease!Next
<1>3. CASE tx[r].deleted
  <2>1. row = "live" /\ row' = "gone"
    BY <1>3 DEF SessionInv, SessionOK, Commit
  <2>2. Holders = {}
    BY <1>3 DEF SessionInv, SessionOK, LockInv, Holders
  <2>3. Phase \in {"unprocessed", "ready"} /\ Phase' = "deleted"
    BY <2>1 DEF Phase
  <2>4. Lease!Delete
    BY <1>1, <2>2, <2>3 DEF Lease!Delete
  <2>5. QED
    BY <2>4 DEF Lease!Next
<1>4. CASE ~tx[r].created /\ ~tx[r].deleted /\ WritesSchema(r)
  <2>1. row = "live" /\ row' = "live" /\ schema'.ready
    BY <1>1, <1>4 DEF SessionInv, SessionOK, Commit, Seen
  <2>2. Holders = {r}
    BY <1>4 DEF LockInv, Holders
  <2>3. Phase' = "ready"
    BY <2>1 DEF Phase
  <2>4. Lease!Publish(r)
    BY <1>1, <2>2, <2>3 DEF Lease!Publish
  <2>5. QED
    BY <2>4 DEF Lease!Next
<1>5. CASE ~tx[r].created /\ ~tx[r].deleted /\ ~WritesSchema(r)
  <2>1. UNCHANGED <<row, schema>> /\ (Holders)' = Holders
    BY <1>1, <1>5 DEF Commit, Seen, Holders
  <2>2. QED
    BY <2>1 DEF Phase, Lease!vars
<1>6. QED
  BY <1>2, <1>3, <1>4, <1>5

LEMMA LeaseStep ==
    ASSUME IInv, NEW r \in Requests, Step(r)
    PROVE  [Lease!Next]_Lease!vars
<1>1. TypeOK' /\ Frame(r)
  BY StepTypes DEF IInv
<1>2. (SessionOK(r))' /\ Locks(r)
  BY <1>1, StepRequest
<1>3. CASE Commit(r)
  BY <1>1, <1>3, LeaseCommit
<1>4. CASE UNCHANGED <<row, schema>>
  <2>1. (Phase)' = Phase
    BY <1>4 DEF Phase
  <2>2. \A o \in Others(r) : (WritesSchema(o))' <=> WritesSchema(o)
    BY <1>1 DEF Frame, WritesSchema
  <2>3. CASE WritesSchema(r) <=> (WritesSchema(r))'
    BY <2>1, <2>2, <2>3 DEF Holders, Others, Lease!vars
  <2>4. CASE ~WritesSchema(r) /\ (WritesSchema(r))'
    <3>1. Holders = {}
      BY <1>2, <2>4 DEF Locks, UpdateWaits, InsertWaits, Holders, Others
    <3>2. (Holders)' = {r}
      BY <2>2, <2>4, <3>1 DEF Holders, Others
    <3>3. Phase \in {"unprocessed", "ready"}
      BY <1>2, <1>4, <2>4 DEF SessionOK, Phase
    <3>4. Lease!Acquire(r)
      BY <2>1, <3>1, <3>2, <3>3 DEF Lease!Acquire
    <3>5. QED
      BY <3>4 DEF Lease!Next
  <2>5. CASE WritesSchema(r) /\ ~(WritesSchema(r))'
    <3>1. Holders = {r}
      BY <2>5 DEF IInv, LockInv, Holders
    <3>2. (Holders)' = {}
      BY <2>2, <2>5, <3>1 DEF Holders, Others
    <3>3. Lease!Release
      BY <2>1, <3>1, <3>2 DEF Lease!Release
    <3>4. QED
      BY <3>3 DEF Lease!Next
  <2>6. QED
    BY <2>3, <2>4, <2>5
<1>5. QED
  BY <1>3, <1>4, StepShared

\* The steps of no request.
LEMMA LeaseOther ==
    ASSUME \/ Crash
           \/ \E r \in Requests, k \in RequestKinds : Start(r, k)
           \/ UNCHANGED vars
    PROVE  [Lease!Next]_Lease!vars
<1>1. (Phase)' = Phase
  BY DEF Phase, Start, Crash, vars, committed
<1>2. CASE Crash
  <2>1. (Holders)' = {}
    BY <1>2, Sessions DEF Crash, Holders, WritesSchema
  <2>2. QED
    BY <1>1, <2>1 DEF Lease!Next, Lease!Release, Lease!vars
<1>3. CASE UNCHANGED tx
  BY <1>1, <1>3 DEF Holders, WritesSchema, Lease!vars
<1>4. QED
  BY <1>2, <1>3 DEF Start, vars

\* Processing, as readers see it, is the lease of ProcessingLease.
THEOREM ImplementsLease == Spec => LeaseSpec
<1>1. Init => Lease!Init
  BY Sessions DEF Init, Lease!Init, Phase, Holders, WritesSchema
<1>2. IInv /\ [Next]_vars => [Lease!Next]_Lease!vars
  BY LeaseStep, LeaseOther DEF Next
<1>3. QED
  BY <1>1, <1>2, Invariance, PTL DEF Spec, LeaseSpec, Lease!Spec
============================================================================
