----------------------------- MODULE UserObjects -----------------------------
(***************************************************************************)
(* What one user keeps beside the profile: API keys (create_user_api_key,  *)
(* revoke_user_api_key, deps/auth.py) and a resume, a row and an object in *)
(* the bucket (upload_user_resume, delete_user_resume).                    *)
(***************************************************************************)
EXTENDS Requests

CONSTANTS
    Key, NoKey,      \* API keys; numbers, in the order of created_at and id
    Object, NoObject \* resume objects: each upload makes its own

ASSUME UserObjectsAssumption ==
    Key \subseteq Nat /\ NoKey \notin Key /\ NoObject \notin Object

VARIABLES
    keys,            \* user_api_keys
    keyTx,           \* the open transaction of a session on them
    keysRaced,       \* history: a key was created or revoked over one not seen
    resume,          \* the object that the row of user_resumes names
    bucket,          \* the objects stored
    upload,          \* the resume request of a session
    lost             \* history: objects a failed request left or took

keyVars    == <<keys, keyTx, keysRaced>>
resumeVars == <<resume, bucket, upload, lost>>
objectVars == <<keyVars, resumeVars>>

KeyTransaction ==
    [op : {"create", "revoke", "use"}, key : Key \cup {NoKey}, old : Key \cup {NoKey}]
Idle    == [at |-> "idle"]
Request == [at : {"stored", "committed", "deleting", "deleted"},
            new : Object \cup {NoObject}, old : Object \cup {NoObject}]

ObjectsTypeOK ==
    /\ keys \in [Key -> {"none", "active", "revoked"}]
    /\ keyTx \in [Session -> KeyTransaction \cup {NoTx}]
    /\ keysRaced \in BOOLEAN
    /\ resume \in Object \cup {NoObject} /\ bucket \subseteq Object /\ lost \subseteq Object
    /\ upload \in [Session -> Request \cup {Idle}]

ObjectsInit ==
    /\ keys = [k \in Key |-> "none"]
    /\ keyTx = [s \in Session |-> NoTx] /\ keysRaced = FALSE
    /\ resume = NoObject /\ bucket = {} /\ lost = {}
    /\ upload = [s \in Session |-> Idle]

-----------------------------------------------------------------------------
(* API keys                                                                *)

Active == {k \in Key : keys[k] = "active"}

\* What _active_api_key finds: the newest one.
ActiveKey(k) == IF Active = {} THEN k = NoKey ELSE k \in Active /\ \A j \in Active : j <= k

InUse(k) ==
    \/ keys[k] # "none"
    \/ \E s \in Session : keyTx[s] # NoTx /\ keyTx[s].key = k /\ keyTx[s].op = "create"

LoadKeys(s, tx) ==
    keyTx[s] = NoTx /\ keyTx' = [keyTx EXCEPT ![s] = tx] /\ UNCHANGED <<keys, keysRaced>>

\* Keys are drawn in the order of their numbers.
CreateKey(s) ==
    \E k \in Key, old \in Key \cup {NoKey} :
        /\ ~InUse(k) /\ \A j \in Key : j < k => InUse(j)
        /\ ActiveKey(old) /\ LoadKeys(s, [op |-> "create", key |-> k, old |-> old])

RevokeKey(s) ==
    \E k \in Active : ActiveKey(k) /\ LoadKeys(s, [op |-> "revoke", key |-> NoKey, old |-> k])

\* A request with key k finds its hash among the keys that are not revoked.
UseKey(s, k) == keys[k] = "active" /\ LoadKeys(s, [op |-> "use", key |-> NoKey, old |-> k])

\* Mistake: a request that used a key writes the whole row back.
RevokedByReviving(tx, k) ==
    IF tx.op = "use" /\ k = tx.old THEN "active"
    ELSE IF tx.op # "use" /\ k = tx.old THEN "revoked" ELSE keys[k]

\* Using a key writes last_used_at alone.
RevokedBy(tx, k) == IF tx.op # "use" /\ k = tx.old THEN "revoked" ELSE keys[k]

CommitKeys(s) ==
    LET tx == keyTx[s] IN
    /\ tx # NoTx
    /\ keys' = [k \in Key |-> IF tx.op = "create" /\ k = tx.key THEN "active" ELSE RevokedBy(tx, k)]
    /\ keysRaced' = (keysRaced \/ (tx.op # "use" /\ ~ActiveKey(tx.old)))
    /\ keyTx' = [keyTx EXCEPT ![s] = NoTx]

KeysFail(s) ==
    keyTx[s] # NoTx /\ keyTx' = [keyTx EXCEPT ![s] = NoTx] /\ UNCHANGED <<keys, keysRaced>>

KeysNext ==
    \E s \in Session :
        \/ CreateKey(s) \/ RevokeKey(s) \/ CommitKeys(s) \/ KeysFail(s)
        \/ \E k \in Key : UseKey(s, k)

-----------------------------------------------------------------------------
(* The resume: the object and its row change in calls of their own, each   *)
(* of which may fail and end the request                                   *)

Go(s, request) == upload' = [upload EXCEPT ![s] = request]

Known(o) ==
    \/ o \in bucket \cup lost
    \/ \E s \in Session : upload[s] # Idle /\ o \in {upload[s].new, upload[s].old}

\* put_object under a key with the time of the upload
StoreObject(s, o) ==
    /\ upload[s] = Idle /\ ~Known(o) /\ o # resume
    /\ bucket' = bucket \cup {o}
    /\ Go(s, [at |-> "stored", new |-> o, old |-> NoObject])
    /\ UNCHANGED <<resume, lost>>

\* The row is deleted, flushed and inserted in one transaction; the lock of the
\* deleted row and the unique user_id make the next transaction wait or fail.
ReplaceRow(s) ==
    /\ upload[s].at = "stored"
    /\ resume' = upload[s].new
    /\ Go(s, [upload[s] EXCEPT !.at = "committed", !.old = resume])
    /\ UNCHANGED <<bucket, lost>>

DeleteReplaced(s) ==
    /\ upload[s].at = "committed"
    /\ bucket' = bucket \ {upload[s].old} /\ Go(s, Idle) /\ UNCHANGED <<resume, lost>>

\* A resume is deleted from the bucket first, then from the table.
BeginDelete(s) ==
    /\ upload[s] = Idle /\ resume # NoObject
    /\ Go(s, [at |-> "deleting", new |-> NoObject, old |-> resume])
    /\ UNCHANGED <<resume, bucket, lost>>

DeleteObject(s) ==
    /\ upload[s].at = "deleting"
    /\ bucket' = bucket \ {upload[s].old} /\ Go(s, [upload[s] EXCEPT !.at = "deleted"])
    /\ UNCHANGED <<resume, lost>>

\* DELETE by the row's id: a row that replaced it stays.
DeleteRow(s) ==
    /\ upload[s].at = "deleted"
    /\ resume' = IF resume = upload[s].old THEN NoObject ELSE resume
    /\ Go(s, Idle) /\ UNCHANGED <<bucket, lost>>

\* The storage or the database fails, or the process dies, after any call.
ResumeFails(s) ==
    /\ upload[s] # Idle
    /\ lost' = lost \cup ({upload[s].new, upload[s].old} \ {NoObject})
    /\ Go(s, Idle) /\ UNCHANGED <<resume, bucket>>

ResumeNext ==
    \E s \in Session :
        \/ \E o \in Object : StoreObject(s, o)
        \/ ReplaceRow(s) \/ DeleteReplaced(s)
        \/ BeginDelete(s) \/ DeleteObject(s) \/ DeleteRow(s) \/ ResumeFails(s)

ObjectsNext == (KeysNext /\ UNCHANGED resumeVars) \/ (ResumeNext /\ UNCHANGED keyVars)

ObjectsSpec == ObjectsInit /\ [][ObjectsNext]_objectVars

-----------------------------------------------------------------------------
(* Properties                                                              *)

\* A user has one key that works, unless two creations or revocations overlapped:
\* then one is left that no DELETE finds before the newer one is revoked.
OneActiveKeyUnlessRaced == keysRaced \/ \A j, k \in Active : j = k

\* A revoked key never works again, whatever requests it had under way.
RevokedStaysRevoked == [][\A k \in Key : keys[k] = "revoked" => keys'[k] = "revoked"]_objectVars

\* The row names a stored object, unless a request died between the two.
ResumeIsStored ==
    resume \in bucket \cup lost \cup {NoObject}
        \/ \E s \in Session : upload[s] # Idle /\ upload[s].at = "deleted" /\ upload[s].old = resume

\* An object nobody points at is being handled, or belongs to a request that failed.
StrayOnlyIfFailed ==
    \A o \in bucket \ {resume} :
        o \in lost \/ \E s \in Session : upload[s] # Idle /\ o \in {upload[s].new, upload[s].old}

\* Row and bucket agree, whatever is under way.
ObjectsAccounted == ResumeIsStored /\ StrayOnlyIfFailed

\* Both, of what requests that overlap and fail make of the objects of a user.
ObjectsAreSoundUnlessRaced == OneActiveKeyUnlessRaced /\ ObjectsAccounted
=============================================================================
