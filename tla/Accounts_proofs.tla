--------------------------- MODULE Accounts_proofs ---------------------------
(***************************************************************************)
(* Proofs about Organizations, OrganizationTx, Commercial, UserObjects and *)
(* CareerTx, for every number of users, invites, events, keys, objects,    *)
(* actions of a plan and overlapping requests.                             *)
(***************************************************************************)
EXTENDS CareerTx, Commercial, UserObjects, OrganizationTx, WellFoundedInduction, TLAPS

-----------------------------------------------------------------------------
(* API keys                                                                *)

KeysTypeOK ==
    /\ keys \in [Key -> {"none", "active", "revoked"}]
    /\ keyTx \in [Session -> KeyTransaction \cup {NoTx}]
    /\ keysRaced \in BOOLEAN

\* A key that is about to be added is new, and no other request adds it.
NewKeys ==
    \A s \in Session :
        keyTx[s] # NoTx /\ keyTx[s].op = "create" =>
            /\ keyTx[s].key \in Key /\ keys[keyTx[s].key] = "none"
            /\ \A t \in Session \ {s} :
                  keyTx[t] # NoTx /\ keyTx[t].op = "create" => keyTx[t].key # keyTx[s].key

\* The key a request revokes or uses was added.
OldKeys ==
    \A s \in Session : keyTx[s] # NoTx /\ keyTx[s].old \in Key => keys[keyTx[s].old] # "none"

KeysInv == KeysTypeOK /\ NewKeys /\ OldKeys /\ OneActiveKeyUnlessRaced

\* With one key that works, _active_api_key finds it.
LEMMA TheActiveKey ==
    ASSUME KeysTypeOK, \A j, k \in Active : j = k, NEW old, ActiveKey(old)
    PROVE  \A k \in Key : keys[k] = "active" => k = old
  BY DEF Active, ActiveKey

LEMMA LoadingKeys ==
    ASSUME KeysInv, NEW s \in Session, NEW tx \in KeyTransaction, LoadKeys(s, tx),
           tx.old \in Key => keys[tx.old] # "none",
           tx.op = "create" => /\ tx.key \in Key /\ keys[tx.key] = "none"
                               /\ \A t \in Session :
                                     keyTx[t] # NoTx /\ keyTx[t].op = "create" =>
                                         keyTx[t].key # tx.key
    PROVE  KeysInv'
  <1>1. keyTx' = [keyTx EXCEPT ![s] = tx] /\ UNCHANGED <<keys, keysRaced>>
    BY DEF LoadKeys
  <1>2. KeysTypeOK'
    BY <1>1 DEF KeysInv, KeysTypeOK
  <1>3. keyTx'[s] = tx /\ \A t \in Session \ {s} : keyTx'[t] = keyTx[t]
    BY <1>1 DEF KeysInv, KeysTypeOK
  <1>4. NewKeys'
    BY <1>1, <1>3 DEF KeysInv, NewKeys
  <1>5. OneActiveKeyUnlessRaced' /\ OldKeys'
    BY <1>1, <1>3 DEF KeysInv, OneActiveKeyUnlessRaced, Active, OldKeys
  <1> QED BY <1>2, <1>4, <1>5 DEF KeysInv

LEMMA CommittingKeys ==
    ASSUME KeysInv, NEW s \in Session, CommitKeys(s)
    PROVE  KeysInv' /\ \A k \in Key : keys[k] = "revoked" => keys'[k] = "revoked"
  <1> DEFINE tx == keyTx[s]
  <1>1. /\ tx # NoTx /\ keyTx' = [keyTx EXCEPT ![s] = NoTx]
        /\ keys' = [k \in Key |-> IF tx.op = "create" /\ k = tx.key THEN "active"
                                  ELSE RevokedBy(tx, k)]
        /\ keysRaced' = (keysRaced \/ (tx.op # "use" /\ ~ActiveKey(tx.old)))
    BY DEF CommitKeys
  <1>2. keyTx'[s] = NoTx /\ \A t \in Session \ {s} : keyTx'[t] = keyTx[t]
    BY <1>1 DEF KeysInv, KeysTypeOK
  <1>3. KeysTypeOK'
    BY <1>1 DEF KeysInv, KeysTypeOK, RevokedBy
  <1>4. NewKeys'
    <2> SUFFICES ASSUME NEW t \in Session, keyTx'[t] # NoTx, keyTx'[t].op = "create"
                 PROVE  /\ keyTx'[t].key \in Key /\ keys'[keyTx'[t].key] = "none"
                        /\ \A r \in Session \ {t} :
                              keyTx'[r] # NoTx /\ keyTx'[r].op = "create" =>
                                  keyTx'[r].key # keyTx'[t].key
      BY DEF NewKeys
    <2>1. t # s /\ keyTx'[t] = keyTx[t]
      BY <1>2
    <2>2. keys[keyTx[t].key] = "none" /\ keyTx[t].key \in Key
          /\ (tx.op = "create" => tx.key # keyTx[t].key)
      BY <1>1, <2>1 DEF KeysInv, NewKeys
    <2>3. tx.old # keyTx[t].key
      BY <1>1, <2>2 DEF KeysInv, OldKeys
    <2>4. keys'[keyTx[t].key] = "none"
      BY <1>1, <2>2, <2>3 DEF RevokedBy
    <2> QED BY <1>2, <2>1, <2>2, <2>4 DEF KeysInv, NewKeys
  <1>5. OneActiveKeyUnlessRaced'
    <2> SUFFICES ASSUME ~keysRaced, tx.op = "use" \/ ActiveKey(tx.old),
                        NEW j \in Key, NEW k \in Key, keys'[j] = "active", keys'[k] = "active"
                 PROVE  j = k
      BY <1>1, <1>3 DEF OneActiveKeyUnlessRaced, Active, KeysTypeOK
    <2>1. tx.op = "use" \/ \A i \in Key : keys[i] = "active" => i = tx.old
      BY TheActiveKey DEF KeysInv, OneActiveKeyUnlessRaced
    <2>2. tx.op \in {"create", "revoke", "use"}
      BY <1>1 DEF KeysInv, KeysTypeOK, KeyTransaction
    <2>3. CASE tx.op = "use"
      BY <1>1, <2>3 DEF RevokedBy, KeysInv, OneActiveKeyUnlessRaced, Active
    <2> QED BY <1>1, <2>1, <2>2, <2>3 DEF RevokedBy
  <1>6. \A k \in Key : keys[k] = "revoked" => keys'[k] = "revoked"
    BY <1>1 DEF KeysInv, NewKeys, RevokedBy
  <1>7. OldKeys'
    <2> SUFFICES ASSUME NEW t \in Session, keyTx'[t] # NoTx, keyTx'[t].old \in Key
                 PROVE  keys'[keyTx'[t].old] # "none"
      BY DEF OldKeys
    <2>1. keyTx'[t] = keyTx[t] /\ keys[keyTx[t].old] # "none"
      BY <1>2 DEF KeysInv, OldKeys
    <2> QED BY <1>1, <2>1 DEF RevokedBy
  <1> QED BY <1>3, <1>4, <1>5, <1>6, <1>7 DEF KeysInv

LEMMA KeysStep ==
    ASSUME KeysInv, ObjectsNext
    PROVE  KeysInv' /\ \A k \in Key : keys[k] = "revoked" => keys'[k] = "revoked"
  <1>1. ASSUME UNCHANGED keyVars PROVE KeysInv'
    BY <1>1 DEF keyVars, KeysInv, KeysTypeOK, NewKeys, OldKeys, OneActiveKeyUnlessRaced, Active
  <1>2. ASSUME NEW s \in Session, CreateKey(s) PROVE KeysInv'
    <2> DEFINE tx(k, old) == [op |-> "create", key |-> k, old |-> old]
    <2>1. PICK k \in Key, old \in Key \cup {NoKey} :
              ~InUse(k) /\ ActiveKey(old) /\ LoadKeys(s, tx(k, old))
      BY <1>2 DEF CreateKey
    <2>2. /\ tx(k, old) \in KeyTransaction /\ tx(k, old).key = k /\ tx(k, old).old = old
          /\ keys[k] = "none"
          /\ \A t \in Session : keyTx[t] # NoTx /\ keyTx[t].op = "create" => keyTx[t].key # k
      BY <2>1 DEF InUse, KeyTransaction
    <2>3. old \in Key => keys[old] # "none"
      BY <2>1, UserObjectsAssumption DEF ActiveKey, Active
    <2> HIDE DEF tx
    <2> QED BY <2>1, <2>2, <2>3, LoadingKeys
  <1>3. ASSUME NEW s \in Session, RevokeKey(s) \/ \E k \in Key : UseKey(s, k) PROVE KeysInv'
    <2> DEFINE tx(op, k) == [op |-> op, key |-> NoKey, old |-> k]
    <2>1. PICK op \in {"revoke", "use"}, k \in Key : keys[k] = "active" /\ LoadKeys(s, tx(op, k))
      BY <1>3 DEF RevokeKey, UseKey, Active
    <2>2. /\ tx(op, k) \in KeyTransaction /\ tx(op, k).op # "create" /\ tx(op, k).old = k
          /\ keys[k] # "none"
      BY <2>1 DEF KeyTransaction
    <2> HIDE DEF tx
    <2> QED BY <2>1, <2>2, LoadingKeys
  <1>4. ASSUME NEW s \in Session, KeysFail(s) PROVE KeysInv'
    <2>1. keyTx' = [keyTx EXCEPT ![s] = NoTx] /\ UNCHANGED <<keys, keysRaced>>
      BY <1>4 DEF KeysFail
    <2>2. keyTx'[s] = NoTx /\ \A t \in Session \ {s} : keyTx'[t] = keyTx[t]
      BY <2>1 DEF KeysInv, KeysTypeOK
    <2>3. KeysTypeOK' /\ OneActiveKeyUnlessRaced'
      BY <2>1 DEF KeysInv, KeysTypeOK, OneActiveKeyUnlessRaced, Active
    <2>4. NewKeys' /\ OldKeys'
      BY <2>1, <2>2 DEF KeysInv, NewKeys, OldKeys
    <2> QED BY <2>3, <2>4 DEF KeysInv
  <1>5. ASSUME NEW s \in Session,
               CreateKey(s) \/ RevokeKey(s) \/ KeysFail(s) \/ \E k \in Key : UseKey(s, k)
        PROVE  keys' = keys
    BY <1>5 DEF CreateKey, RevokeKey, UseKey, KeysFail, LoadKeys
  <1>6. CASE ResumeNext /\ UNCHANGED keyVars
    BY <1>1, <1>6 DEF keyVars
  <1>7. CASE KeysNext
    BY <1>2, <1>3, <1>4, <1>5, <1>7, CommittingKeys DEF KeysNext
  <1> QED BY <1>6, <1>7 DEF ObjectsNext

LEMMA KeysStart == ObjectsInit => KeysInv
  BY DEF ObjectsInit, KeysInv, KeysTypeOK, NewKeys, OldKeys, OneActiveKeyUnlessRaced, Active

LEMMA KeysAreSafe == ObjectsSpec => []KeysInv
  <1>1. KeysInv /\ [ObjectsNext]_objectVars => KeysInv'
    <2>1. ASSUME KeysInv, UNCHANGED objectVars PROVE KeysInv'
      BY <2>1 DEF objectVars, keyVars, KeysInv, KeysTypeOK, NewKeys, OldKeys,
                  OneActiveKeyUnlessRaced, Active
    <2> QED BY <2>1, KeysStep
  <1> QED BY <1>1, KeysStart, PTL DEF ObjectsSpec

\* At most one key of a user works, unless two creations or revocations overlapped.
THEOREM OneKeyUnlessRaced == ObjectsSpec => []OneActiveKeyUnlessRaced
  <1>1. KeysInv => OneActiveKeyUnlessRaced
    BY DEF KeysInv
  <1> QED BY <1>1, KeysAreSafe, PTL

\* A revoked key never works again, whatever requests overlapped.
THEOREM RevocationIsFinal == ObjectsSpec => RevokedStaysRevoked
  <1>1. KeysInv /\ [ObjectsNext]_objectVars =>
            [\A k \in Key : keys[k] = "revoked" => keys'[k] = "revoked"]_objectVars
    BY KeysStep
  <1> QED BY <1>1, KeysAreSafe, PTL DEF ObjectsSpec, RevokedStaysRevoked

-----------------------------------------------------------------------------
(* The resume                                                              *)

ResumeTypeOK ==
    /\ resume \in Object \cup {NoObject} /\ bucket \subseteq Object /\ lost \subseteq Object
    /\ upload \in [Session -> Request \cup {Idle}]

\* An object on its way to the table is stored, and nobody else knows it.
StoredIsOwn ==
    \A s \in Session : upload[s].at = "stored" =>
        /\ upload[s].new \in bucket /\ upload[s].new # resume /\ upload[s].old = NoObject
        /\ \A t \in Session \ {s} : upload[t] # Idle =>
              /\ upload[t].old # upload[s].new
              /\ upload[t].at = "stored" => upload[t].new # upload[s].new

\* What was replaced is not in the table, and what was deleted is not stored.
OldIsOut ==
    \A s \in Session :
        /\ upload[s].at = "committed" /\ upload[s].old # NoObject => upload[s].old # resume
        /\ upload[s].at = "deleted" => upload[s].old \notin bucket

\* More than StrayOnlyIfFailed: somebody is going to move the stray object, to the
\* table or out of the bucket.
StrayIsHandled ==
    \A o \in bucket \ {resume} :
        \/ o \in lost
        \/ \E s \in Session : upload[s].at = "stored" /\ upload[s].new = o
        \/ \E s \in Session : upload[s] # Idle /\ upload[s].old = o

ResumeInv == ResumeTypeOK /\ StoredIsOwn /\ OldIsOut /\ StrayIsHandled /\ ResumeIsStored

LEMMA ResumeStep ==
    ASSUME ResumeInv, NEW s \in Session,
           \/ \E o \in Object : StoreObject(s, o)
           \/ ReplaceRow(s) \/ DeleteReplaced(s)
           \/ BeginDelete(s) \/ DeleteObject(s) \/ DeleteRow(s) \/ ResumeFails(s)
    PROVE  ResumeInv'
  <1> USE DEF ResumeInv
  <1> DEFINE r == upload'[s]
  <1>1. /\ upload \in [Session -> Request \cup {Idle}] /\ NoObject \notin Object
        /\ Idle.at = "idle" /\ Idle \notin Request
        /\ \A q \in Request : /\ q.at \in {"stored", "committed", "deleting", "deleted"}
                              /\ q.new \in Object \cup {NoObject}
                              /\ q.old \in Object \cup {NoObject}
    BY UserObjectsAssumption DEF ResumeTypeOK, Request, Idle
  <1>10. NoObject \notin bucket
    BY <1>1 DEF ResumeTypeOK
  <1>2. ASSUME NEW request, Go(s, request)
        PROVE  /\ r = request /\ \A t \in Session \ {s} : upload'[t] = upload[t]
               /\ request \in Request \cup {Idle} => upload' \in [Session -> Request \cup {Idle}]
    BY <1>1, <1>2 DEF Go
  <1>3. ASSUME NEW o \in Object, StoreObject(s, o) PROVE ResumeInv'
    <2> DEFINE q == [at |-> "stored", new |-> o, old |-> NoObject]
    <2>1. q \in Request /\ q # Idle /\ q.at = "stored" /\ q.new = o /\ q.old = NoObject
      BY <1>1 DEF Request
    <2>2. /\ upload[s] = Idle /\ o \notin bucket \cup lost /\ o # resume
          /\ \A t \in Session : upload[t] # Idle => upload[t].new # o /\ upload[t].old # o
          /\ Go(s, q) /\ bucket' = bucket \cup {o} /\ UNCHANGED <<resume, lost>>
      BY <1>3 DEF StoreObject, Known
    <2> HIDE DEF q
    <2>3. r = q /\ \A t \in Session \ {s} : upload'[t] = upload[t]
      BY <1>2, <2>2
    <2>4. ResumeTypeOK'
      BY <1>2, <2>1, <2>2 DEF ResumeTypeOK
    <2>5. StoredIsOwn'
      BY <1>1, <1>10, <2>1, <2>2, <2>3 DEF StoredIsOwn
    <2>6. OldIsOut'
      BY <1>1, <2>1, <2>2, <2>3 DEF OldIsOut
    <2>7. StrayIsHandled'
      BY <1>1, <2>1, <2>2, <2>3 DEF StrayIsHandled
    <2>8. ResumeIsStored'
      BY <1>1, <2>1, <2>2, <2>3 DEF ResumeIsStored
    <2> QED BY <2>4, <2>5, <2>6, <2>7, <2>8
  <1>4. CASE ReplaceRow(s)
    <2> DEFINE q == [upload[s] EXCEPT !.at = "committed", !.old = resume]
    <2>1. upload[s].at = "stored" /\ upload[s] \in Request
      BY <1>1, <1>4 DEF ReplaceRow
    <2>2. q \in Request /\ q # Idle /\ q.at = "committed" /\ q.old = resume
      BY <1>1, <2>1 DEF Request, ResumeTypeOK
    <2>3. Go(s, q) /\ resume' = upload[s].new /\ UNCHANGED <<bucket, lost>>
      BY <1>4 DEF ReplaceRow
    <2> HIDE DEF q
    <2>4. r = q /\ \A t \in Session \ {s} : upload'[t] = upload[t]
      BY <1>2, <2>3
    <2>5. upload[s].new \in bucket /\ upload[s].new # resume
      BY <2>1 DEF StoredIsOwn
    <2>6. ResumeTypeOK'
      BY <1>1, <1>2, <2>1, <2>2, <2>3 DEF ResumeTypeOK
    <2>7. StoredIsOwn'
      BY <1>1, <2>1, <2>2, <2>3, <2>4 DEF StoredIsOwn
    <2>8. OldIsOut'
      BY <1>1, <2>1, <2>2, <2>3, <2>4, <2>5 DEF OldIsOut, StoredIsOwn
    <2>9. StrayIsHandled'
      BY <1>1, <1>10, <2>1, <2>2, <2>3, <2>4 DEF StrayIsHandled, StoredIsOwn
    <2>10. ResumeIsStored'
      BY <2>3, <2>5 DEF ResumeIsStored
    <2> QED BY <2>6, <2>7, <2>8, <2>9, <2>10
  <1>5. CASE DeleteReplaced(s)
    <2>1. /\ upload[s].at = "committed" /\ bucket' = bucket \ {upload[s].old} /\ Go(s, Idle)
          /\ UNCHANGED <<resume, lost>> /\ upload[s] \in Request
      BY <1>1, <1>5 DEF DeleteReplaced
    <2>2. r = Idle /\ \A t \in Session \ {s} : upload'[t] = upload[t]
      BY <1>2, <2>1
    <2>3. ResumeTypeOK'
      BY <1>2, <2>1 DEF ResumeTypeOK
    <2>4. StoredIsOwn'
      BY <1>1, <2>1, <2>2 DEF StoredIsOwn
    <2>5. OldIsOut'
      BY <1>1, <2>1, <2>2 DEF OldIsOut
    <2>6. StrayIsHandled'
      BY <1>1, <2>1, <2>2 DEF StrayIsHandled
    <2>7. ResumeIsStored'
      BY <1>1, <2>1, <2>2 DEF ResumeIsStored, OldIsOut, ResumeTypeOK
    <2> QED BY <2>3, <2>4, <2>5, <2>6, <2>7
  <1>6. CASE BeginDelete(s)
    <2> DEFINE q == [at |-> "deleting", new |-> NoObject, old |-> resume]
    <2>1. q \in Request /\ q # Idle /\ q.at = "deleting" /\ q.old = resume
      BY <1>1 DEF Request, ResumeTypeOK
    <2>2. upload[s] = Idle /\ Go(s, q) /\ UNCHANGED <<resume, bucket, lost>>
      BY <1>6 DEF BeginDelete
    <2> HIDE DEF q
    <2>3. r = q /\ \A t \in Session \ {s} : upload'[t] = upload[t]
      BY <1>2, <2>2
    <2>4. ResumeTypeOK'
      BY <1>2, <2>1, <2>2 DEF ResumeTypeOK
    <2>5. StoredIsOwn'
      BY <1>1, <2>1, <2>2, <2>3 DEF StoredIsOwn
    <2>6. OldIsOut'
      BY <1>1, <2>1, <2>2, <2>3 DEF OldIsOut
    <2>7. StrayIsHandled'
      BY <1>1, <2>1, <2>2, <2>3 DEF StrayIsHandled
    <2>8. ResumeIsStored'
      BY <1>1, <2>1, <2>2, <2>3 DEF ResumeIsStored
    <2> QED BY <2>4, <2>5, <2>6, <2>7, <2>8
  <1>7. CASE DeleteObject(s)
    <2> DEFINE q == [upload[s] EXCEPT !.at = "deleted"]
    <2>1. upload[s].at = "deleting" /\ upload[s] \in Request
      BY <1>1, <1>7 DEF DeleteObject
    <2>2. q \in Request /\ q # Idle /\ q.at = "deleted" /\ q.old = upload[s].old
      BY <1>1, <2>1 DEF Request
    <2>3. Go(s, q) /\ bucket' = bucket \ {upload[s].old} /\ UNCHANGED <<resume, lost>>
      BY <1>7 DEF DeleteObject
    <2> HIDE DEF q
    <2>4. r = q /\ \A t \in Session \ {s} : upload'[t] = upload[t]
      BY <1>2, <2>3
    <2>5. ResumeTypeOK'
      BY <1>2, <2>2, <2>3 DEF ResumeTypeOK
    <2>6. StoredIsOwn'
      BY <1>1, <2>1, <2>2, <2>3, <2>4 DEF StoredIsOwn
    <2>7. OldIsOut'
      BY <1>1, <2>1, <2>2, <2>3, <2>4 DEF OldIsOut
    <2>8. StrayIsHandled'
      BY <1>1, <2>1, <2>2, <2>3, <2>4 DEF StrayIsHandled
    <2>9. ResumeIsStored'
      BY <1>1, <2>1, <2>2, <2>3, <2>4 DEF ResumeIsStored
    <2> QED BY <2>5, <2>6, <2>7, <2>8, <2>9
  <1>8. CASE DeleteRow(s)
    <2>1. /\ upload[s].at = "deleted" /\ upload[s] \in Request
          /\ resume' = (IF resume = upload[s].old THEN NoObject ELSE resume)
          /\ Go(s, Idle) /\ UNCHANGED <<bucket, lost>>
      BY <1>1, <1>8 DEF DeleteRow
    <2>2. r = Idle /\ \A t \in Session \ {s} : upload'[t] = upload[t]
      BY <1>2, <2>1
    <2>3. upload[s].old \notin bucket
      BY <2>1 DEF OldIsOut
    <2>4. ResumeTypeOK'
      BY <1>2, <2>1 DEF ResumeTypeOK
    <2>5. StoredIsOwn'
      <3>1. NoObject \notin bucket
        BY <1>1 DEF ResumeTypeOK
      <3> QED BY <1>1, <2>1, <2>2, <3>1 DEF StoredIsOwn
    <2>6. OldIsOut'
      BY <1>1, <2>1, <2>2 DEF OldIsOut
    <2>7. StrayIsHandled'
      BY <1>1, <2>1, <2>2, <2>3 DEF StrayIsHandled
    <2>8. ResumeIsStored'
      BY <1>1, <2>1, <2>2 DEF ResumeIsStored
    <2> QED BY <2>4, <2>5, <2>6, <2>7, <2>8
  <1>9. CASE ResumeFails(s)
    <2>1. /\ upload[s] # Idle /\ upload[s] \in Request
          /\ lost' = lost \cup ({upload[s].new, upload[s].old} \ {NoObject})
          /\ Go(s, Idle) /\ UNCHANGED <<resume, bucket>>
      BY <1>1, <1>9 DEF ResumeFails
    <2>2. r = Idle /\ \A t \in Session \ {s} : upload'[t] = upload[t]
      BY <1>2, <2>1
    <2>3. ResumeTypeOK'
      BY <1>1, <1>2, <2>1 DEF ResumeTypeOK
    <2>4. StoredIsOwn'
      BY <1>1, <2>1, <2>2 DEF StoredIsOwn
    <2>5. OldIsOut'
      BY <1>1, <2>1, <2>2 DEF OldIsOut
    <2>6. StrayIsHandled'
      BY <1>1, <2>1, <2>2 DEF StrayIsHandled, ResumeTypeOK
    <2>7. ResumeIsStored'
      BY <1>1, <2>1, <2>2 DEF ResumeIsStored
    <2> QED BY <2>3, <2>4, <2>5, <2>6, <2>7
  <1> QED BY <1>3, <1>4, <1>5, <1>6, <1>7, <1>8, <1>9

LEMMA ResumeIsSafe == ObjectsSpec => []ResumeInv
  <1>1. ObjectsInit => ResumeInv
    BY DEF ObjectsInit, ResumeInv, ResumeTypeOK, StoredIsOwn, OldIsOut, StrayIsHandled,
           ResumeIsStored, Idle
  <1>2. ResumeInv /\ [ObjectsNext]_objectVars => ResumeInv'
    <2>1. ASSUME ResumeInv, UNCHANGED resumeVars PROVE ResumeInv'
      BY <2>1 DEF resumeVars, ResumeInv, ResumeTypeOK, StoredIsOwn, OldIsOut,
                  StrayIsHandled, ResumeIsStored
    <2>2. ASSUME ResumeInv, ResumeNext PROVE ResumeInv'
      BY <2>2, ResumeStep DEF ResumeNext
    <2> QED BY <2>1, <2>2 DEF ObjectsNext, objectVars
  <1> QED BY <1>1, <1>2, PTL DEF ObjectsSpec

\* The row of a resume and the objects in the bucket agree, apart from what a
\* request is working on or has left behind when it died.
THEOREM ResumeIsAccounted == ObjectsSpec => []ObjectsAccounted
  <1>1. ResumeInv => ObjectsAccounted
    <2> SUFFICES ASSUME ResumeInv PROVE StrayOnlyIfFailed
      BY DEF ResumeInv, ObjectsAccounted
    <2>1. \A s \in Session : upload[s].at = "stored" => upload[s] # Idle
      BY DEF Idle
    <2> QED BY <2>1 DEF ResumeInv, StrayIsHandled, StrayOnlyIfFailed
  <1> QED BY <1>1, ResumeIsSafe, PTL

\* What a user keeps is sound: one key that works, unless requests overlapped, and a
\* bucket that agrees with its row.
THEOREM ObjectsNeedRace == ObjectsSpec => []ObjectsAreSoundUnlessRaced
  <1>1. OneActiveKeyUnlessRaced /\ ObjectsAccounted => ObjectsAreSoundUnlessRaced
    BY DEF ObjectsAreSoundUnlessRaced
  <1> QED BY <1>1, OneKeyUnlessRaced, ResumeIsAccounted, PTL

-----------------------------------------------------------------------------
(* Billing events                                                          *)

EventTx ==
    [op : {"event"}, event : Event, status : {"applied", "ignored"},
     seen : Account \cup {NoAccount}, new : Account, fresh : BOOLEAN]

\* An event was recorded or applied only after it happened, and the account exists
\* before an event applies to it.
LedgerInv ==
    /\ \A e \in Event : ledger[e] # "none" => contents[e] # NoEvent
    /\ \A e \in Event : ledger[e] = "none" => applied[e] = 0
    /\ current = {} \/ \E e \in Event : current = {e} /\ ledger[e] # "none"
    /\ account = NoAccount => current = {}

\* What the provider grants in an event, as the account keeps it.
Grants(a, p) ==
    /\ a.plan = p.plan /\ a.state = p.state
    /\ a.entitlements = IF p.entitlements # {} THEN p.entitlements ELSE EntitlementsForPlan(p.plan)

IsFresh(a) ==
    /\ a.plan = "free" /\ a.state = "none" /\ a.entitlements = EntitlementsForPlan("free")

\* A transaction that has missed no other event decides as if it were alone.
Decided(t) ==
    /\ contents[t.event] # NoEvent
    /\ account = NoAccount => t.seen = NoAccount
    /\ t.fresh =>
          /\ t.seen = account \/ (t.seen = NoAccount /\ account # NoAccount)
          /\ t.status = "ignored" <=> IsOutOfOrder(contents[t.event])
          /\ t.status = "ignored" =>
                t.new = (IF t.seen = NoAccount THEN FreshAccount ELSE t.seen)
          /\ t.status = "applied" => Grants(t.new, contents[t.event])

AllDecided == \A s \in Session : billing[s].op = "event" => Decided(billing[s])

\* Without a race the account is what the event in current says.
AccountFollows ==
    account # NoAccount /\ ~billingRaced =>
        /\ current = {} => IsFresh(account)
        /\ \A c \in current : Grants(account, contents[c])

BillingInv ==
    /\ BillingTypeOK /\ LedgerInv /\ AllDecided /\ AccountFollows
    /\ NewestDecidesUnlessRaced /\ AppliedOnce

LEMMA PayloadsAreTyped ==
    /\ NoEvent \notin Payload
    /\ \A p \in Payload : /\ p.at \in Nat /\ p.plan \in Plan /\ p.state \in BillingState
                          /\ p.entitlements \in SUBSET Feature
                          /\ p.subscription \in Subscription \cup {NoSubscription}
  <1>1. ASSUME NEW p \in Payload
        PROVE  /\ p.at \in Nat /\ p.plan \in Plan /\ p.state \in BillingState
               /\ p.entitlements \in SUBSET Feature
               /\ p.subscription \in Subscription \cup {NoSubscription}
    <2>1. p \in PayloadType
      BY CommercialAssumption
    <2> QED BY <2>1, CommercialAssumption DEF PayloadType
  <1>2. NoEvent.plan \notin Plan
    BY DEF NoEvent, Plan
  <1> QED BY <1>1, <1>2

LEMMA AccountsAreTyped ==
    /\ FreshAccount \in Account /\ IsFresh(FreshAccount) /\ NoAccount \notin Account
    /\ NoTx \notin EventTx /\ NoTx.op # "event"
    /\ \A p \in Payload : Loaded \in Account => /\ AfterEvent(p) \in Account
                                                /\ Grants(AfterEvent(p), p)
  <1>1. \A plan \in Plan : EntitlementsForPlan(plan) \in SUBSET Feature
    BY DEF EntitlementsForPlan, Feature, Plan
  <1>2. FreshAccount \in Account /\ IsFresh(FreshAccount)
    BY <1>1 DEF FreshAccount, Account, IsFresh, Plan, BillingState
  <1>3. NoAccount \notin Account
    BY DEF NoAccount, Account, Plan
  <1>4. ASSUME NEW p \in Payload, Loaded \in Account
        PROVE  AfterEvent(p) \in Account /\ Grants(AfterEvent(p), p)
    <2>2. /\ p.plan \in Plan /\ p.state \in BillingState /\ p.entitlements \in SUBSET Feature
          /\ p.subscription \in Subscription \cup {NoSubscription}
      BY PayloadsAreTyped
    <2>3. Loaded.trialStarted \in BOOLEAN
      BY <1>4 DEF Account
    <2>4. (Loaded.trialStarted \/ p.plan = "trial") \in BOOLEAN
      OBVIOUS
    <2> QED BY <1>1, <2>2, <2>3, <2>4 DEF AfterEvent, Account, Grants
  <1>5. NoTx \notin EventTx /\ NoTx.op # "event"
    BY DEF NoTx, EventTx
  <1> QED BY <1>2, <1>3, <1>4, <1>5

LEMMA OpenIsTyped ==
    ASSUME BillingTypeOK, NEW s \in Session, billing[s].op = "event"
    PROVE  billing[s] \in EventTx
  <1>1. billing[s] \in BillingTransaction \cup {NoTx}
    BY DEF BillingTypeOK
  <1> QED BY <1>1, AccountsAreTyped DEF BillingTransaction, EventTx

LEMMA BillingStart == BillingInit => BillingInv
  <1> SUFFICES ASSUME BillingInit PROVE BillingInv
    OBVIOUS
  <1>1. BillingTypeOK
    BY DEF BillingInit, BillingTypeOK
  <1>2. LedgerInv /\ AccountFollows /\ NewestDecidesUnlessRaced /\ AppliedOnce
    BY DEF BillingInit, LedgerInv, AccountFollows, NewestDecidesUnlessRaced, AppliedOnce
  <1>3. AllDecided
    BY AccountsAreTyped DEF BillingInit, AllDecided
  <1> QED BY <1>1, <1>2, <1>3 DEF BillingInv

\* A new event contradicts nothing that was decided.
LEMMA HappensStep ==
    ASSUME BillingInv, NEW e \in Event, NEW p \in Payload, Happens(e, p)
    PROVE  BillingInv'
  <1>1. /\ contents[e] = NoEvent /\ contents' = [contents EXCEPT ![e] = p]
        /\ UNCHANGED <<account, ledger, billing, applied, current, billingRaced>>
    BY DEF Happens
  <1>2. BillingTypeOK'
    BY <1>1 DEF BillingInv, BillingTypeOK
  <1>3. /\ \A f \in Event : contents[f] # NoEvent => contents'[f] = contents[f]
        /\ \A f \in Event : contents[f] # NoEvent => contents'[f] # NoEvent
    BY <1>1, PayloadsAreTyped DEF BillingInv, BillingTypeOK
  <1>4. LedgerInv' /\ AppliedOnce'
    BY <1>1, <1>3 DEF BillingInv, LedgerInv, AppliedOnce
  <1>5. AccountFollows' /\ NewestDecidesUnlessRaced'
    BY <1>1, <1>3 DEF BillingInv, LedgerInv, AccountFollows, NewestDecidesUnlessRaced
  <1>6. AllDecided'
    <2> SUFFICES ASSUME NEW s \in Session, billing[s].op = "event" PROVE Decided(billing[s])'
      BY <1>1 DEF AllDecided
    <2> DEFINE t == billing[s]
               c == contents[t.event]
    <2>1. t.event \in Event /\ Decided(t)
      BY OpenIsTyped DEF BillingInv, EventTx, AllDecided
    <2>2. contents'[t.event] = c /\ c # NoEvent
      BY <1>3, <2>1 DEF Decided
    <2>3. (\E f \in Event : /\ ledger[f] # "none" /\ contents'[f].subscription = c.subscription
                            /\ contents'[f].at # 0 /\ contents'[f].at > c.at)
          <=> (\E f \in Event : /\ ledger[f] # "none" /\ contents[f].subscription = c.subscription
                                /\ contents[f].at # 0 /\ contents[f].at > c.at)
      BY <1>3 DEF BillingInv, LedgerInv
    <2>4. IsOutOfOrder(contents[t.event])' <=> IsOutOfOrder(contents[t.event])
      BY <1>1, <2>2, <2>3 DEF IsOutOfOrder, Recorded
    <2> QED BY <1>1, <2>1, <2>2, <2>4 DEF Decided
  <1> QED BY <1>2, <1>4, <1>5, <1>6 DEF BillingInv

\* A step that leaves the tables alone and opens or closes one transaction.
LEMMA OneTransactionStep ==
    ASSUME BillingInv, NEW s \in Session, NEW t \in BillingTransaction \cup {NoTx},
           billing' = [billing EXCEPT ![s] = t], t.op = "event" => Decided(t),
           UNCHANGED <<account, ledger, contents, applied, current, billingRaced>>
    PROVE  BillingInv'
  <1>1. BillingTypeOK'
    BY DEF BillingInv, BillingTypeOK
  <1>2. LedgerInv' /\ AppliedOnce' /\ AccountFollows' /\ NewestDecidesUnlessRaced'
    BY DEF BillingInv, LedgerInv, AppliedOnce, AccountFollows, NewestDecidesUnlessRaced
  <1>4. AllDecided'
    <2> SUFFICES ASSUME NEW u \in Session, billing'[u].op = "event" PROVE Decided(billing[u])'
      BY DEF AllDecided
    <2>1. billing'[u] = IF u = s THEN t ELSE billing[u]
      BY DEF BillingInv, BillingTypeOK
    <2>2. Decided(billing'[u])
      BY <2>1 DEF BillingInv, AllDecided
    <2> QED BY <2>2 DEF Decided, IsOutOfOrder, Recorded
  <1> QED BY <1>1, <1>2, <1>4 DEF BillingInv

LEMMA DeliverStep ==
    ASSUME BillingInv, NEW s \in Session, NEW e \in Event, Deliver(s, e)
    PROVE  BillingInv'
  <1> DEFINE late == IsOutOfOrder(contents[e])
             t == [op |-> "event", event |-> e, status |-> IF late THEN "ignored" ELSE "applied",
                   seen |-> account, new |-> IF late THEN Loaded ELSE AfterEvent(contents[e]),
                   fresh |-> TRUE]
  <1>1. /\ contents[e] # NoEvent /\ billing' = [billing EXCEPT ![s] = t]
        /\ UNCHANGED <<account, ledger, contents, applied, current, billingRaced>>
    BY DEF Deliver
  <1>2. account \in Account \cup {NoAccount} /\ contents[e] \in Payload
    BY <1>1 DEF BillingInv, BillingTypeOK
  <1>3. Loaded \in Account
    BY <1>2, AccountsAreTyped DEF Loaded
  <1>4. AfterEvent(contents[e]) \in Account /\ Grants(AfterEvent(contents[e]), contents[e])
    BY <1>2, <1>3, AccountsAreTyped
  <1>5. t \in EventTx
    BY <1>2, <1>3, <1>4 DEF EventTx
  <1>6. Decided(t)
    BY <1>1, <1>4 DEF Decided, Loaded
  <1> HIDE DEF t
  <1> QED BY <1>1, <1>5, <1>6, OneTransactionStep DEF BillingTransaction, EventTx

LEMMA CommitVisitStep ==
    ASSUME BillingInv, NEW s \in Session, CommitVisit(s)
    PROVE  BillingInv'
  <1>1. /\ billing[s].op = "visit" /\ account = NoAccount /\ account' = FreshAccount
        /\ billing' = [billing EXCEPT ![s] = NoTx]
        /\ UNCHANGED <<ledger, contents, applied, current, billingRaced>>
    BY DEF CommitVisit, Insertable, Finish
  <1>2. BillingTypeOK'
    BY <1>1, AccountsAreTyped DEF BillingInv, BillingTypeOK
  <1>3. LedgerInv' /\ AppliedOnce' /\ NewestDecidesUnlessRaced'
    BY <1>1, AccountsAreTyped DEF BillingInv, LedgerInv, AppliedOnce, NewestDecidesUnlessRaced
  <1>4. AccountFollows'
    BY <1>1, AccountsAreTyped DEF BillingInv, LedgerInv, AccountFollows, IsFresh
  <1>6. AllDecided'
    <2> SUFFICES ASSUME NEW u \in Session, billing'[u].op = "event" PROVE Decided(billing[u])'
      BY DEF AllDecided
    <2>1. u # s /\ billing'[u] = billing[u]
      BY <1>1, AccountsAreTyped DEF BillingInv, BillingTypeOK
    <2>2. Decided(billing[u])
      BY <2>1 DEF BillingInv, AllDecided
    <2>3. account' # NoAccount /\ (billing[u].seen = account => billing[u].seen = NoAccount)
      BY <1>1, AccountsAreTyped
    <2> QED BY <1>1, <2>1, <2>2, <2>3 DEF Decided, IsOutOfOrder, Recorded
  <1> QED BY <1>2, <1>3, <1>4, <1>6 DEF BillingInv

\* What an event decided is still right when it commits.
LEMMA CommitEventStep ==
    ASSUME BillingInv, NEW s \in Session, CommitEvent(s)
    PROVE  BillingInv'
  <1> DEFINE t == billing[s]
             c == contents[t.event]
  <1>1. /\ t.op = "event" /\ ledger[t.event] = "none" /\ (t.seen = NoAccount => account = NoAccount)
        /\ account' = Columns(t.seen, t.new)
        /\ ledger' = [ledger EXCEPT ![t.event] = t.status]
        /\ applied' = [applied EXCEPT ![t.event] = IF t.status = "applied" THEN @ + 1 ELSE @]
        /\ current' = IF t.status = "applied" THEN {t.event} ELSE current
        /\ billingRaced' = (billingRaced \/ ~t.fresh)
        /\ billing' = [u \in Session |-> IF u = s THEN NoTx ELSE Stale(billing[u])]
        /\ contents' = contents
    BY DEF CommitEvent, Insertable
  <1>2. t \in EventTx /\ Decided(t)
    BY <1>1, OpenIsTyped DEF BillingInv, AllDecided
  <1>3. /\ t.event \in Event /\ t.status \in {"applied", "ignored"} /\ t.new \in Account
        /\ t.seen \in Account \cup {NoAccount} /\ t.fresh \in BOOLEAN /\ c # NoEvent
    BY <1>2 DEF EventTx, Decided
  <1> HIDE DEF t
  <1>4. account' \in Account /\ (t.seen = account => account' = t.new)
    <2>1. CASE t.seen = NoAccount
      BY <1>1, <1>3, <2>1 DEF Columns
    <2>2. CASE t.seen # NoAccount /\ account # NoAccount
      <3>1. account \in Account /\ t.seen \in Account
        BY <1>3, <2>2 DEF BillingInv, BillingTypeOK
      <3>5. DOMAIN t.new = {"plan", "state", "entitlements", "subscription", "trialStarted"}
        BY <1>3 DEF Account
      <3>2. account' = [k \in {"plan", "state", "entitlements", "subscription", "trialStarted"} |->
                            IF t.new[k] = t.seen[k] THEN account[k] ELSE t.new[k]]
        BY <1>1, <2>2, <3>5 DEF Columns, WrittenOver
      <3>3. account' \in Account
        <4>1. /\ account'.plan \in Plan /\ account'.state \in BillingState
              /\ account'.entitlements \in SUBSET Feature
              /\ account'.subscription \in Subscription \cup {NoSubscription}
              /\ account'.trialStarted \in BOOLEAN
          BY <1>3, <3>1, <3>2 DEF Account
        <4> QED BY <3>2, <4>1 DEF Account
      <3>4. ASSUME t.seen = account PROVE account' = t.new
        BY <1>3, <3>2, <3>4 DEF Account
      <3> QED BY <3>3, <3>4
    <2> QED BY <1>1, <1>2, <1>3, <2>1, <2>2 DEF Decided
  <1>5. ~billingRaced' => ~billingRaced /\ t.fresh /\ t.seen = account /\ account' = t.new
    BY <1>1, <1>2, <1>3, <1>4 DEF Decided
  <1>6. BillingTypeOK'
    <2>1. \A u \in Session : Stale(billing[u]) \in BillingTransaction \cup {NoTx}
      <3> SUFFICES ASSUME NEW u \in Session, billing[u].op = "event"
                   PROVE  [billing[u] EXCEPT !.fresh = FALSE] \in BillingTransaction
        BY DEF Stale, BillingInv, BillingTypeOK
      <3>1. billing[u] \in EventTx
        BY OpenIsTyped DEF BillingInv
      <3>2. [billing[u] EXCEPT !.fresh = FALSE] \in EventTx
        BY <3>1 DEF EventTx
      <3> QED BY <3>2 DEF EventTx, BillingTransaction
    <2>2. applied' \in [Event -> Nat] /\ ledger' \in [Event -> {"none", "applied", "ignored"}]
      BY <1>1, <1>3 DEF BillingInv, BillingTypeOK
    <2>3. current' \subseteq Event /\ billingRaced' \in BOOLEAN
      BY <1>1, <1>3 DEF BillingInv, BillingTypeOK
    <2> QED BY <1>1, <1>4, <2>1, <2>2, <2>3 DEF BillingInv, BillingTypeOK
  <1>7. /\ \A e \in Event \ {t.event} : ledger'[e] = ledger[e] /\ applied'[e] = applied[e]
        /\ ledger'[t.event] = t.status /\ ledger'[t.event] # "none" /\ applied[t.event] = 0
        /\ applied'[t.event] <= 1
    BY <1>1, <1>3 DEF BillingInv, BillingTypeOK, LedgerInv
  <1>8. LedgerInv' /\ AppliedOnce'
    BY <1>1, <1>3, <1>4, <1>7, AccountsAreTyped DEF BillingInv, LedgerInv, AppliedOnce
  <1>9. AccountFollows'
    <2> SUFFICES ASSUME ~billingRaced'
                 PROVE  /\ current' = {} => IsFresh(account')
                        /\ \A e \in current' : Grants(account', contents[e])
      BY <1>1 DEF AccountFollows, IsFresh, Grants
    <2>1. CASE t.status = "applied"
      BY <1>1, <1>2, <1>5, <2>1 DEF Decided
    <2>2. CASE t.status = "ignored"
      <3>1. account' = (IF account = NoAccount THEN FreshAccount ELSE account)
        BY <1>2, <1>5, <2>2 DEF Decided
      <3> QED BY <1>1, <1>5, <2>2, <3>1, AccountsAreTyped DEF BillingInv, LedgerInv, AccountFollows
    <2> QED BY <1>3, <2>1, <2>2
  <1>10. NewestDecidesUnlessRaced'
    <2> SUFFICES ASSUME NEW d \in current', NEW e \in Event, ~billingRaced',
                        contents[d].subscription # NoSubscription, contents[d].at # 0,
                        ledger'[e] # "none",
                        contents[e].subscription = contents[d].subscription
                 PROVE  contents[e].at <= contents[d].at
      BY <1>1 DEF NewestDecidesUnlessRaced
    <2>1. d \in Event /\ contents[d].at \in Nat /\ contents[e].at \in Nat
      BY <1>1, <1>3, <1>7, PayloadsAreTyped DEF BillingInv, BillingTypeOK, LedgerInv
    <2>2. CASE t.status = "applied"
      <3>1. d = t.event /\ ~IsOutOfOrder(contents[d])
        BY <1>1, <1>2, <1>5, <2>2 DEF Decided
      <3> QED BY <1>7, <2>1, <3>1 DEF IsOutOfOrder, Recorded
    <2>3. CASE t.status = "ignored"
      <3>1. d \in current /\ ~billingRaced
        BY <1>1, <1>5, <2>3
      <3>2. \A f \in Event : ledger[f] # "none"
                             /\ contents[f].subscription = contents[d].subscription
                             => contents[f].at <= contents[d].at
        BY <3>1 DEF BillingInv, NewestDecidesUnlessRaced
      <3>3. CASE e # t.event
        BY <1>7, <3>2, <3>3
      <3>4. CASE e = t.event
        <4>1. IsOutOfOrder(contents[e])
          BY <1>2, <1>5, <2>3, <3>4 DEF Decided
        <4>2. PICK f \in Event : /\ ledger[f] # "none" /\ contents[f].at > contents[e].at
                                 /\ contents[f].subscription = contents[d].subscription
          BY <4>1 DEF IsOutOfOrder, Recorded
        <4>3. contents[f].at <= contents[d].at /\ contents[f].at \in Nat
          BY <3>2, <4>2, PayloadsAreTyped DEF BillingInv, BillingTypeOK, LedgerInv
        <4> QED BY <2>1, <4>2, <4>3
      <3> QED BY <3>3, <3>4
    <2> QED BY <1>3, <2>2, <2>3
  <1>11. AllDecided'
    <2> SUFFICES ASSUME NEW u \in Session, billing'[u].op = "event" PROVE Decided(billing[u])'
      BY DEF AllDecided
    <2>1. u # s /\ billing'[u] = Stale(billing[u])
      BY <1>1, AccountsAreTyped
    <2>2. billing[u].op = "event" /\ billing[u] \in EventTx
      <3>1. billing[u].op = "event"
        BY <2>1 DEF Stale
      <3> QED BY <3>1, OpenIsTyped DEF BillingInv
    <2>3. billing'[u].event = billing[u].event /\ billing'[u].fresh = FALSE
      BY <2>1, <2>2 DEF Stale, EventTx
    <2>4. contents[billing[u].event] # NoEvent
      BY <2>2 DEF BillingInv, AllDecided, Decided
    <2> QED BY <1>1, <1>4, <2>3, <2>4, AccountsAreTyped DEF Decided
  <1> QED BY <1>6, <1>8, <1>9, <1>10, <1>11 DEF BillingInv

LEMMA BillingIsSafe == BillingSpec => []BillingInv
  <1>1. BillingInv /\ [BillingNext]_billingVars => BillingInv'
    <2>1. ASSUME BillingInv, UNCHANGED billingVars PROVE BillingInv'
      BY <2>1 DEF billingVars, BillingInv, BillingTypeOK, LedgerInv, AllDecided, Decided,
                  IsOutOfOrder, Recorded, AccountFollows, NewestDecidesUnlessRaced, AppliedOnce
    <2>2. ASSUME BillingInv, NEW s \in Session, Visit(s) \/ Refuse(s) PROVE BillingInv'
      <3>1. PICK t \in {[op |-> "visit"], NoTx} : billing' = [billing EXCEPT ![s] = t]
        BY <2>2 DEF Visit, Refuse, Finish
      <3>2. t \in BillingTransaction \cup {NoTx} /\ t.op # "event"
        BY <3>1, AccountsAreTyped DEF BillingTransaction
      <3>3. UNCHANGED <<account, ledger, contents, applied, current, billingRaced>>
        BY <2>2 DEF Visit, Refuse
      <3> QED BY <2>2, <3>1, <3>2, <3>3, OneTransactionStep
    <2>3. ASSUME BillingInv, BillingNext PROVE BillingInv'
      BY <2>2, <2>3, HappensStep, DeliverStep, CommitVisitStep, CommitEventStep DEF BillingNext
    <2> QED BY <2>1, <2>3
  <1> QED BY <1>1, BillingStart, PTL DEF BillingSpec

\* The account follows the newest event of its subscription, in whatever order and
\* however often the provider delivers them, unless two are handled at once.
THEOREM NewestDecides == BillingSpec => []NewestDecidesUnlessRaced
  <1>1. BillingInv => NewestDecidesUnlessRaced
    BY DEF BillingInv
  <1> QED BY <1>1, BillingIsSafe, PTL

\* An event changes the account at most once, even when it is handled twice at once.
THEOREM EventsApplyOnce == BillingSpec => []AppliedOnce
  <1>1. BillingInv => AppliedOnce
    BY DEF BillingInv
  <1> QED BY <1>1, BillingIsSafe, PTL

\* Whoever has the premium features has an event that grants them, unless two events
\* were handled at once.
THEOREM PremiumIsPaid == BillingSpec => []PremiumIsPaidUnlessRaced
  <1>1. BillingInv => PremiumIsPaidUnlessRaced
    <2> SUFFICES ASSUME BillingInv, account # NoAccount, ~billingRaced,
                        "premium" \in ResolveEntitlements(account)
                 PROVE  \E c \in current :
                            /\ contents[c].plan = "admin" \/ contents[c].state \in GrantingState
                            /\ contents[c].plan # "free" \/ "premium" \in contents[c].entitlements
      BY DEF PremiumIsPaidUnlessRaced
    <2>1. "premium" \notin EntitlementsForPlan("free")
      BY DEF EntitlementsForPlan
    <2>2. account.plan = "admin" \/ account.state \in GrantingState
      BY <2>1 DEF ResolveEntitlements
    <2>3. "premium" \in account.entitlements \/ account.plan # "free"
      BY <2>1 DEF ResolveEntitlements
    <2>4. current # {}
      BY <2>1, <2>2, <2>3 DEF BillingInv, AccountFollows, IsFresh, GrantingState
    <2>5. PICK c \in current : Grants(account, contents[c])
      BY <2>4 DEF BillingInv, AccountFollows
    <2> QED BY <2>1, <2>2, <2>3, <2>5 DEF Grants
  <1> QED BY <1>1, BillingIsSafe, PTL

\* Newest event and granted features together, in whatever order events arrive.
THEOREM BillingNeedsRace == BillingSpec => []BillingIsSoundUnlessRaced
  BY NewestDecides, PremiumIsPaid, PTL DEF BillingIsSoundUnlessRaced

-----------------------------------------------------------------------------
(* Organizations.  What a handler does to the database it has loaded is     *)
(* stated once, as Handled; the transactions then need only what Handled    *)
(* says, and which rows were overwritten.                                   *)

Founded(d) == \E u \in User : d.role[u] # "none"

EnrolledOK(d, u) ==
    \A c \in Cohort : d.enrolled[c][u] = "active" => d.role[u] # "none" /\ d.status[u] = "active"

\* What a handler may do about the owner: found the organization, leave the owner
\* alone, or hand over to an active member.
Founds(seen, new) ==
    /\ ~Founded(seen)
    /\ \E u \in User :
          /\ new.role[u] = "owner" /\ new.status[u] = "active"
          /\ \A v \in User \ {u} : new.role[v] = seen.role[v]

KeepsOwner(seen, new) ==
    \A v \in User :
       /\ new.role[v] = "owner" <=> seen.role[v] = "owner"
       /\ seen.role[v] = "owner" /\ seen.status[v] = "active" => new.status[v] = "active"

Transfers(seen, new) ==
    \E a, u \in User :
       /\ a # u /\ seen.role[a] = "owner" /\ seen.role[u] # "owner" /\ seen.status[u] = "active"
       /\ new.role[a] = "admin" /\ new.role[u] = "owner" /\ new.status[u] = "active"
       /\ \A v \in User \ {a, u} : new.role[v] = seen.role[v]

OwnerHandled(seen, new) ==
    \/ Founds(seen, new)
    \/ Founded(seen) /\ (KeepsOwner(seen, new) \/ Transfers(seen, new))

OffersHandled(seen, new) ==
    \A i \in Invite :
       new.offer[i] # seen.offer[i] => seen.offer[i] = NoOffer /\ Founded(seen)

UsesHandled(seen, new, accepts) ==
    /\ \A i \in accepts :
          /\ seen.offer[i] # NoOffer /\ seen.uses[i] < seen.offer[i].max
          /\ new.uses[i] = seen.uses[i] + 1
    /\ \A i \in Invite \ accepts : new.uses[i] = seen.uses[i]

Handled(seen, new, accepts) ==
    /\ seen \in Database /\ new \in Database /\ accepts \in SUBSET Invite
    /\ \A u \in User : seen.role[u] # "none" => new.role[u] # "none"
    /\ OwnerHandled(seen, new)
    /\ \A u \in User : EnrolledOK(seen, u) => EnrolledOK(new, u)
    /\ OffersHandled(seen, new) /\ UsesHandled(seen, new, accepts)

\* Only an organization somebody belongs to has invites.
OffersFounded == \A i \in Invite : db.offer[i] # NoOffer => Founded(db)

-----------------------------------------------------------------------------
(* Each handler                                                            *)

LEMMA CreatedHandled ==
    ASSUME db \in Database, NEW u \in User, MayCreate(u)
    PROVE  Handled(db, Created(u), {})
<1>1. /\ Created(u).role = [db.role EXCEPT ![u] = "owner"]
      /\ Created(u).status = [db.status EXCEPT ![u] = "active"]
      /\ Created(u).enrolled = db.enrolled
      /\ Created(u).offer = db.offer /\ Created(u).uses = db.uses
  BY DEF Created, Database
<1>2. Created(u) \in Database
  BY DEF Created, Database, Role, Standing
<1>3. Founds(db, Created(u))
  BY <1>1 DEF Founds, Founded, MayCreate, Database
<1>4. \A v \in User : db.role[v] # "none" => Created(u).role[v] # "none"
  BY <1>1 DEF Database
<1>5. \A v \in User : EnrolledOK(db, v) => EnrolledOK(Created(u), v)
  BY <1>1 DEF EnrolledOK, Database
<1> QED
  BY <1>1, <1>2, <1>3, <1>4, <1>5 DEF Handled, OwnerHandled, OffersHandled, UsesHandled

LEMMA MemberUpdatedHandled ==
    ASSUME db \in Database, NEW a \in User, NEW u \in User,
           NEW role \in Role \cup {LeftOut}, NEW status \in Standing \cup {LeftOut},
           MayUpdateMember(a, u, role, status)
    PROVE  Handled(db, MemberUpdated(a, u, role, status), {})
<1> DEFINE new == MemberUpdated(a, u, role, status)
<1>1. RolesAfter(a, u, role) \in [User -> Role \cup {"none"}]
  BY DEF RolesAfter, Database, Role, LeftOut
<1>2. StatusesAfter(u, status) \in [User -> Standing]
  BY DEF StatusesAfter, Database, Standing, LeftOut
<1>3. EnrolmentsAfter(u, status) \in [Cohort -> [User -> Standing \cup {"none"}]]
  BY DEF EnrolmentsAfter, Database, Standing
<1>4. /\ new.role = RolesAfter(a, u, role) /\ new.status = StatusesAfter(u, status)
      /\ new.enrolled = EnrolmentsAfter(u, status)
      /\ new.offer = db.offer /\ new.uses = db.uses
  BY DEF MemberUpdated, Database
<1>5. new \in Database
  BY <1>1, <1>2, <1>3 DEF MemberUpdated, Database
<1>6. \A v \in User :
         /\ new.role[v] = IF v = u /\ role # LeftOut THEN role
                          ELSE IF v = a /\ IsTransfer(u, role) THEN "admin" ELSE db.role[v]
         /\ new.status[v] = IF v = u /\ status # LeftOut THEN status ELSE db.status[v]
  BY <1>4 DEF RolesAfter, StatusesAfter
<1>7. \A c \in Cohort, v \in User :
         new.enrolled[c][v] = IF v = u /\ status = "revoked" /\ db.enrolled[c][v] = "active"
                              THEN "revoked" ELSE db.enrolled[c][v]
  BY <1>4 DEF EnrolmentsAfter
<1>8. db.role[u] # "none" /\ db.role[a] # "none"
  BY DEF MayUpdateMember, IsAdmin, IsMember
<1>9. Founded(db)
  BY <1>8 DEF Founded
<1>10. OwnerHandled(db, new)
  <2>1. CASE IsTransfer(u, role)
    <3>1. /\ a # u /\ db.role[a] = "owner" /\ db.role[u] # "owner" /\ db.status[u] = "active"
          /\ role = "owner" /\ status # "revoked"
      BY <2>1 DEF MayUpdateMember, IsTransfer
    <3>2. Transfers(db, new)
      BY <1>6, <2>1, <3>1 DEF Transfers, Standing, LeftOut
    <3> QED  BY <1>9, <3>2 DEF OwnerHandled
  <2>2. CASE ~IsTransfer(u, role)
    <3>1. KeepsOwner(db, new)
      BY <1>6, <2>2 DEF KeepsOwner, MayUpdateMember, IsTransfer, Standing, LeftOut
    <3> QED  BY <1>9, <3>1 DEF OwnerHandled
  <2> QED  BY <2>1, <2>2
<1>11. \A v \in User : db.role[v] # "none" => new.role[v] # "none"
  BY <1>6 DEF Role, LeftOut
<1>12. \A v \in User : EnrolledOK(db, v) => EnrolledOK(new, v)
  BY <1>6, <1>7, <1>11 DEF EnrolledOK, Standing, LeftOut
<1> QED
  BY <1>4, <1>5, <1>10, <1>11, <1>12 DEF Handled, OffersHandled, UsesHandled

LEMMA CohortCreatedHandled ==
    ASSUME db \in Database, NEW a \in User, NEW c \in Cohort, MayCreateCohort(a, c)
    PROVE  Handled(db, CohortCreated(c), {})
<1>1. /\ CohortCreated(c).role = db.role /\ CohortCreated(c).status = db.status
      /\ CohortCreated(c).enrolled = db.enrolled
      /\ CohortCreated(c).offer = db.offer /\ CohortCreated(c).uses = db.uses
  BY DEF CohortCreated, Database
<1>2. CohortCreated(c) \in Database
  BY DEF CohortCreated, Database
<1>3. Founded(db)
  BY DEF Founded, MayCreateCohort, IsAdmin, IsMember
<1> QED
  BY <1>1, <1>2, <1>3 DEF Handled, OwnerHandled, KeepsOwner, EnrolledOK, OffersHandled,
                          UsesHandled

LEMMA CohortMemberUpdatedHandled ==
    ASSUME db \in Database, NEW a \in User, NEW c \in Cohort, NEW u \in User,
           NEW target \in Cohort \cup {NoCohort}, NEW status \in Standing \cup {LeftOut},
           MayUpdateCohortMember(a, c, u, target)
    PROVE  Handled(db, CohortMemberUpdated(c, u, target, status), {})
<1> DEFINE new == CohortMemberUpdated(c, u, target, status)
<1>1. Move(c, u, target) \in [Cohort -> [User -> Standing \cup {"none"}]]
  BY DEF Move, Database, Standing
<1>2. status # LeftOut => Enrolment(c, u, status) \in [Cohort -> [User -> Standing \cup {"none"}]]
  BY DEF Enrolment, Database
<1>3. /\ new.role = db.role /\ new.status = db.status
      /\ new.offer = db.offer /\ new.uses = db.uses
      /\ \A x \in Cohort, v \in User \ {u} : new.enrolled[x][v] = db.enrolled[x][v]
  BY DEF CohortMemberUpdated, Move, Enrolment, Database
<1>4. new \in Database
  BY <1>1, <1>2 DEF CohortMemberUpdated, Database
<1>5. db.role[u] # "none" /\ db.status[u] = "active"
  BY DEF MayUpdateCohortMember, IsMember
<1>6. Founded(db)
  BY <1>5 DEF Founded
<1> QED
  BY <1>3, <1>4, <1>5, <1>6 DEF Handled, OwnerHandled, KeepsOwner, EnrolledOK, OffersHandled,
                                UsesHandled

LEMMA InvitedHandled ==
    ASSUME db \in Database, NEW a \in User, NEW i \in Invite, NEW offer \in Offer,
           MayInvite(a, i, offer)
    PROVE  Handled(db, Invited(i, offer), {})
<1>1. /\ Invited(i, offer).role = db.role /\ Invited(i, offer).status = db.status
      /\ Invited(i, offer).enrolled = db.enrolled /\ Invited(i, offer).uses = db.uses
      /\ Invited(i, offer).offer = [db.offer EXCEPT ![i] = offer]
  BY DEF Invited, Database
<1>2. Invited(i, offer) \in Database
  BY DEF Invited, Database
<1>3. Founded(db) /\ db.offer[i] = NoOffer
  BY DEF Founded, MayInvite, IsAdmin, IsMember
<1>4. OffersHandled(db, Invited(i, offer))
  BY <1>1, <1>3 DEF OffersHandled, Database
<1> QED
  BY <1>1, <1>2, <1>3, <1>4 DEF Handled, OwnerHandled, KeepsOwner, EnrolledOK, UsesHandled

LEMMA InviteRevokedHandled ==
    ASSUME db \in Database, NEW a \in User, NEW i \in Invite, MayRevokeInvite(a, i)
    PROVE  Handled(db, InviteRevoked(i), {})
<1>1. /\ InviteRevoked(i).role = db.role /\ InviteRevoked(i).status = db.status
      /\ InviteRevoked(i).enrolled = db.enrolled
      /\ InviteRevoked(i).offer = db.offer /\ InviteRevoked(i).uses = db.uses
  BY DEF InviteRevoked, Database
<1>2. InviteRevoked(i) \in Database
  BY DEF InviteRevoked, Database
<1>3. Founded(db)
  BY DEF Founded, MayRevokeInvite, IsAdmin, IsMember
<1> QED
  BY <1>1, <1>2, <1>3 DEF Handled, OwnerHandled, KeepsOwner, EnrolledOK, OffersHandled,
                          UsesHandled

LEMMA AcceptedHandled ==
    ASSUME db \in Database, OffersFounded, NEW u \in User, NEW i \in Invite, MayAccept(u, i)
    PROVE  Handled(db, Accepted(u, i), {i})
<1> DEFINE new == Accepted(u, i)
           offer == db.offer[i]
<1>1. /\ offer \in Offer /\ offer # NoOffer /\ offer.max \in Nat
      /\ offer.role \in {"admin", "member"} /\ db.uses[i] < offer.max
  BY OrganizationAssumption DEF MayAccept, Database, Offer
<1>2. RoleOnAccept(u, offer) \in Role
  BY <1>1 DEF RoleOnAccept, Database, Role
<1>3. RoleOnAccept(u, offer) = "owner" <=> db.role[u] = "owner"
  BY <1>1 DEF RoleOnAccept
<1>4. Enrolment(offer.cohort, u, "active") \in [Cohort -> [User -> Standing \cup {"none"}]]
  BY DEF Enrolment, Database, Standing
<1>5. db.uses[i] + 1 \in 0..MaxUses
  BY <1>1, OrganizationAssumption DEF Database, Offer
<1>6. /\ new.role = [db.role EXCEPT ![u] = RoleOnAccept(u, offer)]
      /\ new.status = [db.status EXCEPT ![u] = "active"]
      /\ new.enrolled = Enrolment(offer.cohort, u, "active")
      /\ new.offer = db.offer
      /\ new.uses = [db.uses EXCEPT ![i] = db.uses[i] + 1]
  BY DEF Accepted, Database
<1>7. new \in Database
  BY <1>2, <1>4, <1>5 DEF Accepted, Database, Standing
<1>8. Founded(db)
  BY <1>1 DEF OffersFounded
<1>9. \A v \in User : db.role[v] # "none" => new.role[v] # "none"
  BY <1>2, <1>6 DEF Database, Role
<1>10. KeepsOwner(db, new)
  BY <1>3, <1>6 DEF KeepsOwner, Database
<1>11. \A c \in Cohort, v \in User \ {u} : new.enrolled[c][v] = db.enrolled[c][v]
  BY <1>6 DEF Enrolment
<1>12. new.role[u] # "none" /\ new.status[u] = "active"
  BY <1>2, <1>6 DEF Database, Role
<1>13. \A v \in User : EnrolledOK(db, v) => EnrolledOK(new, v)
  BY <1>6, <1>11, <1>12 DEF EnrolledOK, Database
<1>14. UsesHandled(db, new, {i})
  BY <1>1, <1>6 DEF UsesHandled, Database
<1> QED
  BY <1>6, <1>7, <1>8, <1>9, <1>10, <1>13, <1>14 DEF Handled, OwnerHandled, OffersHandled

-----------------------------------------------------------------------------
(* Begin and Commit                                                        *)

\* What every open transaction has loaded and will write.
TxInv ==
    \A s \in Session : open[s] # NoTx =>
       LET t == open[s] IN
       /\ Handled(t.seen, t.new, t.accepts)
       /\ \A u \in User : t.seen.role[u] # "none" => db.role[u] # "none"
       /\ \A u \in User \ raced.users : EnrolledOK(t.new, u)
       /\ \A i \in Invite :
             /\ t.seen.offer[i] # NoOffer => db.offer[i] = t.seen.offer[i]
             /\ t.new.offer[i] # t.seen.offer[i] => db.offer[i] = NoOffer

\* An invite is created by one transaction, and no other knows it.
OneCreates ==
    \A s, r \in Session, i \in Invite :
       /\ s # r /\ open[s] # NoTx /\ open[r] # NoTx
       /\ open[s].new.offer[i] # open[s].seen.offer[i]
       => open[r].new.offer[i] = NoOffer

OrgTxInv ==
    /\ OrgTxTypeOK /\ OffersFounded /\ TxInv /\ OneCreates
    /\ OwnerUnlessRaced /\ EnrolledUnlessRaced /\ UsesUnlessRaced

LEMMA BeginLoads ==
    ASSUME OrgTxInv, NEW s \in Session, Begin(s)
    PROVE  \E new, accepts :
              /\ Handled(db, new, accepts) /\ Load(s, new, accepts)
              /\ \A i \in Invite : new.offer[i] # db.offer[i] => NewToken(i)
<1>1. db \in Database /\ OffersFounded
  BY DEF OrgTxInv, OrgTxTypeOK, OrgTypeOK
<1>2. CASE \E u \in User : MayCreate(u) /\ Load(s, Created(u), {})
  <2>1. PICK u \in User : MayCreate(u) /\ Load(s, Created(u), {})
    BY <1>2
  <2>2. Handled(db, Created(u), {})
    BY <1>1, <2>1, CreatedHandled
  <2>3. Created(u).offer = db.offer
    BY <1>1 DEF Created, Database
  <2> QED  BY <2>1, <2>2, <2>3
<1>3. CASE \E a, u \in User, role \in Role \cup {LeftOut}, status \in Standing \cup {LeftOut} :
              MayUpdateMember(a, u, role, status) /\ Load(s, MemberUpdated(a, u, role, status), {})
  <2>1. PICK a \in User, u \in User, role \in Role \cup {LeftOut},
             status \in Standing \cup {LeftOut} :
           MayUpdateMember(a, u, role, status) /\ Load(s, MemberUpdated(a, u, role, status), {})
    BY <1>3
  <2>2. Handled(db, MemberUpdated(a, u, role, status), {})
    BY <1>1, <2>1, MemberUpdatedHandled
  <2>3. MemberUpdated(a, u, role, status).offer = db.offer
    BY <1>1 DEF MemberUpdated, Database
  <2> QED  BY <2>1, <2>2, <2>3
<1>4. CASE \E a \in User, c \in Cohort : MayCreateCohort(a, c) /\ Load(s, CohortCreated(c), {})
  <2>1. PICK a \in User, c \in Cohort : MayCreateCohort(a, c) /\ Load(s, CohortCreated(c), {})
    BY <1>4
  <2>2. Handled(db, CohortCreated(c), {})
    BY <1>1, <2>1, CohortCreatedHandled
  <2>3. CohortCreated(c).offer = db.offer
    BY <1>1 DEF CohortCreated, Database
  <2> QED  BY <2>1, <2>2, <2>3
<1>5. CASE \E a, u \in User, c \in Cohort, target \in Cohort \cup {NoCohort},
              status \in Standing \cup {LeftOut} :
              /\ MayUpdateCohortMember(a, c, u, target)
              /\ Load(s, CohortMemberUpdated(c, u, target, status), {})
  <2>1. PICK a \in User, u \in User, c \in Cohort, target \in Cohort \cup {NoCohort},
             status \in Standing \cup {LeftOut} :
             /\ MayUpdateCohortMember(a, c, u, target)
             /\ Load(s, CohortMemberUpdated(c, u, target, status), {})
    BY <1>5
  <2>2. Handled(db, CohortMemberUpdated(c, u, target, status), {})
    BY <1>1, <2>1, CohortMemberUpdatedHandled
  <2>3. CohortMemberUpdated(c, u, target, status).offer = db.offer
    BY <1>1 DEF CohortMemberUpdated, Database
  <2> QED  BY <2>1, <2>2, <2>3
<1>6. CASE \E a \in User, i \in Invite, offer \in Offer :
              MayInvite(a, i, offer) /\ NewToken(i) /\ Load(s, Invited(i, offer), {})
  <2>1. PICK a \in User, i \in Invite, offer \in Offer :
              MayInvite(a, i, offer) /\ NewToken(i) /\ Load(s, Invited(i, offer), {})
    BY <1>6
  <2>2. Handled(db, Invited(i, offer), {})
    BY <1>1, <2>1, InvitedHandled
  <2>3. Invited(i, offer).offer = [db.offer EXCEPT ![i] = offer]
    BY <1>1 DEF Invited, Database
  <2>4. \A j \in Invite : Invited(i, offer).offer[j] # db.offer[j] => NewToken(j)
    BY <1>1, <2>1, <2>3 DEF Database
  <2> QED  BY <2>1, <2>2, <2>4
<1>7. CASE \E a \in User, i \in Invite : MayRevokeInvite(a, i) /\ Load(s, InviteRevoked(i), {})
  <2>1. PICK a \in User, i \in Invite : MayRevokeInvite(a, i) /\ Load(s, InviteRevoked(i), {})
    BY <1>7
  <2>2. Handled(db, InviteRevoked(i), {})
    BY <1>1, <2>1, InviteRevokedHandled
  <2>3. InviteRevoked(i).offer = db.offer
    BY <1>1 DEF InviteRevoked, Database
  <2> QED  BY <2>1, <2>2, <2>3
<1>8. CASE \E u \in User, i \in Invite : MayAccept(u, i) /\ Load(s, Accepted(u, i), {i})
  <2>1. PICK u \in User, i \in Invite : MayAccept(u, i) /\ Load(s, Accepted(u, i), {i})
    BY <1>8
  <2>2. Handled(db, Accepted(u, i), {i})
    BY <1>1, <2>1, AcceptedHandled
  <2>3. Accepted(u, i).offer = db.offer
    BY <1>1 DEF Accepted, Database
  <2> QED  BY <2>1, <2>2, <2>3
<1> QED  BY <1>2, <1>3, <1>4, <1>5, <1>6, <1>7, <1>8 DEF Begin

\* A loaded transaction is one of the open ones from then on.
LEMMA LoadKeepsInv ==
    ASSUME OrgTxInv, NEW s \in Session, NEW new, NEW accepts,
           Handled(db, new, accepts), Load(s, new, accepts),
           \A i \in Invite : new.offer[i] # db.offer[i] => NewToken(i)
    PROVE  OrgTxInv'
<1> DEFINE t == [op |-> "write", seen |-> db, new |-> new, accepts |-> accepts]
<1>1. /\ OrgTxTypeOK /\ OffersFounded /\ TxInv /\ OneCreates
      /\ OwnerUnlessRaced /\ EnrolledUnlessRaced /\ UsesUnlessRaced
  BY DEF OrgTxInv
<1>2. /\ open' = [open EXCEPT ![s] = t] /\ open[s] = NoTx
      /\ UNCHANGED <<db, expired, accepted, raced>>
  BY DEF Load, orgVars
<1>3. t \in Transaction /\ t # NoTx
  BY DEF Handled, Transaction, NoTx
<1>4. OrgTxTypeOK'
  BY <1>1, <1>2, <1>3 DEF OrgTxTypeOK, OrgTypeOK
<1>5. t.seen = db /\ t.new = new /\ t.accepts = accepts
  OBVIOUS
<1>6. \A r \in Session : open'[r] = IF r = s THEN t ELSE open[r]
  BY <1>1, <1>2 DEF OrgTxTypeOK
<1>7. TxInv'
  <2>1. SUFFICES ASSUME NEW r \in Session, open'[r] # NoTx
                 PROVE  /\ Handled(open'[r].seen, open'[r].new, open'[r].accepts)
                        /\ \A u \in User : open'[r].seen.role[u] # "none" => db.role[u] # "none"
                        /\ \A u \in User \ raced.users : EnrolledOK(open'[r].new, u)
                        /\ \A i \in Invite :
                             /\ open'[r].seen.offer[i] # NoOffer =>
                                   db.offer[i] = open'[r].seen.offer[i]
                             /\ open'[r].new.offer[i] # open'[r].seen.offer[i] =>
                                   db.offer[i] = NoOffer
    BY <1>2 DEF TxInv, Handled
  <2>2. CASE r # s
    BY <1>1, <1>6, <2>1, <2>2 DEF TxInv
  <2>3. CASE r = s
    <3>1. \A u \in User \ raced.users : EnrolledOK(db, u)
      BY <1>1 DEF EnrolledUnlessRaced, EnrolledOK, IsMember
    <3>2. \A u \in User \ raced.users : EnrolledOK(new, u)
      BY <3>1 DEF Handled
    <3>3. \A i \in Invite : new.offer[i] # db.offer[i] => db.offer[i] = NoOffer
      BY DEF Handled, OffersHandled
    <3> QED  BY <1>5, <1>6, <2>3, <3>2, <3>3
  <2> QED  BY <2>2, <2>3
<1>8. OneCreates'
  <2>1. SUFFICES ASSUME NEW r \in Session, NEW q \in Session, NEW i \in Invite, r # q,
                        open'[r] # NoTx, open'[q] # NoTx,
                        open'[r].new.offer[i] # open'[r].seen.offer[i]
                 PROVE  open'[q].new.offer[i] = NoOffer
    BY DEF OneCreates
  <2>2. CASE r # s /\ q # s
    BY <1>1, <1>6, <2>1, <2>2 DEF OneCreates
  <2>3. CASE r = s
    <3>1. NewToken(i)
      BY <1>5, <1>6, <2>1, <2>3
    <3> QED  BY <1>6, <2>1, <2>3, <3>1 DEF NewToken
  <2>4. CASE q = s
    <3>1. db.offer[i] = NoOffer /\ open[r].new.offer[i] # NoOffer
      BY <1>1, <1>6, <2>1, <2>4 DEF TxInv, Handled, OffersHandled
    <3>2. ~NewToken(i)
      BY <1>6, <2>1, <2>4, <3>1 DEF NewToken
    <3> QED  BY <1>5, <1>6, <2>4, <3>1, <3>2
  <2> QED  BY <2>2, <2>3, <2>4
<1>9. OwnerUnlessRaced' /\ EnrolledUnlessRaced' /\ UsesUnlessRaced' /\ OffersFounded'
  BY <1>1, <1>2 DEF OwnerUnlessRaced, OneOwner, Owners, EnrolledUnlessRaced, IsMember,
                    UsesUnlessRaced, OffersFounded, Founded
<1> QED  BY <1>4, <1>7, <1>8, <1>9 DEF OrgTxInv

\* A COMMIT writes the rows of a user as the transaction has made them, over what it
\* has read, or leaves them alone, or the user's rows were overwritten.
LEMMA MergedRows ==
    ASSUME db \in Database, NEW t, t.seen \in Database, t.new \in Database, NEW u \in User
    PROVE  \/ u \in OverwrittenBy(t).users
           \/ /\ Merged(t).role[u] = db.role[u] /\ Merged(t).status[u] = db.status[u]
              /\ \A c \in Cohort : Merged(t).enrolled[c][u] = db.enrolled[c][u]
              /\ t.new.role[u] = t.seen.role[u] /\ t.new.status[u] = t.seen.status[u]
           \/ /\ Merged(t).role[u] = t.new.role[u] /\ Merged(t).status[u] = t.new.status[u]
              /\ \A c \in Cohort : Merged(t).enrolled[c][u] = t.new.enrolled[c][u]
              /\ db.role[u] = t.seen.role[u] /\ db.status[u] = t.seen.status[u]
<1>1. /\ Merged(t).role[u] = WrittenOver(db.role[u], t.seen.role[u], t.new.role[u])
      /\ Merged(t).status[u] = WrittenOver(db.status[u], t.seen.status[u], t.new.status[u])
      /\ \A c \in Cohort : Merged(t).enrolled[c][u] =
            WrittenOver(db.enrolled[c][u], t.seen.enrolled[c][u], t.new.enrolled[c][u])
  BY DEF Merged, Changed, Database
<1>2. CASE ~WritesUser(t, u)
  <2>1. /\ t.new.role[u] = t.seen.role[u] /\ t.new.status[u] = t.seen.status[u]
        /\ [c \in Cohort |-> t.new.enrolled[c][u]] = [c \in Cohort |-> t.seen.enrolled[c][u]]
    BY <1>2 DEF WritesUser, RowsOf
  <2>2. \A c \in Cohort : t.new.enrolled[c][u] = t.seen.enrolled[c][u]
    BY <2>1
  <2> QED  BY <1>1, <2>1, <2>2 DEF WrittenOver
<1>3. CASE WritesUser(t, u) /\ RowsOf(db, u) = RowsOf(t.seen, u)
  <2>1. /\ db.role[u] = t.seen.role[u] /\ db.status[u] = t.seen.status[u]
        /\ [c \in Cohort |-> db.enrolled[c][u]] = [c \in Cohort |-> t.seen.enrolled[c][u]]
    BY <1>3 DEF RowsOf
  <2>2. \A c \in Cohort : db.enrolled[c][u] = t.seen.enrolled[c][u]
    BY <2>1
  <2> QED  BY <1>1, <2>1, <2>2 DEF WrittenOver
<1>4. CASE WritesUser(t, u) /\ RowsOf(db, u) # RowsOf(t.seen, u)
  BY <1>4 DEF OverwrittenBy
<1> QED  BY <1>2, <1>3, <1>4

LEMMA MergedType ==
    ASSUME db \in Database, NEW t, t.seen \in Database, t.new \in Database
    PROVE  /\ Merged(t) \in Database
           /\ \A u \in User :
                 Merged(t).role[u] = WrittenOver(db.role[u], t.seen.role[u], t.new.role[u])
           /\ \A i \in Invite :
                 /\ Merged(t).offer[i] = WrittenOver(db.offer[i], t.seen.offer[i], t.new.offer[i])
                 /\ Merged(t).uses[i] = WrittenOver(db.uses[i], t.seen.uses[i], t.new.uses[i])
<1>1. /\ Changed(t.new.role, t.seen.role, db.role) \in [User -> Role \cup {"none"}]
      /\ Changed(t.new.status, t.seen.status, db.status) \in [User -> Standing]
  BY DEF Changed, WrittenOver, Database
<1>2. [c \in Cohort |-> Changed(t.new.enrolled[c], t.seen.enrolled[c], db.enrolled[c])]
         \in [Cohort -> [User -> Standing \cup {"none"}]]
  BY DEF Changed, WrittenOver, Database
<1>3. /\ Changed(t.new.offer, t.seen.offer, db.offer) \in [Invite -> Offer \cup {NoOffer}]
      /\ Changed(t.new.uses, t.seen.uses, db.uses) \in [Invite -> 0..MaxUses]
  BY DEF Changed, WrittenOver, Database
<1>4. /\ db.cohorts \cup (t.new.cohorts \ t.seen.cohorts) \in SUBSET Cohort
      /\ db.revoked \cup (t.new.revoked \ t.seen.revoked) \in SUBSET Invite
  BY DEF Database
<1>5. Merged(t) \in Database
  BY <1>1, <1>2, <1>3, <1>4 DEF Merged, Database
<1> QED  BY <1>5 DEF Merged, Changed, Database

\* The owner, when no rows were overwritten.
LEMMA MergedOwner ==
    ASSUME db \in Database, OneOwner, NEW t, Handled(t.seen, t.new, t.accepts), NoDuplicate(t),
           \A u \in User : t.seen.role[u] # "none" => db.role[u] # "none",
           OverwrittenBy(t).users = {}, Founded(Merged(t))
    PROVE  \E u \in User :
              /\ {v \in User : Merged(t).role[v] = "owner"} = {u}
              /\ Merged(t).status[u] = "active"
<1> DEFINE new == Merged(t)
<1>1. t.seen \in Database /\ t.new \in Database /\ OwnerHandled(t.seen, t.new)
  BY DEF Handled
<1>2. \A u \in User :
         \/ /\ new.role[u] = db.role[u] /\ new.status[u] = db.status[u]
            /\ t.new.role[u] = t.seen.role[u] /\ t.new.status[u] = t.seen.status[u]
         \/ /\ new.role[u] = t.new.role[u] /\ new.status[u] = t.new.status[u]
            /\ db.role[u] = t.seen.role[u] /\ db.status[u] = t.seen.status[u]
  BY <1>1, MergedRows
<1>3. CASE Founds(t.seen, t.new)
  <2>1. \A u \in User : t.seen.role[u] = "none" /\ db.role[u] = "none"
    BY <1>3 DEF Founds, Founded, NoDuplicate
  <2>2. PICK u \in User : /\ t.new.role[u] = "owner" /\ t.new.status[u] = "active"
                          /\ \A v \in User \ {u} : t.new.role[v] = t.seen.role[v]
    BY <1>3 DEF Founds
  <2>3. new.role[u] = "owner" /\ new.status[u] = "active"
    BY <1>2, <2>1, <2>2
  <2>4. \A v \in User \ {u} : new.role[v] = "none"
    BY <1>2, <2>1, <2>2
  <2> QED  BY <2>3, <2>4
<1>4. CASE Founded(t.seen) /\ (KeepsOwner(t.seen, t.new) \/ Transfers(t.seen, t.new))
  <2>1. PICK o \in User : Owners = {o} /\ db.status[o] = "active"
    BY <1>4 DEF Founded, OneOwner
  <2>2. db.role[o] = "owner" /\ \A v \in User \ {o} : db.role[v] # "owner"
    BY <2>1 DEF Owners
  <2>3. CASE KeepsOwner(t.seen, t.new)
    <3>1. new.role[o] = "owner" /\ new.status[o] = "active"
      BY <1>2, <2>1, <2>2, <2>3 DEF KeepsOwner
    <3>2. \A v \in User \ {o} : new.role[v] # "owner"
      BY <1>2, <2>2, <2>3 DEF KeepsOwner
    <3> QED  BY <3>1, <3>2
  <2>4. CASE Transfers(t.seen, t.new)
    <3>1. PICK a \in User, u \in User :
             /\ a # u /\ t.seen.role[a] = "owner" /\ t.seen.role[u] # "owner"
             /\ t.new.role[a] = "admin" /\ t.new.role[u] = "owner" /\ t.new.status[u] = "active"
             /\ \A v \in User \ {a, u} : t.new.role[v] = t.seen.role[v]
      BY <2>4 DEF Transfers
    <3>2. db.role[a] = "owner" /\ new.role[a] = "admin"
      BY <1>2, <3>1
    <3>3. new.role[u] = "owner" /\ new.status[u] = "active"
      BY <1>2, <3>1
    <3>4. \A v \in User \ {u} : new.role[v] # "owner"
      BY <1>2, <2>2, <3>1, <3>2
    <3> QED  BY <3>3, <3>4
  <2> QED  BY <1>4, <2>3, <2>4
<1> QED  BY <1>1, <1>3, <1>4 DEF OwnerHandled

LEMMA CommitKeepsInv ==
    ASSUME OrgTxInv, NEW s \in Session, Commit(s)
    PROVE  OrgTxInv'
<1> DEFINE t == open[s]
<1>1. /\ OrgTxTypeOK /\ OffersFounded /\ TxInv /\ OneCreates
      /\ OwnerUnlessRaced /\ EnrolledUnlessRaced /\ UsesUnlessRaced
  BY DEF OrgTxInv
<1>2. /\ t # NoTx /\ NoDuplicate(t) /\ db' = Merged(t)
      /\ accepted' = [i \in Invite |-> IF i \in t.accepts THEN accepted[i] + 1 ELSE accepted[i]]
      /\ raced' = [users |-> raced.users \cup OverwrittenBy(t).users,
                   invites |-> raced.invites \cup OverwrittenBy(t).invites]
      /\ open' = [open EXCEPT ![s] = NoTx] /\ UNCHANGED expired
  BY DEF Commit
<1>3. /\ Handled(t.seen, t.new, t.accepts)
      /\ \A u \in User : t.seen.role[u] # "none" => db.role[u] # "none"
      /\ \A u \in User \ raced.users : EnrolledOK(t.new, u)
      /\ \A i \in Invite :
            /\ t.seen.offer[i] # NoOffer => db.offer[i] = t.seen.offer[i]
            /\ t.new.offer[i] # t.seen.offer[i] => db.offer[i] = NoOffer
  BY <1>1, <1>2 DEF TxInv
<1>4. db \in Database /\ t.seen \in Database /\ t.new \in Database /\ t.accepts \in SUBSET Invite
  BY <1>1, <1>3 DEF OrgTxTypeOK, OrgTypeOK, Handled
<1>5. /\ db' \in Database
      /\ \A u \in User : db'.role[u] = WrittenOver(db.role[u], t.seen.role[u], t.new.role[u])
      /\ \A i \in Invite :
            /\ db'.offer[i] = WrittenOver(db.offer[i], t.seen.offer[i], t.new.offer[i])
            /\ db'.uses[i] = WrittenOver(db.uses[i], t.seen.uses[i], t.new.uses[i])
  BY <1>2, <1>4, MergedType
<1>6. /\ raced'.users = raced.users \cup OverwrittenBy(t).users
      /\ raced'.invites = raced.invites \cup OverwrittenBy(t).invites
  BY <1>2
<1>7. \A r \in Session : open'[r] = IF r = s THEN NoTx ELSE open[r]
  BY <1>1, <1>2 DEF OrgTxTypeOK
<1>8. OrgTxTypeOK'
  <2>1. OverwrittenBy(t).users \in SUBSET User /\ OverwrittenBy(t).invites \in SUBSET Invite
    BY <1>4 DEF OverwrittenBy
  <2>2. raced' \in [users : SUBSET User, invites : SUBSET Invite]
    BY <1>1, <1>2, <2>1 DEF OrgTxTypeOK
  <2>3. accepted' \in [Invite -> Nat]
    BY <1>1, <1>2 DEF OrgTxTypeOK, OrgTypeOK
  <2>4. open' \in [Session -> Transaction \cup {NoTx}]
    BY <1>1, <1>2 DEF OrgTxTypeOK
  <2> QED  BY <1>1, <1>2, <1>5, <2>2, <2>3, <2>4 DEF OrgTxTypeOK, OrgTypeOK
<1>9. \A u \in User : db.role[u] # "none" => db'.role[u] # "none"
  BY <1>3, <1>5 DEF WrittenOver, Handled
<1>10. \A i \in Invite :
         \/ db'.offer[i] = db.offer[i]
         \/ /\ db.offer[i] = NoOffer /\ t.new.offer[i] # t.seen.offer[i] /\ Founded(t.seen)
            /\ db'.offer[i] = t.new.offer[i] /\ t.seen.offer[i] = NoOffer
  BY <1>3, <1>5 DEF WrittenOver, Handled, OffersHandled
<1>11. OffersFounded'
  <2>1. SUFFICES ASSUME NEW i \in Invite, db'.offer[i] # NoOffer
                 PROVE  \E u \in User : db'.role[u] # "none"
    BY DEF OffersFounded, Founded
  <2>2. \E u \in User : db.role[u] # "none"
    BY <1>1, <1>3, <1>10, <2>1 DEF OffersFounded, Founded
  <2> QED  BY <1>9, <2>2
<1>12. TxInv'
  <2>1. SUFFICES ASSUME NEW r \in Session, open'[r] # NoTx
                 PROVE  /\ Handled(open'[r].seen, open'[r].new, open'[r].accepts)
                        /\ \A u \in User : open'[r].seen.role[u] # "none" => db'.role[u] # "none"
                        /\ \A u \in User \ raced'.users : EnrolledOK(open'[r].new, u)
                        /\ \A i \in Invite :
                             /\ open'[r].seen.offer[i] # NoOffer =>
                                   db'.offer[i] = open'[r].seen.offer[i]
                             /\ open'[r].new.offer[i] # open'[r].seen.offer[i] =>
                                   db'.offer[i] = NoOffer
    BY DEF TxInv, Handled
  <2>2. r # s /\ open'[r] = open[r] /\ open[r] # NoTx
    BY <1>7, <2>1
  <2>3. /\ Handled(open[r].seen, open[r].new, open[r].accepts)
        /\ \A u \in User : open[r].seen.role[u] # "none" => db.role[u] # "none"
        /\ \A u \in User \ raced.users : EnrolledOK(open[r].new, u)
        /\ \A i \in Invite :
             /\ open[r].seen.offer[i] # NoOffer => db.offer[i] = open[r].seen.offer[i]
             /\ open[r].new.offer[i] # open[r].seen.offer[i] => db.offer[i] = NoOffer
    BY <1>1, <2>2 DEF TxInv
  <2>4. ASSUME NEW i \in Invite
        PROVE  /\ open[r].seen.offer[i] # NoOffer => db'.offer[i] = open[r].seen.offer[i]
               /\ open[r].new.offer[i] # open[r].seen.offer[i] => db'.offer[i] = NoOffer
    <3>1. CASE db'.offer[i] = db.offer[i]
      BY <2>3, <3>1
    <3>2. CASE db.offer[i] = NoOffer /\ t.new.offer[i] # t.seen.offer[i]
      <4>1. open[r].new.offer[i] = NoOffer
        BY <1>1, <1>2, <2>2, <3>2 DEF OneCreates
      <4>2. open[r].seen.offer[i] = NoOffer
        BY <2>3, <3>2
      <4> QED  BY <4>1, <4>2
    <3> QED  BY <1>10, <3>1, <3>2
  <2> QED  BY <1>6, <1>9, <2>2, <2>3, <2>4
<1>13. OneCreates'
  BY <1>1, <1>7 DEF OneCreates
<1>14. OwnerUnlessRaced'
  <2>1. SUFFICES ASSUME raced'.users = {}, Founded(db') PROVE OneOwner'
    BY DEF OwnerUnlessRaced, OneOwner, Founded
  <2>2. OneOwner /\ OverwrittenBy(t).users = {}
    BY <1>1, <1>6, <2>1 DEF OwnerUnlessRaced
  <2>3. Founded(Merged(t))
    BY <1>2, <2>1
  <2>4. \E u \in User :
           /\ {v \in User : Merged(t).role[v] = "owner"} = {u}
           /\ Merged(t).status[u] = "active"
    BY <1>2, <1>3, <1>4, <2>2, <2>3, MergedOwner
  <2> QED  BY <1>2, <2>4 DEF OneOwner, Owners
<1>15. EnrolledUnlessRaced'
  <2>1. SUFFICES ASSUME NEW u \in User \ raced'.users PROVE EnrolledOK(db', u)
    BY DEF EnrolledUnlessRaced, EnrolledOK, IsMember
  <2>2. u \notin raced.users /\ u \notin OverwrittenBy(t).users
    BY <1>6
  <2>3. EnrolledOK(db, u) /\ EnrolledOK(t.new, u)
    BY <1>1, <1>3, <2>2 DEF EnrolledUnlessRaced, EnrolledOK, IsMember
  <2> QED  BY <1>2, <1>4, <2>2, <2>3, MergedRows DEF EnrolledOK
<1>16. UsesUnlessRaced'
  <2>1. SUFFICES ASSUME NEW i \in Invite
                 PROVE  /\ i \notin raced'.invites => accepted'[i] = db'.uses[i]
                        /\ db'.uses[i] <= db'.offer[i].max
    BY DEF UsesUnlessRaced
  <2>2. /\ db.uses[i] \in Nat /\ accepted[i] \in Nat /\ t.seen.uses[i] \in Nat
        /\ db.offer[i].max \in Nat /\ db'.offer[i].max \in Nat
    BY <1>1, <1>4, <1>5, OrganizationAssumption
       DEF Database, OrgTxTypeOK, OrgTypeOK, Offer, NoOffer
  <2>3. db.uses[i] <= db'.offer[i].max
    BY <1>1, <1>10, <2>2 DEF UsesUnlessRaced, NoOffer
  <2>4. CASE i \in t.accepts
    <3>1. /\ t.seen.offer[i] # NoOffer /\ t.seen.uses[i] < t.seen.offer[i].max
          /\ t.new.uses[i] = t.seen.uses[i] + 1
      BY <1>3, <2>4 DEF Handled, UsesHandled
    <3>2. db'.uses[i] = t.seen.uses[i] + 1
      BY <1>5, <2>2, <3>1 DEF WrittenOver
    <3>3. db'.offer[i] = t.seen.offer[i]
      BY <1>3, <1>10, <3>1
    <3>4. i \notin raced'.invites => i \notin raced.invites /\ db.uses[i] = t.seen.uses[i]
      BY <1>6, <2>4 DEF OverwrittenBy
    <3>5. accepted'[i] = accepted[i] + 1
      BY <1>2, <2>4
    <3>6. i \notin raced.invites => accepted[i] = db.uses[i]
      BY <1>1 DEF UsesUnlessRaced
    <3> QED  BY <2>2, <3>1, <3>2, <3>3, <3>4, <3>5, <3>6
  <2>5. CASE i \notin t.accepts
    <3>1. t.new.uses[i] = t.seen.uses[i]
      BY <1>3, <2>5 DEF Handled, UsesHandled
    <3>2. db'.uses[i] = db.uses[i] /\ accepted'[i] = accepted[i]
      BY <1>2, <1>5, <2>5, <3>1 DEF WrittenOver
    <3> QED  BY <1>1, <1>6, <2>3, <3>2 DEF UsesUnlessRaced
  <2> QED  BY <2>4, <2>5
<1> QED  BY <1>8, <1>11, <1>12, <1>13, <1>14, <1>15, <1>16 DEF OrgTxInv

LEMMA RollbackKeepsInv ==
    ASSUME OrgTxInv, NEW s \in Session, Rollback(s)
    PROVE  OrgTxInv'
<1>1. /\ OrgTxTypeOK /\ OffersFounded /\ TxInv /\ OneCreates
      /\ OwnerUnlessRaced /\ EnrolledUnlessRaced /\ UsesUnlessRaced
  BY DEF OrgTxInv
<1>2. UNCHANGED <<db, expired, accepted, raced>> /\ open' = [open EXCEPT ![s] = NoTx]
  BY DEF Rollback, orgVars
<1>3. OrgTxTypeOK'
  BY <1>1, <1>2 DEF OrgTxTypeOK, OrgTypeOK
<1>4. \A r \in Session : open'[r] # NoTx => open'[r] = open[r]
  BY <1>1, <1>2 DEF OrgTxTypeOK
<1>5. TxInv' /\ OneCreates'
  BY <1>1, <1>2, <1>4 DEF TxInv, OneCreates, Handled
<1>6. OwnerUnlessRaced' /\ EnrolledUnlessRaced' /\ UsesUnlessRaced' /\ OffersFounded'
  BY <1>1, <1>2 DEF OwnerUnlessRaced, OneOwner, Owners, EnrolledUnlessRaced, IsMember,
                    UsesUnlessRaced, OffersFounded, Founded
<1> QED  BY <1>3, <1>5, <1>6 DEF OrgTxInv

LEMMA ExpireKeepsInv ==
    ASSUME OrgTxInv, NEW i \in Invite, Expire(i), UNCHANGED <<open, raced>>
    PROVE  OrgTxInv'
<1>1. /\ OrgTxTypeOK /\ OffersFounded /\ TxInv /\ OneCreates
      /\ OwnerUnlessRaced /\ EnrolledUnlessRaced /\ UsesUnlessRaced
  BY DEF OrgTxInv
<1>2. UNCHANGED <<db, accepted, open, raced>> /\ expired' = expired \cup {i}
  BY DEF Expire
<1>3. OrgTxTypeOK'
  BY <1>1, <1>2 DEF OrgTxTypeOK, OrgTypeOK
<1>4. TxInv' /\ OneCreates'
  BY <1>1, <1>2 DEF TxInv, OneCreates, Handled
<1>5. OwnerUnlessRaced' /\ EnrolledUnlessRaced' /\ UsesUnlessRaced' /\ OffersFounded'
  BY <1>1, <1>2 DEF OwnerUnlessRaced, OneOwner, Owners, EnrolledUnlessRaced, IsMember,
                    UsesUnlessRaced, OffersFounded, Founded
<1> QED  BY <1>3, <1>4, <1>5 DEF OrgTxInv

LEMMA EmptyOrganization ==
    ASSUME OrgInit
    PROVE  OrgTypeOK /\ OffersFounded /\ OneOwner /\ EnrolledIsMember /\ UsesAreCounted
<1>1. db \in Database
  BY OrganizationAssumption DEF OrgInit, EmptyDatabase, Database, Role, Standing
<1>2. OrgTypeOK
  BY <1>1 DEF OrgTypeOK, OrgInit
<1>3. /\ \A u \in User : db.role[u] = "none"
      /\ \A c \in Cohort, u \in User : db.enrolled[c][u] = "none"
      /\ \A i \in Invite : db.offer[i] = NoOffer /\ db.uses[i] = 0 /\ accepted[i] = 0
  BY DEF OrgInit, EmptyDatabase
<1>4. OffersFounded /\ OneOwner /\ EnrolledIsMember
  BY <1>3 DEF OffersFounded, OneOwner, EnrolledIsMember
<1>5. UsesAreCounted
  BY <1>3 DEF UsesAreCounted, NoOffer
<1> QED  BY <1>2, <1>4, <1>5

LEMMA TxInitially == OrgTxInit => OrgTxInv
<1> SUFFICES ASSUME OrgTxInit PROVE OrgTxInv
  OBVIOUS
<1>1. OrgInit /\ open = [s \in Session |-> NoTx] /\ raced = [users |-> {}, invites |-> {}]
  BY DEF OrgTxInit
<1>2. OrgTypeOK /\ OffersFounded /\ OneOwner /\ EnrolledIsMember /\ UsesAreCounted
  BY <1>1, EmptyOrganization
<1>3. OrgTxTypeOK /\ TxInv /\ OneCreates
  BY <1>1, <1>2 DEF OrgTxTypeOK, TxInv, OneCreates
<1>4. OwnerUnlessRaced /\ EnrolledUnlessRaced /\ UsesUnlessRaced
  BY <1>2 DEF OwnerUnlessRaced, EnrolledUnlessRaced, EnrolledIsMember, UsesUnlessRaced,
              UsesAreCounted
<1> QED  BY <1>2, <1>3, <1>4 DEF OrgTxInv

LEMMA TxStep == OrgTxInv /\ [OrgTxNext]_orgTxVars => OrgTxInv'
<1> SUFFICES ASSUME OrgTxInv, [OrgTxNext]_orgTxVars PROVE OrgTxInv'
  OBVIOUS
<1>1. ASSUME NEW s \in Session, Begin(s) PROVE OrgTxInv'
  <2>1. PICK new, accepts :
           /\ Handled(db, new, accepts) /\ Load(s, new, accepts)
           /\ \A i \in Invite : new.offer[i] # db.offer[i] => NewToken(i)
    BY <1>1, BeginLoads
  <2> QED  BY <2>1, LoadKeepsInv
<1>2. ASSUME NEW s \in Session, Commit(s) PROVE OrgTxInv'
  BY <1>2, CommitKeepsInv
<1>3. ASSUME NEW s \in Session, Rollback(s) PROVE OrgTxInv'
  BY <1>3, RollbackKeepsInv
<1>4. ASSUME NEW i \in Invite, Expire(i), UNCHANGED <<open, raced>> PROVE OrgTxInv'
  BY <1>4, ExpireKeepsInv
<1>5. CASE UNCHANGED orgTxVars
  BY <1>5 DEF orgTxVars, orgVars, OrgTxInv, OrgTxTypeOK, OrgTypeOK, TxInv, OneCreates, Handled,
              OwnerUnlessRaced, OneOwner, Owners, EnrolledUnlessRaced, IsMember,
              UsesUnlessRaced, OffersFounded, Founded
<1> QED  BY <1>1, <1>2, <1>3, <1>4, <1>5 DEF OrgTxNext

LEMMA TxInvariant == OrgTxSpec => []OrgTxInv
  BY TxInitially, TxStep, PTL DEF OrgTxSpec

\* For any number of users and overlapping requests: an organization has one owner, who is
\* active, unless two requests wrote the membership of one user at once (update_organization_member,
\* accept_invite and create_organization of routers/organizations.py).
THEOREM OwnerNeedsRace == OrgTxSpec => []OwnerUnlessRaced
<1>1. OrgTxInv => OwnerUnlessRaced  BY DEF OrgTxInv
<1> QED  BY <1>1, TxInvariant, PTL

\* For any number of users, cohorts and overlapping requests: a user is active in a cohort
\* but not in the organization only after an overwrite of rows of this user.
THEOREM EnrolmentNeedsRace == OrgTxSpec => []EnrolledUnlessRaced
<1>1. OrgTxInv => EnrolledUnlessRaced  BY DEF OrgTxInv
<1> QED  BY <1>1, TxInvariant, PTL

\* For any number of invites and overlapping acceptances: the count of an invite stays below
\* its limit, and is right unless two acceptances of that invite overlapped.
THEOREM UsesNeedRace == OrgTxSpec => []UsesUnlessRaced
<1>1. OrgTxInv => UsesUnlessRaced  BY DEF OrgTxInv
<1> QED  BY <1>1, TxInvariant, PTL

\* The three together: however requests on an organization overlap, what is wrong with its
\* owner, its cohorts or its invites comes from two requests that wrote one row.
THEOREM OrganizationNeedsRace == OrgTxSpec => []OrganizationIsSoundUnlessRaced
<1>1. OrgTxInv => OrganizationIsSoundUnlessRaced
  BY DEF OrgTxInv, OrganizationIsSoundUnlessRaced
<1> QED  BY <1>1, TxInvariant, PTL

-----------------------------------------------------------------------------
(* One request at a time                                                   *)

SequentialInv == OrgInv /\ OffersFounded

LEMMA HandledKeepsInv ==
    ASSUME SequentialInv, NEW new, NEW accepts, Handled(db, new, accepts), db' = new,
           accepted' = [i \in Invite |-> IF i \in accepts THEN accepted[i] + 1 ELSE accepted[i]],
           UNCHANGED expired
    PROVE  SequentialInv'
<1>1. /\ OrgTypeOK /\ OneOwner /\ EnrolledIsMember /\ UsesAreCounted /\ OffersFounded
  BY DEF SequentialInv, OrgInv
<1>2. OrgTypeOK'
  BY <1>1 DEF Handled, OrgTypeOK
<1>3. OneOwner'
  <2>1. CASE Founds(db, new)
    <3>1. PICK u \in User : /\ new.role[u] = "owner" /\ new.status[u] = "active"
                            /\ \A v \in User \ {u} : new.role[v] = "none"
      BY <2>1 DEF Founds, Founded
    <3> QED  BY <3>1 DEF OneOwner, Owners
  <2>2. CASE Founded(db) /\ (KeepsOwner(db, new) \/ Transfers(db, new))
    <3>1. PICK o \in User : Owners = {o} /\ db.status[o] = "active"
      BY <1>1, <2>2 DEF Founded, OneOwner
    <3>2. db.role[o] = "owner" /\ \A v \in User \ {o} : db.role[v] # "owner"
      BY <3>1 DEF Owners
    <3>3. CASE KeepsOwner(db, new)
      <4>1. /\ new.role[o] = "owner" /\ new.status[o] = "active"
            /\ \A v \in User \ {o} : new.role[v] # "owner"
        BY <3>1, <3>2, <3>3 DEF KeepsOwner
      <4> QED  BY <4>1 DEF OneOwner, Owners
    <3>4. CASE Transfers(db, new)
      <4>1. PICK u \in User : /\ new.role[u] = "owner" /\ new.status[u] = "active"
                              /\ \A v \in User \ {u} : new.role[v] # "owner"
        BY <3>2, <3>4 DEF Transfers
      <4> QED  BY <4>1 DEF OneOwner, Owners
    <3> QED  BY <2>2, <3>3, <3>4
  <2> QED  BY <2>1, <2>2 DEF Handled, OwnerHandled
<1>4. EnrolledIsMember'
  BY <1>1 DEF Handled, EnrolledIsMember, EnrolledOK, IsMember
<1>5. \A i \in Invite : db'.offer[i] = db.offer[i] \/ (db.offer[i] = NoOffer /\ Founded(db))
  BY DEF Handled, OffersHandled
<1>6. OffersFounded'
  BY <1>1, <1>5 DEF OffersFounded, Founded, Handled
<1>7. UsesAreCounted'
  <2>1. SUFFICES ASSUME NEW i \in Invite
                 PROVE  accepted'[i] = db'.uses[i] /\ db'.uses[i] <= db'.offer[i].max
    BY DEF UsesAreCounted
  <2>2. /\ db.uses[i] \in Nat /\ accepted[i] = db.uses[i] /\ db.uses[i] <= db.offer[i].max
        /\ db.offer[i].max \in Nat /\ db'.offer[i].max \in Nat
    BY <1>1, <1>2, OrganizationAssumption DEF UsesAreCounted, OrgTypeOK, Database, Offer, NoOffer
  <2>3. CASE i \in accepts
    BY <1>5, <2>2, <2>3 DEF Handled, UsesHandled
  <2>4. CASE i \notin accepts
    BY <1>5, <2>2, <2>4 DEF Handled, UsesHandled, NoOffer
  <2> QED  BY <2>3, <2>4
<1> QED  BY <1>2, <1>3, <1>4, <1>6, <1>7 DEF SequentialInv, OrgInv

LEMMA NothingAccepted ==
    ASSUME OrgTypeOK
    PROVE  accepted = [i \in Invite |-> IF i \in {} THEN accepted[i] + 1 ELSE accepted[i]]
BY DEF OrgTypeOK

LEMMA SequentialStep == SequentialInv /\ [OrgNext]_orgVars => SequentialInv'
<1> SUFFICES ASSUME SequentialInv, [OrgNext]_orgVars PROVE SequentialInv'
  OBVIOUS
<1>0. /\ db \in Database /\ OffersFounded
      /\ accepted = [i \in Invite |-> IF i \in {} THEN accepted[i] + 1 ELSE accepted[i]]
  BY NothingAccepted DEF SequentialInv, OrgInv, OrgTypeOK
<1>1. ASSUME NEW u \in User, CreateOrganization(u)
      PROVE  SequentialInv'
  <2>1. MayCreate(u) /\ db' = Created(u) /\ UNCHANGED <<expired, accepted>>
    BY <1>1 DEF CreateOrganization, Keep
  <2>2. Handled(db, Created(u), {})
    BY <1>0, <2>1, CreatedHandled
  <2> QED  BY <1>0, <2>1, <2>2, HandledKeepsInv
<1>2. ASSUME NEW a \in User, NEW u \in User, NEW role \in Role \cup {LeftOut},
             NEW status \in Standing \cup {LeftOut}, UpdateMember(a, u, role, status)
      PROVE  SequentialInv'
  <2>1. /\ MayUpdateMember(a, u, role, status) /\ db' = MemberUpdated(a, u, role, status)
        /\ UNCHANGED <<expired, accepted>>
    BY <1>2 DEF UpdateMember, Keep
  <2>2. Handled(db, MemberUpdated(a, u, role, status), {})
    BY <1>0, <2>1, MemberUpdatedHandled
  <2> QED  BY <1>0, <2>1, <2>2, HandledKeepsInv
<1>3. ASSUME NEW a \in User, NEW c \in Cohort, CreateCohort(a, c)
      PROVE  SequentialInv'
  <2>1. MayCreateCohort(a, c) /\ db' = CohortCreated(c) /\ UNCHANGED <<expired, accepted>>
    BY <1>3 DEF CreateCohort, Keep
  <2>2. Handled(db, CohortCreated(c), {})
    BY <1>0, <2>1, CohortCreatedHandled
  <2> QED  BY <1>0, <2>1, <2>2, HandledKeepsInv
<1>4. ASSUME NEW a \in User, NEW u \in User, NEW c \in Cohort,
             NEW target \in Cohort \cup {NoCohort}, NEW status \in Standing \cup {LeftOut},
             UpdateCohortMember(a, c, u, target, status)
      PROVE  SequentialInv'
  <2>1. /\ MayUpdateCohortMember(a, c, u, target)
        /\ db' = CohortMemberUpdated(c, u, target, status)
        /\ UNCHANGED <<expired, accepted>>
    BY <1>4 DEF UpdateCohortMember, Keep
  <2>2. Handled(db, CohortMemberUpdated(c, u, target, status), {})
    BY <1>0, <2>1, CohortMemberUpdatedHandled
  <2> QED  BY <1>0, <2>1, <2>2, HandledKeepsInv
<1>5. ASSUME NEW a \in User, NEW i \in Invite, NEW offer \in Offer, CreateInvite(a, i, offer)
      PROVE  SequentialInv'
  <2>1. MayInvite(a, i, offer) /\ db' = Invited(i, offer) /\ UNCHANGED <<expired, accepted>>
    BY <1>5 DEF CreateInvite, Keep
  <2>2. Handled(db, Invited(i, offer), {})
    BY <1>0, <2>1, InvitedHandled
  <2> QED  BY <1>0, <2>1, <2>2, HandledKeepsInv
<1>6. ASSUME NEW a \in User, NEW i \in Invite, RevokeInvite(a, i)
      PROVE  SequentialInv'
  <2>1. MayRevokeInvite(a, i) /\ db' = InviteRevoked(i) /\ UNCHANGED <<expired, accepted>>
    BY <1>6 DEF RevokeInvite, Keep
  <2>2. Handled(db, InviteRevoked(i), {})
    BY <1>0, <2>1, InviteRevokedHandled
  <2> QED  BY <1>0, <2>1, <2>2, HandledKeepsInv
<1>7. ASSUME NEW u \in User, NEW i \in Invite, AcceptInvite(u, i)
      PROVE  SequentialInv'
  <2>1. MayAccept(u, i) /\ db' = Accepted(u, i) /\ UNCHANGED expired
    BY <1>7 DEF AcceptInvite
  <2>2. accepted' = [j \in Invite |-> IF j \in {i} THEN accepted[j] + 1 ELSE accepted[j]]
    BY <1>7 DEF AcceptInvite, SequentialInv, OrgInv, OrgTypeOK
  <2>3. Handled(db, Accepted(u, i), {i})
    BY <1>0, <2>1, AcceptedHandled
  <2> QED  BY <2>1, <2>2, <2>3, HandledKeepsInv
<1>8. ASSUME NEW i \in Invite, Expire(i)
      PROVE  SequentialInv'
  <2>1. UNCHANGED <<db, accepted>> /\ expired' = expired \cup {i}
    BY <1>8 DEF Expire
  <2> QED  BY <2>1 DEF SequentialInv, OrgInv, OrgTypeOK, OneOwner, Owners, EnrolledIsMember,
                       IsMember, UsesAreCounted, OffersFounded, Founded
<1>9. CASE UNCHANGED orgVars
  BY <1>9 DEF orgVars, SequentialInv, OrgInv, OrgTypeOK, OneOwner, Owners, EnrolledIsMember,
              IsMember, UsesAreCounted, OffersFounded, Founded
<1> QED  BY <1>1, <1>2, <1>3, <1>4, <1>5, <1>6, <1>7, <1>8, <1>9 DEF OrgNext

\* When requests do not overlap (update_organization_member, accept_invite and the other
\* handlers as one step each), the organization has one active owner, nobody is enrolled in
\* a cohort without being a member, and invites are counted and limited.
THEOREM OrganizationIsSafe == OrgSpec => []OrgInv
<1>1. OrgInit => SequentialInv
  BY EmptyOrganization DEF SequentialInv, OrgInv
<1>2. SequentialInv => OrgInv
  BY DEF SequentialInv
<1> QED  BY <1>1, <1>2, SequentialStep, PTL DEF OrgSpec

-----------------------------------------------------------------------------
(* Career plans                                                            *)

IsSound(row)         == row.status \in Open => ~row.completed
IsSaved(u, v, a)     == u.actions[a].kind = "saved_vacancy" /\ u.actions[a].vacancy = v
IsLearned(u, k, a)   == u.actions[a].skill = k /\ u.actions[a].status \in Open
Touched(t)           == Added(t) \cup Written(t)

\* What a request makes of the rows it has loaded.
RowsAsMade(t) ==
    /\ \A a \in Rows(t.seen) \cap Rows(t.new) :
          /\ t.new.actions[a].skill = t.seen.actions[a].skill
          /\ t.new.actions[a].vacancy = t.seen.actions[a].vacancy
          /\ IsSound(t.seen.actions[a]) => IsSound(t.new.actions[a])
          /\ t.op = "derived" => /\ t.new.actions[a].kind = t.seen.actions[a].kind
                                 /\ t.new.actions[a].status \in Open =>
                                       t.seen.actions[a].status \in Open
    /\ \A a \in Added(t) : IsSound(t.new.actions[a])
    /\ t.op = "derived" =>
          /\ \A a \in Written(t), b \in Touched(t) : a = b
          /\ \A v \in Vacancy, a \in Added(t) : t.new.actions[a].vacancy = v =>
                /\ \A b \in Rows(t.seen) : ~IsSaved(t.seen, v, b)
                /\ \A b \in Added(t) : t.new.actions[b].vacancy = v => a = b
          /\ \A k \in Skill, a \in Added(t) : t.new.actions[a].skill = k =>
                /\ \A b \in Rows(t.seen) : ~IsLearned(t.seen, k, b)
                /\ \A b \in Added(t) : t.new.actions[b].skill = k => a = b

\* What it has loaded was sound, but for what was raced.
SeenWasSound(t) ==
    /\ \A a \in Rows(t.seen) \ planRaced.actions : IsSound(t.seen.actions[a])
    /\ \A k \in Skill \ planRaced.skills, a, b \in Rows(t.seen) :
          IsLearned(t.seen, k, a) /\ IsLearned(t.seen, k, b) => a = b

\* A row keeps its skill and its vacancy.
SeenIsSame(t) ==
    \A a \in Rows(t.seen) \cap Rows(user) :
        /\ user.actions[a].skill = t.seen.actions[a].skill
        /\ user.actions[a].vacancy = t.seen.actions[a].vacancy

\* The rows of a request that has not committed are nobody else's.
RowsAreOwn(t) == Added(t) \cap Rows(user) = {}
RowsAreApart(t, r) ==
    /\ Added(t) \cap Rows(r.seen) = {} /\ Added(t) \cap Rows(r.new) = {}
    /\ Added(r) \cap Rows(t.seen) = {}

PlanInv ==
    /\ CareerTxTypeOK
    /\ \A s \in Session : planTx[s] # NoTx =>
          /\ RowsAsMade(planTx[s]) /\ SeenWasSound(planTx[s]) /\ SeenIsSame(planTx[s])
          /\ RowsAreOwn(planTx[s])
    /\ \A s, r \in Session : planTx[s] # NoTx /\ planTx[r] # NoTx /\ s # r =>
          RowsAreApart(planTx[s], planTx[r])
    /\ PlanIsSoundUnlessRaced

LEMMA RowTypes ==
    ASSUME NEW u \in UserRows, NEW a \in Rows(u)
    PROVE  a \in Action /\ u.actions[a] \in Row /\ u.actions[a] # NoAction
BY DEF UserRows, Rows

LEMMA RowIsNoGap == NoAction \notin Row
BY DEF NoAction, Row, Kind

\* A request that touches one row.
LEMMA OneRowMade ==
    ASSUME NEW u \in UserRows, NEW new \in UserRows, NEW a \in Action, NEW row \in Row,
           NEW t \in PlanTransaction, t.seen = u, t.new = new,
           new.actions = [u.actions EXCEPT ![a] = row],
           a \in Rows(u) =>
              /\ row.skill = u.actions[a].skill /\ row.vacancy = u.actions[a].vacancy
              /\ IsSound(u.actions[a]) => IsSound(row)
              /\ t.op = "derived" => /\ row.kind = u.actions[a].kind
                                     /\ row.status \in Open => u.actions[a].status \in Open,
           a \notin Rows(u) =>
              /\ IsSound(row)
              /\ t.op = "derived" => /\ row.skill = NoSkill
                                     /\ \A b \in Rows(u) : ~IsSaved(u, row.vacancy, b)
    PROVE  RowsAsMade(t) /\ Added(t) = {a} \ Rows(u)
<1>1. new.actions[a] = row /\ \A b \in Action : b # a => new.actions[b] = u.actions[b]
  BY DEF UserRows
<1>2. Rows(new) = Rows(u) \cup {a}
  BY <1>1, RowIsNoGap DEF Rows
<1>3. /\ Added(t) = {a} \ Rows(u) /\ Written(t) \subseteq {a} \cap Rows(u)
  <2>1. Added(t) = {a} \ Rows(u)
    BY <1>2 DEF Added
  <2>2. Written(t) \subseteq {a} \cap Rows(u)
    BY <1>1, <1>2 DEF Written, Rows
  <2> QED BY <2>1, <2>2
<1>4. \A b \in Rows(t.seen) \cap Rows(t.new) :
          /\ t.new.actions[b].skill = t.seen.actions[b].skill
          /\ t.new.actions[b].vacancy = t.seen.actions[b].vacancy
          /\ IsSound(t.seen.actions[b]) => IsSound(t.new.actions[b])
          /\ t.op = "derived" => /\ t.new.actions[b].kind = t.seen.actions[b].kind
                                 /\ t.new.actions[b].status \in Open =>
                                       t.seen.actions[b].status \in Open
  BY <1>1 DEF Rows
<1>5. \A b \in Added(t) : IsSound(t.new.actions[b])
  BY <1>1, <1>3
<1>6. ASSUME t.op = "derived"
      PROVE  /\ \A b \in Written(t), c \in Touched(t) : b = c
             /\ \A v \in Vacancy, b \in Added(t) : t.new.actions[b].vacancy = v =>
                   /\ \A c \in Rows(t.seen) : ~IsSaved(t.seen, v, c)
                   /\ \A c \in Added(t) : t.new.actions[c].vacancy = v => b = c
             /\ \A k \in Skill, b \in Added(t) : t.new.actions[b].skill = k =>
                   /\ \A c \in Rows(t.seen) : ~IsLearned(t.seen, k, c)
                   /\ \A c \in Added(t) : t.new.actions[c].skill = k => b = c
  BY <1>1, <1>3, <1>6, CareerAssumption DEF Touched
<1> QED BY <1>3, <1>4, <1>5, <1>6 DEF RowsAsMade

\* An assignment to a row gives rows of the user.
LEMMA PutRow ==
    ASSUME user \in UserRows, NEW a \in Action, NEW row \in Row
    PROVE  /\ RowPut(a, row) \in UserRows /\ RowRecorded(a, row) \in UserRows
           /\ RowPut(a, row).actions = [user.actions EXCEPT ![a] = row]
           /\ RowRecorded(a, row).actions = [user.actions EXCEPT ![a] = row]
<1> DEFINE rows == [user.actions EXCEPT ![a] = row]
           events == user.events \cup {a}
<1>1. /\ RowPut(a, row) = [user EXCEPT !.actions = rows]
      /\ RowRecorded(a, row) = [user EXCEPT !.actions = rows, !.events = events]
  BY DEF RowPut, RowRecorded
<1>2. rows \in [Action -> Row \cup {NoAction}] /\ events \in SUBSET Action
  BY DEF UserRows
<1> HIDE DEF rows, events
<1>3. /\ RowPut(a, row) \in UserRows /\ RowRecorded(a, row) \in UserRows
      /\ RowPut(a, row).actions = rows /\ RowRecorded(a, row).actions = rows
  BY <1>1, <1>2 DEF UserRows
<1> QED BY <1>3 DEF rows

AsLoaded(op, new) == [op |-> op, seen |-> user, new |-> new, orphan |-> FALSE]

\* A transaction as it has to be when it has loaded its rows.
IsWellMade(op, new, fresh) ==
    /\ new \in UserRows /\ RowsAsMade(AsLoaded(op, new))
    /\ Rows(new) \ Rows(user) \subseteq fresh

LEMMA LoadedType ==
    ASSUME CareerTypeOK, NEW op \in {"typed", "derived"}, NEW new \in UserRows
    PROVE  /\ AsLoaded(op, new) \in PlanTransaction
           /\ AsLoaded(op, new).op = op /\ AsLoaded(op, new).seen = user
           /\ AsLoaded(op, new).new = new
BY DEF AsLoaded, PlanTransaction, CareerTypeOK

LEMMA DeletedMade ==
    ASSUME CareerTypeOK PROVE IsWellMade("derived", PlanDeleted, {})
<1> DEFINE none == [a \in Action |-> NoAction]
<1>1. user \in UserRows /\ none \in [Action -> Row \cup {NoAction}]
  BY DEF CareerTypeOK
<1>2. PlanDeleted = [user EXCEPT !.plan = FALSE, !.actions = none, !.events = {}]
  BY DEF PlanDeleted
<1>3. \A a \in Action : none[a] = NoAction
  OBVIOUS
<1> HIDE DEF none
<1>4. PlanDeleted \in UserRows /\ PlanDeleted.actions = none
  BY <1>1, <1>2 DEF UserRows
<1>5. Rows(PlanDeleted) = {}
  BY <1>3, <1>4 DEF Rows
<1>6. RowsAsMade(AsLoaded("derived", PlanDeleted))
  BY <1>4, <1>5, LoadedType DEF RowsAsMade, Added, Written, Touched
<1> QED BY <1>4, <1>5, <1>6 DEF IsWellMade

\* The rows that handlers make are rows, and sound if the row they change was.
LEMMA RowOfDraft ==
    ASSUME NEW draft \in Draft PROVE RowOf(draft) \in Row /\ IsSound(RowOf(draft))
<1> PICK done \in BOOLEAN : done <=> draft.status = "done"
  OBVIOUS
<1>1. RowOf(draft) = [kind |-> draft.kind, status |-> draft.status,
                      application |-> draft.application, skill |-> draft.skill,
                      vacancy |-> draft.vacancy, source |-> draft.source,
                      completed |-> done]
  BY DEF RowOf
<1>2. RowOf(draft) \in Row
  BY <1>1, CareerAssumption DEF Row
<1>3. RowOf(draft).status = draft.status /\ RowOf(draft).completed = done
  BY <1>1
<1> QED BY <1>2, <1>3 DEF IsSound, Open

LEMMA PatchedRow ==
    ASSUME NEW old \in Row, NEW edit \in Edit
    PROVE  /\ RowPatched(old, edit) \in Row
           /\ RowPatched(old, edit).skill = old.skill
           /\ RowPatched(old, edit).vacancy = old.vacancy
           /\ IsSound(old) => IsSound(RowPatched(old, edit))
<1>1. /\ edit.kind \in Kind \cup {Unset} /\ edit.status \in Status \cup {Unset}
      /\ edit.application \in Application \cup {Unset}
  BY CareerAssumption
<1> PICK completed \in BOOLEAN : completed = CompletedAfter(old, edit.status)
  <2>1. CASE edit.status = Unset
    BY <2>1 DEF CompletedAfter, Row, Unset
  <2>2. CASE edit.status = "done"
    BY <2>2 DEF CompletedAfter, Unset
  <2>3. CASE edit.status # Unset /\ edit.status # "done"
    BY <2>3 DEF CompletedAfter
  <2> QED BY <2>1, <2>2, <2>3
<1>2. RowPatched(old, edit) =
        [old EXCEPT !.kind = Patched(@, edit.kind), !.status = Patched(@, edit.status),
                    !.application = Patched(@, edit.application), !.completed = completed]
  BY DEF RowPatched
<1>3. /\ edit.status = Unset => completed = old.completed
      /\ edit.status # Unset /\ edit.status \in Open => completed = FALSE
  BY DEF CompletedAfter, Open, Unset
<1>4. /\ RowPatched(old, edit) \in Row
      /\ RowPatched(old, edit).skill = old.skill
      /\ RowPatched(old, edit).vacancy = old.vacancy
      /\ RowPatched(old, edit).status = Patched(old.status, edit.status)
      /\ RowPatched(old, edit).completed = completed
  BY <1>1, <1>2 DEF Row, Patched
<1> QED BY <1>3, <1>4 DEF IsSound, Patched

LEMMA OutcomeRow ==
    ASSUME NEW old \in Row, NEW outcome \in Outcome
    PROVE  /\ RowAfter(old, outcome) \in Row
           /\ RowAfter(old, outcome).skill = old.skill
           /\ RowAfter(old, outcome).vacancy = old.vacancy
           /\ RowAfter(old, outcome).kind = old.kind
           /\ RowAfter(old, outcome).status \in Open => old.status \in Open
           /\ IsSound(old) => IsSound(RowAfter(old, outcome))
<1> PICK over \in BOOLEAN : over <=> outcome \in {"offer", "rejected", "withdrawn"}
  OBVIOUS
<1> PICK completed \in BOOLEAN : completed = (old.completed \/ over)
  OBVIOUS
<1> PICK status \in Status : status = StatusAfter(old, outcome)
  BY DEF StatusAfter, Row, Status
<1>1. RowAfter(old, outcome) =
        [old EXCEPT !.application = outcome, !.status = status, !.completed = completed]
  BY DEF RowAfter
<1>2. status \in Open => old.status \in Open /\ ~over
  <2>1. over => status \notin Open
    BY DEF StatusAfter, Open
  <2>2. ~over => status = old.status \/ old.status = "planned"
    BY DEF StatusAfter
  <2> QED BY <2>1, <2>2 DEF Open
<1>3. /\ RowAfter(old, outcome) \in Row
      /\ RowAfter(old, outcome).skill = old.skill
      /\ RowAfter(old, outcome).vacancy = old.vacancy
      /\ RowAfter(old, outcome).kind = old.kind
      /\ RowAfter(old, outcome).status = status
      /\ RowAfter(old, outcome).completed = completed
  BY <1>1, CareerAssumption DEF Row
<1> QED BY <1>2, <1>3 DEF IsSound

LEMMA SavingRows ==
    /\ \A v \in Vacancy : /\ RowSaving(v) \in Row /\ IsSound(RowSaving(v))
                          /\ RowSaving(v).skill = NoSkill /\ RowSaving(v).vacancy = v
    /\ \A old \in Row :
          /\ RowSavedAgain(old) \in Row
          /\ RowSavedAgain(old).skill = old.skill /\ RowSavedAgain(old).vacancy = old.vacancy
          /\ RowSavedAgain(old).kind = old.kind /\ RowSavedAgain(old).status = old.status
          /\ IsSound(old) => IsSound(RowSavedAgain(old))
<1>1. ASSUME NEW v \in Vacancy
      PROVE  /\ RowSaving(v) \in Row /\ IsSound(RowSaving(v))
             /\ RowSaving(v).skill = NoSkill /\ RowSaving(v).vacancy = v
  BY DEF RowSaving, Row, IsSound, Kind, Status, Application
<1>2. ASSUME NEW old \in Row
      PROVE  /\ RowSavedAgain(old) \in Row
             /\ RowSavedAgain(old).skill = old.skill /\ RowSavedAgain(old).vacancy = old.vacancy
             /\ RowSavedAgain(old).kind = old.kind /\ RowSavedAgain(old).status = old.status
             /\ IsSound(old) => IsSound(RowSavedAgain(old))
  <2> PICK application \in Application :
             application = IF old.application = Unset THEN "saved" ELSE old.application
    BY DEF Row, Application
  <2>1. RowSavedAgain(old) = [old EXCEPT !.application = application]
    BY DEF RowSavedAgain
  <2>2. /\ RowSavedAgain(old) \in Row
        /\ RowSavedAgain(old).skill = old.skill /\ RowSavedAgain(old).vacancy = old.vacancy
        /\ RowSavedAgain(old).kind = old.kind /\ RowSavedAgain(old).status = old.status
        /\ RowSavedAgain(old).completed = old.completed
    BY <2>1 DEF Row
  <2> QED BY <2>2 DEF IsSound
<1> QED BY <1>1, <1>2

\* So a handler that puts one row has made its transaction as it has to be.
LEMMA OnePut ==
    ASSUME CareerTypeOK, NEW op \in {"typed", "derived"}, NEW a \in Action, NEW row \in Row,
           NEW new \in UserRows, new.actions = [user.actions EXCEPT ![a] = row],
           a \in Rows(user) =>
              /\ row.skill = user.actions[a].skill /\ row.vacancy = user.actions[a].vacancy
              /\ IsSound(user.actions[a]) => IsSound(row)
              /\ op = "derived" => /\ row.kind = user.actions[a].kind
                                   /\ row.status \in Open => user.actions[a].status \in Open,
           a \notin Rows(user) =>
              /\ IsSound(row)
              /\ op = "derived" => /\ row.skill = NoSkill
                                   /\ \A b \in Rows(user) : ~IsSaved(user, row.vacancy, b)
    PROVE  IsWellMade(op, new, {a} \ Rows(user))
<1> DEFINE t == AsLoaded(op, new)
<1>1. t \in PlanTransaction /\ t.op = op /\ t.seen = user /\ t.new = new
  BY LoadedType
<1>2. user \in UserRows
  BY DEF CareerTypeOK
<1>3. RowsAsMade(t) /\ Added(t) = {a} \ Rows(user)
  <2> HIDE DEF t
  <2> QED BY <1>1, <1>2, OneRowMade
<1> QED BY <1>1, <1>3 DEF IsWellMade, Added

LEMMA ActionAddedMade ==
    ASSUME CareerTypeOK, NEW draft \in Draft, NEW a \in Fresh(user)
    PROVE  IsWellMade("typed", ActionAdded(a, draft), {a})
<1>1. user \in UserRows /\ a \in Action /\ a \notin Rows(user)
  BY DEF CareerTypeOK, Fresh
<1> PICK row \in Row : row = RowOf(draft) /\ IsSound(row)
  BY RowOfDraft
<1>2. ActionAdded(a, draft) = RowPut(a, row)
  BY DEF ActionAdded
<1>3. /\ ActionAdded(a, draft) \in UserRows
      /\ ActionAdded(a, draft).actions = [user.actions EXCEPT ![a] = row]
  BY <1>1, <1>2, PutRow
<1> QED BY <1>1, <1>3, OnePut DEF IsWellMade

LEMMA ActionPatchedMade ==
    ASSUME CareerTypeOK, NEW edit \in Edit, NEW a \in Rows(user)
    PROVE  IsWellMade("typed", ActionPatched(a, edit), {})
<1>1. user \in UserRows /\ a \in Action /\ user.actions[a] \in Row
  BY RowTypes DEF CareerTypeOK
<1> PICK row \in Row : row = RowPatched(user.actions[a], edit)
  BY <1>1, PatchedRow
<1>2. ActionPatched(a, edit) = RowPut(a, row)
  BY DEF ActionPatched
<1>3. /\ ActionPatched(a, edit) \in UserRows
      /\ ActionPatched(a, edit).actions = [user.actions EXCEPT ![a] = row]
  BY <1>1, <1>2, PutRow
<1>4. /\ row.skill = user.actions[a].skill /\ row.vacancy = user.actions[a].vacancy
      /\ IsSound(user.actions[a]) => IsSound(row)
  BY <1>1, PatchedRow
<1> QED BY <1>1, <1>3, <1>4, OnePut DEF IsWellMade

LEMMA OutcomeMade ==
    ASSUME CareerTypeOK, NEW outcome \in Outcome, NEW a \in Rows(user)
    PROVE  IsWellMade("derived", OutcomeRecorded(a, outcome), {})
<1>1. /\ user \in UserRows /\ a \in Action /\ user.actions[a] \in Row
  BY RowTypes DEF CareerTypeOK, UserRows
<1> PICK row \in Row : row = RowAfter(user.actions[a], outcome)
  BY <1>1, OutcomeRow
<1>2. OutcomeRecorded(a, outcome) = RowRecorded(a, row)
  BY DEF OutcomeRecorded
<1>3. /\ OutcomeRecorded(a, outcome) \in UserRows
      /\ OutcomeRecorded(a, outcome).actions = [user.actions EXCEPT ![a] = row]
  BY <1>1, <1>2, PutRow
<1>4. /\ row.skill = user.actions[a].skill /\ row.vacancy = user.actions[a].vacancy
      /\ row.kind = user.actions[a].kind
      /\ row.status \in Open => user.actions[a].status \in Open
      /\ IsSound(user.actions[a]) => IsSound(row)
  BY <1>1, OutcomeRow
<1> QED BY <1>1, <1>3, <1>4, OnePut DEF IsWellMade

\* There is a first of several actions.
LEMMA FirstIsOne ==
    ASSUME NEW ids \in SUBSET Nat, ids # {}
    PROVE  First(ids) \in ids
<1> DEFINE less == OpToRel(<, Nat)
<1>1. IsWellFoundedOn(less, Nat)
  BY NatLessThanWellFounded
<1>2. \A m, k \in Nat : <<k, m>> \in less <=> k < m
  BY DEF OpToRel
<1> HIDE DEF less
<1>3. PICK m \in ids : \A k \in ids : ~(<<k, m>> \in less)
  BY <1>1, WFMin
<1>4. \A k \in ids : m <= k
  <2> SUFFICES ASSUME NEW k \in ids PROVE m <= k
    OBVIOUS
  <2>1. k \in Nat /\ m \in Nat /\ ~(<<k, m>> \in less)
    BY <1>3
  <2>2. ~(k < m)
    BY <1>2, <2>1
  <2> QED BY <2>1, <2>2
<1> QED BY <1>4 DEF First

LEMMA VacancySavedAgainMade ==
    ASSUME CareerTypeOK, NEW v \in Vacancy, SavedAs(v) # {}
    PROVE  IsWellMade("derived", VacancySaved(v, First(SavedAs(v))), {})
<1> PICK a \in Rows(user) : a = First(SavedAs(v))
  <2>1. SavedAs(v) \in SUBSET Nat
    BY CareerAssumption DEF SavedAs, Rows
  <2>2. First(SavedAs(v)) \in SavedAs(v)
    BY <2>1, FirstIsOne
  <2> QED BY <2>2 DEF SavedAs
<1>1. user \in UserRows /\ a \in Action /\ user.actions[a] \in Row
  BY RowTypes DEF CareerTypeOK
<1> PICK row \in Row : row = RowSavedAgain(user.actions[a])
  BY <1>1, SavingRows
<1>2. VacancySaved(v, a) = RowPut(a, row)
  BY DEF VacancySaved
<1>3. /\ VacancySaved(v, a) \in UserRows
      /\ VacancySaved(v, a).actions = [user.actions EXCEPT ![a] = row]
  BY <1>1, <1>2, PutRow
<1>4. /\ row.skill = user.actions[a].skill /\ row.vacancy = user.actions[a].vacancy
      /\ row.kind = user.actions[a].kind /\ row.status = user.actions[a].status
      /\ IsSound(user.actions[a]) => IsSound(row)
  BY <1>1, SavingRows
<1> QED BY <1>1, <1>3, <1>4, OnePut DEF IsWellMade

LEMMA VacancySavedMade ==
    ASSUME CareerTypeOK, NEW v \in Vacancy, SavedAs(v) = {}, NEW a \in Fresh(user)
    PROVE  IsWellMade("derived", VacancySaved(v, a), {a})
<1>1. /\ user \in UserRows /\ a \in Action /\ a \notin Rows(user)
  BY DEF CareerTypeOK, UserRows, Fresh
<1> PICK row \in Row : row = RowSaving(v)
  BY SavingRows
<1>2. VacancySaved(v, a) = RowRecorded(a, row)
  BY DEF VacancySaved
<1>3. /\ VacancySaved(v, a) \in UserRows
      /\ VacancySaved(v, a).actions = [user.actions EXCEPT ![a] = row]
  BY <1>1, <1>2, PutRow
<1>4. \A b \in Rows(user) : ~IsSaved(user, v, b)
  BY DEF SavedAs, IsSaved
<1> QED BY <1>1, <1>3, <1>4, SavingRows, OnePut DEF IsWellMade

LEMMA GeneratedMade ==
    ASSUME CareerTypeOK, NEW recommended \in SUBSET Skill, NEW replace \in BOOLEAN,
           NEW place \in Places(recommended), NEW fresh,
           \A k \in Lacking(user.actions, recommended) : place[k] \in fresh
    PROVE  IsWellMade("derived", Generated(recommended, replace, place), fresh)
<1> DEFINE kept == [a \in Action |-> IF replace /\ Replaceable(user.actions[a]) THEN NoAction
                                     ELSE user.actions[a]]
           lacking == Lacking(user.actions, recommended)
           rows == [a \in Action |-> IF \E k \in lacking : place[k] = a
                                     THEN Suggestion(CHOOSE k \in lacking : place[k] = a)
                                     ELSE kept[a]]
           events == {a \in user.events : kept[a] # NoAction}
           new == Generated(recommended, replace, place)
<1>1. new = [user EXCEPT !.actions = rows, !.events = events]
  BY DEF Generated
<1>2. /\ user \in UserRows
      /\ lacking \subseteq Skill
      /\ \A k \in lacking : /\ place[k] \in Action /\ user.actions[place[k]] = NoAction
                            /\ \A j \in lacking : place[j] = place[k] => j = k
      /\ \A k \in lacking, a \in Rows(user) : ~IsLearned(user, k, a)
  BY DEF CareerTypeOK, Places, Lacking, Rows, IsLearned
<1>3. \A a \in Action : kept[a] \in {NoAction, user.actions[a]}
  OBVIOUS
<1>4. ASSUME NEW a \in Action
      PROVE  \/ \E k \in lacking : place[k] = a /\ rows[a] = Suggestion(k)
             \/ (~ \E k \in lacking : place[k] = a) /\ rows[a] \in {NoAction, user.actions[a]}
  <2> HIDE DEF kept, lacking
  <2>1. CASE \E k \in lacking : place[k] = a
    BY <2>1
  <2>2. CASE ~ \E k \in lacking : place[k] = a
    BY <1>3, <2>2
  <2> QED BY <2>1, <2>2
<1>5. ASSUME NEW k \in lacking
      PROVE  /\ Suggestion(k) \in Row /\ IsSound(Suggestion(k)) /\ Suggestion(k) # NoAction
             /\ Suggestion(k).skill = k /\ Suggestion(k).vacancy = NoVacancy
  <2>1. k \in Skill
    BY <1>2
  <2> HIDE DEF lacking
  <2>2. /\ Suggestion(k) \in Row /\ Suggestion(k).completed = FALSE
        /\ Suggestion(k).skill = k /\ Suggestion(k).vacancy = NoVacancy
    BY <2>1 DEF Suggestion, Row, Kind, Status
  <2> QED BY <2>2, RowIsNoGap DEF IsSound
<1>6. events \in SUBSET Action
  BY <1>2 DEF UserRows
<1>7. rows = [a \in Action |-> rows[a]]
  OBVIOUS
<1> HIDE DEF kept, lacking, rows, events
<1>8. rows \in [Action -> Row \cup {NoAction}]
  BY <1>2, <1>4, <1>5, <1>7 DEF UserRows
<1>9. new \in UserRows /\ new.actions = rows
  BY <1>1, <1>2, <1>6, <1>8 DEF UserRows
<1> DEFINE t == AsLoaded("derived", new)
<1>10. t \in PlanTransaction /\ t.op = "derived" /\ t.seen = user /\ t.new = new
  BY <1>9, LoadedType
<1> HIDE DEF new, t
<1>11. ASSUME NEW a \in Rows(user) \cap Rows(new) PROVE rows[a] = user.actions[a]
  BY <1>2, <1>4, <1>9, <1>11 DEF Rows
<1>12. ASSUME NEW a \in Rows(new) \ Rows(user)
       PROVE  \E k \in lacking : place[k] = a /\ rows[a] = Suggestion(k)
  BY <1>2, <1>4, <1>9, <1>12 DEF Rows
<1>13. Written(t) = {} /\ Added(t) = Rows(new) \ Rows(user)
  BY <1>9, <1>10, <1>11 DEF Written, Added
<1>14. \A a \in Added(t) : /\ IsSound(t.new.actions[a])
                           /\ t.new.actions[a].vacancy = NoVacancy
                           /\ \E k \in lacking : place[k] = a /\ t.new.actions[a].skill = k
  BY <1>5, <1>9, <1>10, <1>12, <1>13
<1>15. RowsAsMade(t)
  <2>1. \A a \in Rows(t.seen) \cap Rows(t.new) :
           /\ t.new.actions[a].skill = t.seen.actions[a].skill
           /\ t.new.actions[a].vacancy = t.seen.actions[a].vacancy
           /\ IsSound(t.seen.actions[a]) => IsSound(t.new.actions[a])
           /\ t.new.actions[a].kind = t.seen.actions[a].kind
           /\ t.new.actions[a].status \in Open => t.seen.actions[a].status \in Open
    BY <1>9, <1>10, <1>11
  <2>2. \A v \in Vacancy, a \in Added(t) : t.new.actions[a].vacancy # v
    BY <1>14, CareerAssumption
  <2>3. \A k \in Skill, a \in Added(t) : t.new.actions[a].skill = k =>
           /\ \A b \in Rows(t.seen) : ~IsLearned(t.seen, k, b)
           /\ \A b \in Added(t) : t.new.actions[b].skill = k => a = b
    BY <1>2, <1>10, <1>14
  <2> QED BY <1>13, <1>14, <2>1, <2>2, <2>3 DEF RowsAsMade
<1> QED BY <1>9, <1>12, <1>15 DEF IsWellMade, t, new, lacking

-----------------------------------------------------------------------------

LEMMA LoadKeepsPlan ==
    ASSUME PlanInv, NEW s \in Session, NEW op \in {"typed", "derived"}, NEW new,
           IsWellMade(op, new, FreshHere), LoadPlan(s, op, new)
    PROVE  PlanInv'
<1> PICK t \in PlanTransaction : t = AsLoaded(op, new) /\ t.seen = user /\ t.new = new
  BY LoadedType DEF PlanInv, CareerTxTypeOK, IsWellMade
<1>1. /\ planTx[s] = NoTx /\ planTx' = [planTx EXCEPT ![s] = t]
      /\ UNCHANGED <<careerVars, planRaced>> /\ user' = user
  BY DEF LoadPlan, AsLoaded, careerVars
<1>2. planTx'[s] = t /\ \A r \in Session : r # s => planTx'[r] = planTx[r]
  BY <1>1 DEF PlanInv, CareerTxTypeOK
<1>3. CareerTxTypeOK'
  BY <1>1 DEF PlanInv, CareerTxTypeOK, CareerTypeOK, careerVars
<1>4. Added(t) \subseteq FreshHere /\ RowsAsMade(t)
  BY DEF IsWellMade, Added
<1>5. /\ Added(t) \cap Rows(user) = {}
      /\ \A r \in Session : planTx[r] # NoTx =>
            Added(t) \cap Rows(planTx[r].seen) = {} /\ Added(t) \cap Rows(planTx[r].new) = {}
  BY <1>4 DEF FreshHere, Fresh
<1>6. RowsAsMade(t) /\ SeenWasSound(t) /\ SeenIsSame(t) /\ RowsAreOwn(t)
  BY <1>4, <1>5 DEF PlanInv, PlanIsSoundUnlessRaced, OpenIsNotCompletedUnlessRaced,
     SkillOnceUnlessRaced, SeenWasSound, SeenIsSame, RowsAreOwn, IsSound, IsLearned
<1>7. ASSUME NEW r \in Session, planTx[r] # NoTx
      PROVE  RowsAreApart(t, planTx[r]) /\ RowsAreApart(planTx[r], t)
  <2>1. Added(planTx[r]) \cap Rows(user) = {}
    BY <1>7 DEF PlanInv, RowsAreOwn
  <2>2. Added(t) \cap Added(planTx[r]) = {}
    BY <1>5, <1>7 DEF Added
  <2>3. Rows(t.new) \subseteq Rows(user) \cup Added(t)
    BY DEF Added
  <2> QED BY <1>5, <1>7, <2>1, <2>2, <2>3 DEF RowsAreApart
<1>8. ASSUME NEW r \in Session, planTx'[r] # NoTx
      PROVE  /\ RowsAsMade(planTx[r])' /\ SeenWasSound(planTx[r])' /\ SeenIsSame(planTx[r])'
             /\ RowsAreOwn(planTx[r])'
  <2>1. CASE r = s
    BY <1>1, <1>2, <1>6, <2>1 DEF SeenWasSound, SeenIsSame, RowsAreOwn
  <2>2. CASE r # s
    <3>1. planTx'[r] = planTx[r] /\ planTx[r] # NoTx
      BY <1>2, <1>8, <2>2
    <3>2. /\ RowsAsMade(planTx[r]) /\ SeenWasSound(planTx[r]) /\ SeenIsSame(planTx[r])
          /\ RowsAreOwn(planTx[r])
      BY <3>1 DEF PlanInv
    <3> QED BY <1>1, <3>1, <3>2 DEF SeenWasSound, SeenIsSame, RowsAreOwn
  <2> QED BY <2>1, <2>2
<1>9. ASSUME NEW r \in Session, NEW q \in Session, planTx'[r] # NoTx, planTx'[q] # NoTx, r # q
      PROVE  RowsAreApart(planTx'[r], planTx'[q])
  BY <1>2, <1>7, <1>9 DEF PlanInv
<1>10. PlanIsSoundUnlessRaced'
  BY <1>1 DEF PlanInv, PlanIsSoundUnlessRaced, OpenIsNotCompletedUnlessRaced,
     SavedOnceUnlessRaced, SkillOnceUnlessRaced
<1> QED BY <1>3, <1>8, <1>9, <1>10 DEF PlanInv

LEMMA BeginPlanKeeps ==
    ASSUME PlanInv, NEW s \in Session, BeginPlan(s) PROVE PlanInv'
<1>1. CareerTypeOK /\ FreshHere \subseteq Fresh(user)
  BY DEF PlanInv, CareerTxTypeOK, FreshHere
<1>2. ASSUME NEW op \in {"typed", "derived"}, NEW new, NEW fresh \in SUBSET FreshHere,
             IsWellMade(op, new, fresh), LoadPlan(s, op, new)
      PROVE  PlanInv'
  <2>1. IsWellMade(op, new, FreshHere)
    BY <1>2 DEF IsWellMade
  <2> QED BY <1>2, <2>1, LoadKeepsPlan
<1>3. CASE LoadPlan(s, "derived", PlanDeleted)
  BY <1>1, <1>2, <1>3, DeletedMade
<1>4. ASSUME NEW draft \in Draft, NEW a \in FreshHere, LoadPlan(s, "typed", ActionAdded(a, draft))
      PROVE  PlanInv'
  <2>1. {a} \in SUBSET FreshHere /\ a \in Fresh(user)
    BY <1>1
  <2>2. IsWellMade("typed", ActionAdded(a, draft), {a})
    BY <1>1, <2>1, ActionAddedMade
  <2> QED BY <1>2, <1>4, <2>1, <2>2
<1>5. ASSUME NEW a \in Rows(user), NEW edit \in Edit, LoadPlan(s, "typed", ActionPatched(a, edit))
      PROVE  PlanInv'
  BY <1>1, <1>2, <1>5, ActionPatchedMade
<1>6. ASSUME NEW recommended \in SUBSET Skill, NEW replace \in BOOLEAN,
             NEW place \in Places(recommended),
             \A k \in Lacking(user.actions, recommended) : place[k] \in FreshHere,
             LoadPlan(s, "derived", Generated(recommended, replace, place))
      PROVE  PlanInv'
  BY <1>1, <1>2, <1>6, GeneratedMade
<1>7. ASSUME NEW v \in Vacancy, SavedAs(v) # {},
             LoadPlan(s, "derived", VacancySaved(v, First(SavedAs(v))))
      PROVE  PlanInv'
  BY <1>1, <1>2, <1>7, VacancySavedAgainMade
<1>8. ASSUME NEW v \in Vacancy, SavedAs(v) = {}, NEW a \in FreshHere,
             LoadPlan(s, "derived", VacancySaved(v, a))
      PROVE  PlanInv'
  <2>1. {a} \in SUBSET FreshHere /\ a \in Fresh(user)
    BY <1>1
  <2>2. IsWellMade("derived", VacancySaved(v, a), {a})
    BY <1>1, <1>8, <2>1, VacancySavedMade
  <2> QED BY <1>2, <1>8, <2>1, <2>2
<1>9. ASSUME NEW a \in Rows(user), NEW outcome \in Outcome,
             LoadPlan(s, "derived", OutcomeRecorded(a, outcome))
      PROVE  PlanInv'
  BY <1>1, <1>2, <1>9, OutcomeMade
<1> QED BY <1>3, <1>4, <1>5, <1>6, <1>7, <1>8, <1>9 DEF BeginPlan

-----------------------------------------------------------------------------

\* What a COMMIT leaves of each row: a new row as it was made; of a row it writes the
\* columns it keeps; and of the others nothing, or what they were.
LEMMA MergedPlan ==
    ASSUME CareerTxTypeOK, NEW t \in PlanTransaction, RowsAsMade(t), SeenIsSame(t),
           RowsAreOwn(t), PlanStands(t), NEW m, m = PlanMerged(t)
    PROVE  /\ m \in UserRows
           /\ \A a \in Added(t) : m.actions[a] = t.new.actions[a]
           /\ \A a \in Written(t) :
                 /\ a \in Rows(user)
                 /\ m.actions[a].skill = user.actions[a].skill
                 /\ m.actions[a].vacancy = user.actions[a].vacancy
                 /\ t.new.actions[a].skill = user.actions[a].skill
                 /\ t.new.actions[a].vacancy = user.actions[a].vacancy
                 /\ t.op = "derived" =>
                       /\ m.actions[a].kind = user.actions[a].kind
                       /\ m.actions[a].status \in Open =>
                             user.actions[a].status \in Open \/ t.seen.actions[a].status \in Open
                 /\ ~Unseen(t, a) => m.actions[a] = t.new.actions[a]
           /\ \A a \in Action \ Touched(t) : m.actions[a] \in {NoAction, user.actions[a]}
<1> DEFINE gone == t.seen.plan /\ ~t.new.plan /\ ~t.orphan
           rows == [a \in Action |->
                      IF a \in Deleted(t) THEN NoAction
                      ELSE IF a \in Added(t) THEN t.new.actions[a]
                      ELSE IF a \in Written(t) THEN ColumnsOf(t, a)
                      ELSE IF ~t.new.plan /\ t.seen.plan /\ ~t.orphan THEN NoAction
                      ELSE user.actions[a]]
           plan == IF gone THEN FALSE ELSE user.plan
           events == {a \in user.events \cup (t.new.events \ t.seen.events) :
                        a \notin Deleted(t) /\ (t.seen.plan => t.new.plan \/ t.orphan)}
           profile == WrittenOver(user.profile, t.seen.profile, t.new.profile)
<1>1. user \in UserRows /\ t.seen \in UserRows /\ t.new \in UserRows
  BY DEF CareerTxTypeOK, CareerTypeOK, PlanTransaction
<1>2. m = [profile |-> profile, plan |-> plan, actions |-> rows, events |-> events]
  BY DEF PlanMerged
<1>3. /\ Added(t) \cap Deleted(t) = {} /\ Added(t) \cap Written(t) = {}
      /\ Written(t) \cap Deleted(t) = {} /\ Added(t) \subseteq Action /\ Written(t) \subseteq Action
  BY DEF Added, Deleted, Written, Rows
<1>4. \A a \in Added(t) : rows[a] = t.new.actions[a] /\ t.new.actions[a] \in Row
  BY <1>1, <1>3, RowTypes DEF Added
<1>5. \A a \in Written(t) : rows[a] = ColumnsOf(t, a)
  BY <1>3
<1>6. \A a \in Action \ Touched(t) : rows[a] \in {NoAction, user.actions[a]}
  BY DEF Touched
<1>7. plan \in BOOLEAN /\ events \in SUBSET Action /\ profile \in Profile
  BY <1>1 DEF UserRows, WrittenOver
<1>8. rows = [a \in Action |-> rows[a]]
  OBVIOUS
<1> HIDE DEF rows, plan, events, profile
<1>9. ASSUME NEW a \in Written(t)
      PROVE  /\ a \in Rows(user) /\ rows[a] \in Row
             /\ rows[a].skill = user.actions[a].skill
             /\ rows[a].vacancy = user.actions[a].vacancy
             /\ t.new.actions[a].skill = user.actions[a].skill
             /\ t.new.actions[a].vacancy = user.actions[a].vacancy
             /\ t.op = "derived" =>
                   /\ rows[a].kind = user.actions[a].kind
                   /\ rows[a].status \in Open =>
                         user.actions[a].status \in Open \/ t.seen.actions[a].status \in Open
             /\ ~Unseen(t, a) => rows[a] = t.new.actions[a]
  <2> DEFINE old == user.actions[a]
             seen == t.seen.actions[a]
             new == t.new.actions[a]
  <2>1. a \in Rows(user) /\ a \in Rows(t.seen) /\ a \in Rows(t.new)
    BY <1>3 DEF PlanStands, Written
  <2>2. old \in Row /\ seen \in Row /\ new \in Row
    BY <1>1, <2>1, RowTypes
  <2>3. /\ new.skill = seen.skill /\ new.vacancy = seen.vacancy
        /\ t.op = "derived" => /\ new.kind = seen.kind
                               /\ new.status \in Open => seen.status \in Open
        /\ old.skill = seen.skill /\ old.vacancy = seen.vacancy
    BY <2>1 DEF RowsAsMade, SeenIsSame
  <2>4. rows[a] = [c \in DOMAIN new |-> WrittenOver(old[c], seen[c], new[c])]
    BY <1>5 DEF ColumnsOf
  <2>5. Unseen(t, a) <=> old # seen
    BY DEF Unseen
  <2> HIDE DEF old, seen, new
  <2>6. DOMAIN new = {"kind", "status", "application", "skill", "vacancy", "source", "completed"}
    BY <2>2 DEF Row
  <2>7. rows[a] = [kind |-> WrittenOver(old.kind, seen.kind, new.kind),
                   status |-> WrittenOver(old.status, seen.status, new.status),
                   application |-> WrittenOver(old.application, seen.application, new.application),
                   skill |-> WrittenOver(old.skill, seen.skill, new.skill),
                   vacancy |-> WrittenOver(old.vacancy, seen.vacancy, new.vacancy),
                   source |-> WrittenOver(old.source, seen.source, new.source),
                   completed |-> WrittenOver(old.completed, seen.completed, new.completed)]
    BY <2>4, <2>6
  <2>8. rows[a] \in Row
    BY <2>2, <2>7 DEF Row, WrittenOver
  <2>9. old = seen => rows[a] = new
    <3>1. new = [kind |-> new.kind, status |-> new.status, application |-> new.application,
                 skill |-> new.skill, vacancy |-> new.vacancy, source |-> new.source,
                 completed |-> new.completed]
      BY <2>2 DEF Row
    <3>2. \A x, y : WrittenOver(x, x, y) = y
      BY DEF WrittenOver
    <3> QED BY <2>7, <3>1, <3>2
  <2>10. /\ rows[a].skill = old.skill /\ rows[a].vacancy = old.vacancy
         /\ t.op = "derived" =>
               /\ rows[a].kind = old.kind
               /\ rows[a].status \in Open => old.status \in Open \/ seen.status \in Open
    BY <2>3, <2>7 DEF WrittenOver
  <2> QED BY <2>1, <2>3, <2>5, <2>8, <2>9, <2>10 DEF old, seen, new
<1>10. rows \in [Action -> Row \cup {NoAction}]
  <2>1. ASSUME NEW a \in Action PROVE rows[a] \in Row \cup {NoAction}
    BY <1>1, <1>4, <1>6, <1>9 DEF Touched, UserRows
  <2> QED BY <1>8, <2>1
<1>11. m \in UserRows /\ m.actions = rows
  BY <1>2, <1>7, <1>10 DEF UserRows
<1> QED BY <1>4, <1>6, <1>9, <1>11

\* What a COMMIT adds to the history.
LEMMA RacesGrow ==
    ASSUME CareerTxTypeOK, NEW t \in PlanTransaction,
           planRaced' = [f \in DOMAIN planRaced |-> planRaced[f] \cup RacedBy(t)[f]]
    PROVE  /\ planRaced' \in [actions : SUBSET Action, vacancies : SUBSET Vacancy,
                              skills : SUBSET Skill]
           /\ planRaced.actions \subseteq planRaced'.actions
           /\ planRaced.skills \subseteq planRaced'.skills
           /\ planRaced.vacancies \subseteq planRaced'.vacancies
           /\ \A a \in Written(t) : Unseen(t, a) => a \in planRaced'.actions
           /\ \A a \in Touched(t) : /\ VacanciesOf(t, a) \subseteq planRaced'.vacancies
                                    /\ SkillsOf(t, a) \subseteq planRaced'.skills
<1> DEFINE touched == Added(t) \cup Written(t)
           actions == {a \in Written(t) : Unseen(t, a)}
           vacancies == UNION {VacanciesOf(t, a) : a \in touched}
           skills == UNION {SkillsOf(t, a) : a \in touched}
<1>1. RacedBy(t) = [actions |-> actions, vacancies |-> vacancies, skills |-> skills]
  BY DEF RacedBy
<1>2. planRaced \in [actions : SUBSET Action, vacancies : SUBSET Vacancy, skills : SUBSET Skill]
  BY DEF CareerTxTypeOK
<1>3. /\ actions \in SUBSET Action /\ vacancies \in SUBSET Vacancy /\ skills \in SUBSET Skill
      /\ \A a \in Touched(t) : VacanciesOf(t, a) \subseteq vacancies /\ SkillsOf(t, a) \subseteq skills
      /\ \A a \in Written(t) : Unseen(t, a) => a \in actions
  BY DEF Touched, VacanciesOf, SkillsOf, Written, Rows
<1> HIDE DEF actions, vacancies, skills
<1>4. planRaced' = [actions |-> planRaced.actions \cup actions,
                    vacancies |-> planRaced.vacancies \cup vacancies,
                    skills |-> planRaced.skills \cup skills]
  <2>1. DOMAIN planRaced = {"actions", "vacancies", "skills"}
    BY <1>2
  <2>2. planRaced' = [f \in {"actions", "vacancies", "skills"} |->
                        planRaced[f] \cup RacedBy(t)[f]]
    BY <2>1
  <2>3. /\ RacedBy(t)["actions"] = actions /\ RacedBy(t)["vacancies"] = vacancies
        /\ RacedBy(t)["skills"] = skills
    BY <1>1
  <2> QED BY <2>2, <2>3
<1> QED BY <1>2, <1>3, <1>4

\* A COMMIT does no harm to a sound plan but what its history says.
LEMMA CommitKeepsSound ==
    ASSUME CareerTxTypeOK, PlanIsSoundUnlessRaced, NEW t \in PlanTransaction, RowsAsMade(t),
           SeenWasSound(t), SeenIsSame(t), RowsAreOwn(t), PlanStands(t), user' = PlanMerged(t),
           planRaced' = [f \in DOMAIN planRaced |-> planRaced[f] \cup RacedBy(t)[f]]
    PROVE  PlanIsSoundUnlessRaced'
<1> DEFINE m == user'
<1>1. /\ \A a \in Added(t) : m.actions[a] = t.new.actions[a]
      /\ \A a \in Written(t) :
            /\ a \in Rows(user)
            /\ m.actions[a].skill = user.actions[a].skill
            /\ m.actions[a].vacancy = user.actions[a].vacancy
            /\ t.new.actions[a].skill = user.actions[a].skill
            /\ t.new.actions[a].vacancy = user.actions[a].vacancy
            /\ t.op = "derived" =>
                  /\ m.actions[a].kind = user.actions[a].kind
                  /\ m.actions[a].status \in Open =>
                        user.actions[a].status \in Open \/ t.seen.actions[a].status \in Open
            /\ ~Unseen(t, a) => m.actions[a] = t.new.actions[a]
      /\ \A a \in Action \ Touched(t) : m.actions[a] \in {NoAction, user.actions[a]}
  BY MergedPlan
<1>2. /\ planRaced.actions \subseteq planRaced'.actions
      /\ planRaced.skills \subseteq planRaced'.skills
      /\ planRaced.vacancies \subseteq planRaced'.vacancies
      /\ \A a \in Written(t) : Unseen(t, a) => a \in planRaced'.actions
      /\ \A a \in Touched(t) : /\ VacanciesOf(t, a) \subseteq planRaced'.vacancies
                               /\ SkillsOf(t, a) \subseteq planRaced'.skills
  BY RacesGrow
<1>3. Rows(m) \subseteq Action /\ \A a \in Rows(m) : m.actions[a] # NoAction
  BY DEF Rows
<1>4. \A a \in Rows(m) \ Touched(t) : a \in Rows(user) /\ m.actions[a] = user.actions[a]
  BY <1>1, <1>3 DEF Rows
<1>5. t.op \in {"typed", "derived"}
  BY DEF PlanTransaction
<1> HIDE DEF m
<1>6. ASSUME NEW a \in Rows(m) \ planRaced'.actions PROVE IsSound(m.actions[a])
  <2>1. CASE a \in Added(t)
    BY <1>1, <2>1 DEF RowsAsMade
  <2>2. CASE a \in Written(t)
    <3>1. m.actions[a] = t.new.actions[a] /\ a \in Rows(t.seen) \cap Rows(t.new)
      BY <1>1, <1>2, <1>6, <2>2 DEF Written
    <3>2. IsSound(t.seen.actions[a])
      BY <1>2, <1>6, <3>1 DEF SeenWasSound
    <3> QED BY <3>1, <3>2 DEF RowsAsMade
  <2>3. CASE a \notin Touched(t)
    BY <1>2, <1>4, <1>6, <2>3 DEF PlanIsSoundUnlessRaced, OpenIsNotCompletedUnlessRaced, IsSound
  <2> QED BY <2>1, <2>2, <2>3 DEF Touched
<1>7. ASSUME NEW v \in Vacancy \ planRaced'.vacancies, NEW a \in Touched(t), NEW b \in Rows(m),
             a \in Rows(m), IsSaved(m, v, a), IsSaved(m, v, b)
      PROVE  a = b
  <2> SUFFICES ASSUME a # b PROVE FALSE
    OBVIOUS
  <2>1. t.new.actions[a].vacancy = v
    BY <1>1, <1>7 DEF Touched, IsSaved
  <2>2. v \notin VacanciesOf(t, a)
    BY <1>2, <1>7
  <2>3. t.op = "derived"
    BY <1>5, <1>7, <2>1, <2>2 DEF VacanciesOf
  <2>4. b \notin Touched(t)
    <3>1. CASE b \in Touched(t)
      <4>1. t.new.actions[b].vacancy = v
        BY <1>1, <1>7, <3>1 DEF Touched, IsSaved
      <4> QED BY <1>7, <2>1, <2>3, <3>1, <4>1 DEF RowsAsMade, Touched
    <3> QED BY <3>1
  <2>5. b \in Rows(user) /\ IsSaved(user, v, b)
    BY <1>4, <1>7, <2>4 DEF IsSaved
  <2>6. CASE a \in Written(t)
    <3>1. a \in Rows(user) /\ IsSaved(user, v, a)
      BY <1>1, <1>7, <2>3, <2>6 DEF IsSaved
    <3> QED BY <1>2, <1>7, <2>5, <3>1 DEF PlanIsSoundUnlessRaced, SavedOnceUnlessRaced, IsSaved
  <2>7. CASE a \in Added(t)
    <3>1. b \in SavedAs(v) \ {a}
      BY <2>5 DEF SavedAs, IsSaved
    <3>2. user.actions[b] = t.seen.actions[b]
      BY <1>7, <2>1, <2>2, <3>1 DEF VacanciesOf, Unseen
    <3>3. b \in Rows(t.seen) /\ IsSaved(t.seen, v, b)
      BY <2>5, <3>2 DEF Rows, IsSaved
    <3> QED BY <1>7, <2>1, <2>3, <2>7, <3>3 DEF RowsAsMade
  <2> QED BY <1>7, <2>6, <2>7 DEF Touched
<1>8. ASSUME NEW k \in Skill \ planRaced'.skills, NEW a \in Touched(t), NEW b \in Rows(m),
             a \in Rows(m), IsLearned(m, k, a), IsLearned(m, k, b)
      PROVE  a = b
  <2> SUFFICES ASSUME a # b PROVE FALSE
    OBVIOUS
  <2>1. t.new.actions[a].skill = k
    BY <1>1, <1>8 DEF Touched, IsLearned
  <2>2. k \notin SkillsOf(t, a)
    BY <1>2, <1>8
  <2>3. t.op = "derived"
    BY <1>5, <1>8, <2>1, <2>2 DEF SkillsOf
  <2>4. b \notin Touched(t)
    <3>1. CASE b \in Touched(t)
      <4>1. t.new.actions[b].skill = k
        BY <1>1, <1>8, <3>1 DEF Touched, IsLearned
      <4> QED BY <1>8, <2>1, <2>3, <3>1, <4>1 DEF RowsAsMade, Touched
    <3> QED BY <3>1
  <2>5. b \in Rows(user) /\ IsLearned(user, k, b)
    BY <1>4, <1>8, <2>4 DEF IsLearned
  <2>6. user.actions[b] = t.seen.actions[b]
    BY <1>8, <2>1, <2>2, <2>5 DEF SkillsOf, Unseen, IsLearned
  <2>7. b \in Rows(t.seen) /\ IsLearned(t.seen, k, b)
    BY <2>5, <2>6 DEF Rows, IsLearned
  <2>8. CASE a \in Added(t)
    BY <1>8, <2>1, <2>3, <2>7, <2>8 DEF RowsAsMade
  <2>9. CASE a \in Written(t)
    <3>1. /\ a \in Rows(user) /\ user.actions[a].skill = k
          /\ user.actions[a].status \in Open \/ t.seen.actions[a].status \in Open
      BY <1>1, <1>8, <2>3, <2>9 DEF IsLearned
    <3>2. CASE user.actions[a].status \in Open
      BY <1>2, <1>8, <2>5, <3>1, <3>2
         DEF PlanIsSoundUnlessRaced, SkillOnceUnlessRaced, IsLearned
    <3>3. CASE t.seen.actions[a].status \in Open
      <4>1. a \in Rows(t.seen) \cap Rows(t.new) /\ IsLearned(t.seen, k, a)
        BY <2>1, <2>9, <3>3 DEF Written, RowsAsMade, IsLearned
      <4> QED BY <1>2, <1>8, <2>7, <4>1 DEF SeenWasSound
    <3> QED BY <3>1, <3>2, <3>3
  <2> QED BY <1>8, <2>8, <2>9 DEF Touched
<1>9. ASSUME NEW v \in Vacancy \ planRaced'.vacancies, NEW a \in Rows(m), NEW b \in Rows(m),
             IsSaved(m, v, a), IsSaved(m, v, b)
      PROVE  a = b
  <2>1. CASE a \in Touched(t)
    BY <1>7, <1>9, <2>1
  <2>2. CASE b \in Touched(t)
    BY <1>7, <1>9, <2>2
  <2>3. CASE a \notin Touched(t) /\ b \notin Touched(t)
    BY <1>2, <1>4, <1>9, <2>3 DEF PlanIsSoundUnlessRaced, SavedOnceUnlessRaced, IsSaved
  <2> QED BY <2>1, <2>2, <2>3
<1>10. ASSUME NEW k \in Skill \ planRaced'.skills, NEW a \in Rows(m), NEW b \in Rows(m),
              IsLearned(m, k, a), IsLearned(m, k, b)
       PROVE  a = b
  <2>1. CASE a \in Touched(t)
    BY <1>8, <1>10, <2>1
  <2>2. CASE b \in Touched(t)
    BY <1>8, <1>10, <2>2
  <2>3. CASE a \notin Touched(t) /\ b \notin Touched(t)
    BY <1>2, <1>4, <1>10, <2>3 DEF PlanIsSoundUnlessRaced, SkillOnceUnlessRaced, IsLearned
  <2> QED BY <2>1, <2>2, <2>3
<1> QED BY <1>6, <1>9, <1>10 DEF m, PlanIsSoundUnlessRaced, OpenIsNotCompletedUnlessRaced,
           SavedOnceUnlessRaced, SkillOnceUnlessRaced, IsSound, IsSaved, IsLearned

LEMMA CommitPlanKeeps ==
    ASSUME PlanInv, NEW s \in Session, CommitPlan(s) PROVE PlanInv'
<1> PICK t \in PlanTransaction : t = planTx[s] /\ t # NoTx
  BY DEF PlanInv, CareerTxTypeOK, CommitPlan
<1> DEFINE deletes == t.seen.plan /\ ~t.new.plan /\ ~t.orphan
<1>1. /\ CareerTxTypeOK /\ PlanIsSoundUnlessRaced /\ RowsAsMade(t) /\ SeenWasSound(t)
      /\ SeenIsSame(t) /\ RowsAreOwn(t)
  BY DEF PlanInv
<1>2. /\ PlanStands(t) /\ user' = PlanMerged(t)
      /\ planRaced' = [f \in DOMAIN planRaced |-> planRaced[f] \cup RacedBy(t)[f]]
      /\ UNCHANGED <<subscribed, entitled, marketReady>>
  BY DEF CommitPlan
<1>3. planTx' = [u \in Session |-> IF u = s THEN NoTx
                                   ELSE IF deletes THEN Orphaned(planTx[u]) ELSE planTx[u]]
  BY DEF CommitPlan
<1> HIDE DEF deletes
<1>4. PlanIsSoundUnlessRaced'
  BY <1>1, <1>2, CommitKeepsSound
<1>5. /\ user' \in UserRows
      /\ \A a \in Written(t) : /\ a \in Rows(user)
                               /\ user'.actions[a].skill = user.actions[a].skill
                               /\ user'.actions[a].vacancy = user.actions[a].vacancy
      /\ \A a \in Action \ Touched(t) : user'.actions[a] \in {NoAction, user.actions[a]}
  BY <1>1, <1>2, MergedPlan
<1>6. /\ planRaced' \in [actions : SUBSET Action, vacancies : SUBSET Vacancy,
                         skills : SUBSET Skill]
      /\ planRaced.actions \subseteq planRaced'.actions
      /\ planRaced.skills \subseteq planRaced'.skills
  BY <1>1, <1>2, RacesGrow
<1>7. ASSUME NEW r \in Session
      PROVE  /\ planTx'[r] \in PlanTransaction \cup {NoTx}
             /\ planTx'[r] # NoTx =>
                   /\ r # s /\ planTx[r] # NoTx
                   /\ planTx'[r].op = planTx[r].op /\ planTx'[r].seen = planTx[r].seen
                   /\ planTx'[r].new = planTx[r].new
  <2>1. planTx[r] \in PlanTransaction \cup {NoTx}
    BY <1>1 DEF CareerTxTypeOK
  <2>2. /\ Orphaned(planTx[r]) \in PlanTransaction \cup {NoTx}
        /\ Orphaned(planTx[r]) # NoTx =>
              /\ planTx[r] # NoTx
              /\ Orphaned(planTx[r]).op = planTx[r].op
              /\ Orphaned(planTx[r]).seen = planTx[r].seen
              /\ Orphaned(planTx[r]).new = planTx[r].new
    <3>1. CASE planTx[r] = NoTx
      BY <3>1 DEF Orphaned
    <3>2. CASE planTx[r] # NoTx
      BY <2>1, <3>2 DEF Orphaned, PlanTransaction
    <3> QED BY <3>1, <3>2
  <2> QED BY <1>3, <2>1, <2>2
<1>8. CareerTxTypeOK'
  <2>1. planTx' \in [Session -> PlanTransaction \cup {NoTx}]
    BY <1>3, <1>7
  <2> QED BY <1>1, <1>2, <1>5, <1>6, <2>1 DEF CareerTxTypeOK, CareerTypeOK
<1>9. ASSUME NEW r \in Session, planTx'[r] # NoTx
      PROVE  /\ RowsAsMade(planTx[r])' /\ SeenWasSound(planTx[r])' /\ SeenIsSame(planTx[r])'
             /\ RowsAreOwn(planTx[r])'
  <2>1. /\ planTx'[r].op = planTx[r].op /\ planTx'[r].seen = planTx[r].seen
        /\ planTx'[r].new = planTx[r].new /\ r # s /\ planTx[r] # NoTx
    BY <1>7, <1>9
  <2>2. /\ RowsAsMade(planTx[r]) /\ SeenWasSound(planTx[r]) /\ SeenIsSame(planTx[r])
        /\ RowsAreOwn(planTx[r]) /\ RowsAreApart(t, planTx[r]) /\ RowsAreApart(planTx[r], t)
    BY <2>1 DEF PlanInv
  <2>3. RowsAsMade(planTx[r])'
    BY <2>1, <2>2 DEF RowsAsMade, Added, Written, Touched
  <2>4. SeenWasSound(planTx[r])'
    BY <1>6, <2>1, <2>2 DEF SeenWasSound
  <2>5. ASSUME NEW a \in Rows(user'), a \notin Added(t)
        PROVE  /\ a \in Rows(user)
               /\ user'.actions[a].skill = user.actions[a].skill
               /\ user'.actions[a].vacancy = user.actions[a].vacancy
    BY <1>5, <2>5 DEF Rows, Touched
  <2>6. SeenIsSame(planTx[r])'
    BY <2>1, <2>2, <2>5 DEF SeenIsSame, RowsAreApart
  <2>7. RowsAreOwn(planTx[r])'
    <3>1. Added(planTx'[r]) = Added(planTx[r])
      BY <2>1 DEF Added
    <3>2. Added(t) \subseteq Rows(t.new)
      BY DEF Added
    <3> QED BY <2>2, <2>5, <3>1, <3>2 DEF RowsAreOwn, RowsAreApart
  <2> QED BY <2>3, <2>4, <2>6, <2>7
<1>10. ASSUME NEW r \in Session, NEW q \in Session, planTx'[r] # NoTx, planTx'[q] # NoTx, r # q
       PROVE  RowsAreApart(planTx'[r], planTx'[q])
  <2>1. RowsAreApart(planTx[r], planTx[q])
    BY <1>7, <1>10 DEF PlanInv
  <2> QED BY <1>7, <1>10, <2>1 DEF RowsAreApart, Added
<1> QED BY <1>4, <1>8, <1>9, <1>10 DEF PlanInv

LEMMA PlanStep == PlanInv /\ [CareerTxNext]_careerTxVars => PlanInv'
<1> SUFFICES ASSUME PlanInv, [CareerTxNext]_careerTxVars PROVE PlanInv'
  OBVIOUS
<1>1. ASSUME NEW s \in Session, BeginPlan(s) \/ CommitPlan(s) PROVE PlanInv'
  BY <1>1, BeginPlanKeeps, CommitPlanKeeps
<1>2. ASSUME user' \in UserRows, user'.actions = user.actions, planTx' = planTx,
             UNCHANGED <<subscribed, entitled, marketReady, planRaced>>
      PROVE  PlanInv'
  <2>1. Rows(user') = Rows(user)
    BY <1>2 DEF Rows
  <2>2. CareerTxTypeOK'
    BY <1>2 DEF PlanInv, CareerTxTypeOK, CareerTypeOK
  <2>3. ASSUME NEW s \in Session, planTx'[s] # NoTx
        PROVE  /\ RowsAsMade(planTx[s])' /\ SeenWasSound(planTx[s])' /\ SeenIsSame(planTx[s])'
               /\ RowsAreOwn(planTx[s])'
    <3>1. /\ RowsAsMade(planTx[s]) /\ SeenWasSound(planTx[s]) /\ SeenIsSame(planTx[s])
          /\ RowsAreOwn(planTx[s])
      BY <1>2, <2>3 DEF PlanInv
    <3> QED BY <1>2, <2>1, <3>1 DEF SeenWasSound, SeenIsSame, RowsAreOwn
  <2>4. PlanIsSoundUnlessRaced'
    BY <1>2, <2>1 DEF PlanInv, PlanIsSoundUnlessRaced, OpenIsNotCompletedUnlessRaced,
       SavedOnceUnlessRaced, SkillOnceUnlessRaced
  <2> QED BY <1>2, <2>2, <2>3, <2>4 DEF PlanInv
<1>3. user \in UserRows
  BY DEF PlanInv, CareerTxTypeOK, CareerTypeOK
<1>4. CASE SavePlan /\ UNCHANGED <<planTx, planRaced>>
  <2>1. user' \in UserRows /\ user'.actions = user.actions
    BY <1>3, <1>4 DEF SavePlan, Put, PlanSaved, UserRows
  <2> QED BY <1>2, <1>4, <2>1 DEF SavePlan, Put
<1>5. CASE UNCHANGED careerTxVars
  BY <1>2, <1>3, <1>5 DEF careerTxVars, careerVars
<1>6. ASSUME NEW s \in Session, RollbackPlan(s) PROVE PlanInv'
  <2>1. planTx' = [planTx EXCEPT ![s] = NoTx] /\ UNCHANGED <<careerVars, planRaced>>
    BY <1>6 DEF RollbackPlan
  <2>2. /\ planTx' \in [Session -> PlanTransaction \cup {NoTx}]
        /\ \A r \in Session : planTx'[r] # NoTx => planTx'[r] = planTx[r] /\ planTx[r] # NoTx
    BY <2>1 DEF PlanInv, CareerTxTypeOK
  <2>3. CareerTxTypeOK'
    BY <2>1, <2>2 DEF PlanInv, CareerTxTypeOK, CareerTypeOK, careerVars
  <2>4. ASSUME NEW r \in Session, planTx'[r] # NoTx
        PROVE  /\ RowsAsMade(planTx[r])' /\ SeenWasSound(planTx[r])' /\ SeenIsSame(planTx[r])'
               /\ RowsAreOwn(planTx[r])'
    <3>1. /\ RowsAsMade(planTx[r]) /\ SeenWasSound(planTx[r]) /\ SeenIsSame(planTx[r])
          /\ RowsAreOwn(planTx[r])
      BY <2>2, <2>4 DEF PlanInv
    <3> QED BY <2>1, <2>2, <2>4, <3>1 DEF careerVars, SeenWasSound, SeenIsSame, RowsAreOwn
  <2>5. \A r, q \in Session : planTx'[r] # NoTx /\ planTx'[q] # NoTx /\ r # q =>
           RowsAreApart(planTx'[r], planTx'[q])
    BY <2>2 DEF PlanInv
  <2>6. PlanIsSoundUnlessRaced'
    BY <2>1 DEF PlanInv, PlanIsSoundUnlessRaced, OpenIsNotCompletedUnlessRaced,
       SavedOnceUnlessRaced, SkillOnceUnlessRaced, careerVars
  <2> QED BY <2>3, <2>4, <2>5, <2>6 DEF PlanInv
<1> QED BY <1>1, <1>4, <1>5, <1>6 DEF CareerTxNext

LEMMA PlanStart == CareerTxInit => PlanInv
<1> SUFFICES ASSUME CareerTxInit PROVE PlanInv
  OBVIOUS
<1> DEFINE none == [a \in Action |-> NoAction]
<1>1. none \in [Action -> Row \cup {NoAction}] /\ \A a \in Action : none[a] = NoAction
  OBVIOUS
<1> HIDE DEF none
<1>2. user = [profile |-> "none", plan |-> FALSE, actions |-> none, events |-> {}]
  BY DEF CareerTxInit, CareerInit, none
<1>3. user \in UserRows /\ Rows(user) = {}
  BY <1>1, <1>2 DEF UserRows, Profile, Rows
<1>4. CareerTxTypeOK /\ \A s \in Session : planTx[s] = NoTx
  BY <1>3 DEF CareerTxTypeOK, CareerTypeOK, CareerTxInit, CareerInit
<1>5. PlanIsSoundUnlessRaced
  BY <1>3 DEF PlanIsSoundUnlessRaced, OpenIsNotCompletedUnlessRaced, SavedOnceUnlessRaced,
     SkillOnceUnlessRaced
<1> QED BY <1>4, <1>5 DEF PlanInv

\* For any number of requests about one plan that overlap, actions, skills and vacancies:
\* an open action is dated as completed, a vacancy is saved twice, or a skill has two open
\* actions, only where one request wrote over, or beside, what it had not seen of another,
\* or the user typed it in.
THEOREM PlanNeedsRace == CareerTxSpec => []PlanIsSoundUnlessRaced
<1>1. PlanInv => PlanIsSoundUnlessRaced
  BY DEF PlanInv
<1> QED BY <1>1, PlanStart, PlanStep, PTL DEF CareerTxSpec

-----------------------------------------------------------------------------
(* The next best action                                                    *)

LEMMA CareerStays == ASSUME CareerTypeOK, [CareerNext]_careerVars PROVE CareerTypeOK'
<1>1. user \in UserRows
  BY DEF CareerTypeOK
<1>2. ASSUME NEW new \in UserRows, Put(new) PROVE CareerTypeOK'
  BY <1>2 DEF Put, CareerTypeOK
<1>3. CASE \/ \E profile \in {"partial", "complete"} : SaveProfile(profile)
           \/ DeleteProfile \/ SavePlan
  <2>1. PlanSaved \in UserRows /\ \A profile \in Profile : ProfileSaved(profile) \in UserRows
    BY <1>1 DEF PlanSaved, ProfileSaved, UserRows
  <2> QED BY <1>2, <1>3, <2>1 DEF SaveProfile, DeleteProfile, SavePlan, Profile
<1>4. CASE DeletePlan
  BY <1>2, <1>4, DeletedMade DEF DeletePlan, IsWellMade
<1>5. ASSUME NEW draft \in Draft, CreateAction(draft) PROVE CareerTypeOK'
  BY <1>2, <1>5, ActionAddedMade DEF CreateAction, IsWellMade
<1>6. ASSUME NEW a \in Action, NEW edit \in Edit, PatchAction(a, edit) PROVE CareerTypeOK'
  BY <1>2, <1>6, ActionPatchedMade DEF PatchAction, IsWellMade
<1>7. ASSUME NEW recommended \in SUBSET Skill, NEW replace \in BOOLEAN,
             GenerateActions(recommended, replace)
      PROVE  CareerTypeOK'
  <2>1. PICK place \in Places(recommended) : Put(Generated(recommended, replace, place))
    BY <1>7 DEF GenerateActions
  <2>2. \A k \in Lacking(user.actions, recommended) : place[k] \in Action
    BY DEF Places, Lacking
  <2> QED BY <1>2, <2>1, <2>2, GeneratedMade DEF IsWellMade
<1>8. ASSUME NEW v \in Vacancy, SaveVacancy(v) PROVE CareerTypeOK'
  <2>1. CASE SavedAs(v) # {}
    BY <1>2, <1>8, <2>1, VacancySavedAgainMade DEF SaveVacancy, IsWellMade
  <2>2. CASE SavedAs(v) = {}
    BY <1>2, <1>8, <2>2, VacancySavedMade DEF SaveVacancy, IsWellMade
  <2> QED BY <2>1, <2>2
<1>9. ASSUME NEW a \in Action, NEW outcome \in Outcome, UpdateOutcome(a, outcome)
      PROVE  CareerTypeOK'
  BY <1>2, <1>9, OutcomeMade DEF UpdateOutcome, IsWellMade
<1>10. CASE (\E on \in BOOLEAN : SetDigest(on)) \/ Elsewhere \/ UNCHANGED careerVars
  BY <1>10 DEF SetDigest, Elsewhere, careerVars, CareerTypeOK
<1> QED BY <1>3, <1>4, <1>5, <1>6, <1>7, <1>8, <1>9, <1>10 DEF CareerNext

\* What the stage says of the user's rows, and what rows a stage needs.
LEMMA StageIs ==
    ASSUME NEW u, NEW ready \in BOOLEAN, NEW digest \in BOOLEAN
    PROVE  /\ Advice(u, ready, digest) \in 1..9
           /\ Advice(u, ready, digest) > 1 <=> u.profile # "none"
           /\ Advice(u, ready, digest) > 2 <=> u.profile \notin {"none", "partial"}
           /\ Advice(u, ready, digest) > 3 <=> Advice(u, ready, digest) > 2 /\ ready
           /\ Advice(u, ready, digest) > 4 <=> Advice(u, ready, digest) > 3 /\ u.plan
           /\ Advice(u, ready, digest) > 5 <=>
                 Advice(u, ready, digest) > 4 /\ OpenActions(u) # {}
           /\ Advice(u, ready, digest) > 6 <=> Advice(u, ready, digest) > 5 /\ Saved(u) # {}
           /\ Advice(u, ready, digest) > 7 <=>
                 /\ Advice(u, ready, digest) > 6
                 /\ u.actions[First(Saved(u))].application \notin {Unset, "saved"}
           /\ Advice(u, ready, digest) > 8 <=> Advice(u, ready, digest) > 7 /\ digest
  BY DEF Advice

\* What is left of the rows when a row is put.
LEMMA RowsAfterPut ==
    ASSUME user \in UserRows, NEW new, NEW a \in Action, NEW row \in Row,
           new.actions = [user.actions EXCEPT ![a] = row]
    PROVE  /\ Rows(new) = Rows(user) \cup {a} /\ new.actions[a] = row
           /\ \A b \in Rows(user) \ {a} : new.actions[b] = user.actions[b]
<1>1. new.actions[a] = row /\ \A b \in Action : b # a => new.actions[b] = user.actions[b]
  BY DEF UserRows
<1> QED BY <1>1, RowIsNoGap DEF Rows

LEMMA FollowLeadsOn ==
    ASSUME CareerTypeOK, Follow
    PROVE  \/ Advice(user, marketReady, subscribed)' > Advised
           \/ Advised = 5 /\ \E a \in Saved(user) : user.actions[a].skill # NoSkill
<1> DEFINE next == Advice(user', marketReady', subscribed')
<1>1. user \in UserRows /\ subscribed \in BOOLEAN /\ marketReady \in BOOLEAN
  BY DEF CareerTypeOK
<1>2. /\ Advised \in 1..9
      /\ Advised > 2 => user.profile \notin {"none", "partial"}
      /\ Advised > 3 => marketReady
      /\ Advised > 4 => user.plan
      /\ Advised > 5 => OpenActions(user) # {}
      /\ Advised = 5 => OpenActions(user) = {}
      /\ Advised > 6 => Saved(user) # {}
      /\ Advised = 6 => Saved(user) = {}
  BY DEF Advised, Advice
<1>3. ASSUME Advised = 1, NEW profile \in {"partial", "complete"}, SaveProfile(profile)
      PROVE  next > Advised
  <2>1. user'.profile = profile /\ UNCHANGED <<subscribed, marketReady>>
    BY <1>1, <1>3 DEF SaveProfile, Put, ProfileSaved, UserRows
  <2> QED BY <1>1, <1>3, <2>1, StageIs
<1>4. ASSUME Advised = 2, SaveProfile("complete") PROVE next > Advised
  <2>1. user'.profile = "complete" /\ UNCHANGED <<subscribed, marketReady>>
    BY <1>1, <1>4 DEF SaveProfile, Put, ProfileSaved, UserRows
  <2> QED BY <1>1, <1>4, <2>1, StageIs
<1>5. ASSUME Advised = 3, Elsewhere, marketReady' PROVE next > Advised
  <2>1. user' = user /\ subscribed' = subscribed /\ marketReady' \in BOOLEAN
    BY <1>5 DEF Elsewhere
  <2>2. user.profile \notin {"none", "partial"}
    BY <1>2, <1>5
  <2>3. next > 2
    BY <1>1, <2>1, <2>2, StageIs
  <2> QED BY <1>1, <1>5, <2>1, <2>3, StageIs
<1>6. ASSUME Advised = 4, SavePlan PROVE next > Advised
  <2>1. user'.profile = user.profile /\ user'.plan = TRUE /\ UNCHANGED <<subscribed, marketReady>>
    BY <1>1, <1>6 DEF SavePlan, Put, PlanSaved, UserRows
  <2>2. user.profile \notin {"none", "partial"} /\ marketReady
    BY <1>2, <1>6
  <2>3. next > 3
    BY <1>1, <2>1, <2>2, StageIs
  <2> QED BY <1>1, <1>6, <2>1, <2>3, StageIs
\* From here on the plan is there, and stays.
<1>7. ASSUME Advised > 4, UNCHANGED <<subscribed, marketReady>>,
             user'.profile = user.profile, user'.plan = user.plan
      PROVE  next > 4
  <2>1. user.profile \notin {"none", "partial"} /\ marketReady /\ user.plan
    BY <1>2, <1>7
  <2> QED BY <1>1, <1>7, <2>1, StageIs
<1>8. ASSUME Advised = 5, NEW recommended \in (SUBSET Skill) \ {{}},
             GenerateActions(recommended, FALSE)
      PROVE  next > Advised \/ \E a \in Saved(user) : user.actions[a].skill # NoSkill
  <2>1. PICK place \in Places(recommended) : Put(Generated(recommended, FALSE, place))
    BY <1>8 DEF GenerateActions
  <2> DEFINE kept == [a \in Action |-> IF FALSE /\ Replaceable(user.actions[a]) THEN NoAction
                                       ELSE user.actions[a]]
             lacking == Lacking(user.actions, recommended)
             rows == [a \in Action |-> IF \E k \in lacking : place[k] = a
                                       THEN Suggestion(CHOOSE k \in lacking : place[k] = a)
                                       ELSE kept[a]]
             events == {a \in user.events : kept[a] # NoAction}
  <2>2. user' = [user EXCEPT !.actions = rows, !.events = events]
        /\ UNCHANGED <<subscribed, marketReady>>
    BY <2>1 DEF Put, Generated
  <2> HIDE DEF kept, events
  <2>3. user'.profile = user.profile /\ user'.plan = user.plan /\ user'.actions = rows
    BY <1>1, <2>2 DEF UserRows
  <2>4. next > 4
    BY <1>7, <1>8, <2>2, <2>3
  <2>5. PICK k \in Skill : k \in recommended
    <3>1. recommended \in SUBSET Skill /\ recommended \notin {{}}
      OBVIOUS
    <3> QED BY <3>1
  <2>6. CASE k \in lacking
    <3>1. place[k] \in Action
      BY <2>6 DEF Places, Lacking
    <3>2. PICK j \in lacking : rows[place[k]] = Suggestion(j)
      BY <2>6, <3>1
    <3> HIDE DEF rows, lacking
    <3>3. Suggestion(j).kind = "learning" /\ Suggestion(j).status = "planned"
          /\ Suggestion(j) # NoAction
      BY DEF Suggestion, NoAction
    <3>4. place[k] \in OpenActions(user')
      BY <2>3, <3>1, <3>2, <3>3 DEF OpenActions, Rows, Open
    <3> QED BY <1>8, <2>2, <2>4, <3>4, StageIs, <1>1
  <2>7. CASE k \notin lacking
    <3>1. PICK a \in Action : /\ user.actions[a] # NoAction /\ user.actions[a].status \in Open
                              /\ user.actions[a].skill = k
      BY <2>5, <2>7 DEF Lacking
    <3>2. OpenActions(user) = {}
      BY <1>2, <1>8
    <3>3. a \in Saved(user)
      BY <3>1, <3>2 DEF OpenActions, Saved, Rows
    <3> QED BY <2>5, <3>1, <3>3, CareerAssumption
  <2> QED BY <2>6, <2>7
<1>9. ASSUME Advised = 6, NEW v \in Vacancy, SaveVacancy(v) PROVE next > Advised
  <2>1. Saved(user) = {} /\ OpenActions(user) # {}
    BY <1>2, <1>9
  <2>2. SavedAs(v) = {}
    BY <2>1 DEF SavedAs, Saved
  <2>3. PICK a \in Fresh(user) : Put(RowRecorded(a, RowSaving(v)))
    BY <1>9, <2>2 DEF SaveVacancy, VacancySaved
  <2>4. a \in Action /\ a \notin Rows(user) /\ RowSaving(v) \in Row
    BY SavingRows DEF Fresh
  <2>5. /\ user' = RowRecorded(a, RowSaving(v)) /\ UNCHANGED <<subscribed, marketReady>>
        /\ user'.actions = [user.actions EXCEPT ![a] = RowSaving(v)]
    BY <1>1, <2>3, <2>4, PutRow DEF Put
  <2>6. user'.profile = user.profile /\ user'.plan = user.plan
    BY <1>1, <2>5 DEF RowRecorded, UserRows
  <2>7. next > 4
    BY <1>7, <1>9, <2>5, <2>6
  <2>8. /\ Rows(user') = Rows(user) \cup {a} /\ user'.actions[a] = RowSaving(v)
        /\ \A b \in Rows(user) \ {a} : user'.actions[b] = user.actions[b]
    <3> DEFINE row == RowSaving(v)
    <3>1. user'.actions = [user.actions EXCEPT ![a] = row] /\ row \in Row
      BY <2>4, <2>5
    <3> HIDE DEF row
    <3>2. user'.actions[a] = row
      BY <1>1, <2>4, <3>1 DEF UserRows
    <3>3. \A b \in Action : b # a => user'.actions[b] = user.actions[b]
      BY <1>1, <2>4, <3>1 DEF UserRows
    <3>4. \A b \in Rows(user) \ {a} : user'.actions[b] = user.actions[b]
      BY <3>3 DEF Rows
    <3>5. row # NoAction
      BY <3>1, RowIsNoGap
    <3>6. \A b \in Action : b \in Rows(user') <=> b \in Rows(user) \cup {a}
      BY <2>4, <3>2, <3>3, <3>5 DEF Rows
    <3>7. Rows(user') = Rows(user) \cup {a}
      BY <2>4, <3>6 DEF Rows
    <3> QED BY <3>2, <3>4, <3>7 DEF row
  <2>9. OpenActions(user') # {}
    BY <2>1, <2>4, <2>8 DEF OpenActions
  <2>10. a \in Saved(user')
    BY <2>8 DEF Saved, RowSaving
  <2> QED BY <1>1, <1>9, <2>5, <2>7, <2>9, <2>10, StageIs
<1>10. ASSUME Advised = 7, NEW outcome \in Outcome \ {"saved"},
              UpdateOutcome(First(Saved(user)), outcome)
       PROVE  next > Advised
  <2> DEFINE a == First(Saved(user))
             row == RowAfter(user.actions[a], outcome)
  <2>1. Saved(user) # {} /\ OpenActions(user) # {}
    BY <1>2, <1>10
  <2>2. a \in Saved(user)
    BY <2>1, FirstIsOne, CareerAssumption DEF Saved, Rows
  <2>3. a \in Action /\ a \in Rows(user) /\ user.actions[a] \in Row
        /\ user.actions[a].kind = "saved_vacancy"
    BY <1>1, <2>2, RowTypes DEF Saved
  <2>4. row \in Row /\ row.kind = "saved_vacancy" /\ row.application = outcome
    BY <2>3, OutcomeRow DEF RowAfter, Row
  <2>5. /\ user' = RowRecorded(a, row) /\ UNCHANGED <<subscribed, marketReady>>
    BY <1>10 DEF UpdateOutcome, Put, OutcomeRecorded
  <2> HIDE DEF a, row
  <2>6. user'.actions = [user.actions EXCEPT ![a] = row]
    BY <1>1, <2>3, <2>4, <2>5, PutRow
  <2>7. user'.profile = user.profile /\ user'.plan = user.plan
    BY <1>1, <2>5 DEF RowRecorded, UserRows
  <2>8. next > 4
    BY <1>7, <1>10, <2>5, <2>7
  <2>9. /\ Rows(user') = Rows(user) /\ user'.actions[a] = row
        /\ \A b \in Rows(user) \ {a} : user'.actions[b] = user.actions[b]
    BY <1>1, <2>3, <2>4, <2>6, RowsAfterPut
  <2>10. OpenActions(user') = OpenActions(user) /\ Saved(user') = Saved(user)
    BY <2>3, <2>4, <2>9 DEF OpenActions, Saved
  <2>11. outcome \notin {Unset, "saved"}
    BY <1>10, CareerAssumption DEF Application, Unset
  <2>12. user'.actions[First(Saved(user'))].application \notin {Unset, "saved"}
    BY <2>4, <2>9, <2>10, <2>11 DEF a
  <2> QED BY <1>1, <1>10, <2>1, <2>5, <2>8, <2>10, <2>12, StageIs
<1>11. ASSUME Advised = 8, SetDigest(TRUE) PROVE next > Advised
  <2>1. subscribed' = TRUE /\ UNCHANGED <<user, marketReady>>
    BY <1>11 DEF SetDigest
  <2>2. next > 7
    BY <1>1, <1>11, <2>1, StageIs DEF Advised, Advice
  <2> QED BY <1>1, <1>11, <2>1, <2>2, StageIs
<1>12. Advice(user, marketReady, subscribed)' = next
  OBVIOUS
<1>13. next > Advised \/ (Advised = 5 /\ \E a \in Saved(user) : user.actions[a].skill # NoSkill)
  <2> HIDE DEF next
  <2> QED BY <1>3, <1>4, <1>5, <1>6, <1>8, <1>9, <1>10, <1>11 DEF Follow
<1> QED BY <1>12, <1>13

\* For any actions, skills and vacancies: whoever does what the next best action says is
\* advised something later, unless all the skills he has to learn are noted with saved
\* vacancies.
THEOREM AdviceLeadsOn == CareerSpec => AdviceAdvances
<1>1. CareerInit => CareerTypeOK
  <2> DEFINE none == [a \in Action |-> NoAction]
  <2>1. none \in [Action -> Row \cup {NoAction}]
    OBVIOUS
  <2> HIDE DEF none
  <2>2. [profile |-> "none", plan |-> FALSE, actions |-> none, events |-> {}] \in UserRows
    BY <2>1 DEF UserRows, Profile
  <2> QED BY <2>2 DEF CareerInit, CareerTypeOK, none
<1>2. CareerTypeOK /\ [CareerNext]_careerVars => CareerTypeOK'
  BY CareerStays
<1>3. CareerTypeOK =>
        [Follow => \/ Advice(user, marketReady, subscribed)' > Advised
                   \/ Advised = 5 /\ \E a \in Saved(user) : user.actions[a].skill # NoSkill]_careerVars
  BY FollowLeadsOn
<1> QED BY <1>1, <1>2, <1>3, PTL DEF CareerSpec, AdviceAdvances

=============================================================================
