------------------------ MODULE BridgeTransactionsProofs ------------------------
(***************************************************************************)
(* Proofs about BridgeTransactions: an identifier is forwarded at most     *)
(* once, claims exclude each other and what is recorded stays on disk, for *)
(* any number of calls, identifiers, crashes and any length of time.       *)
(*                                                                         *)
(* ForwardsOnce and ClaimsAreExclusive hold where no record is evicted     *)
(* (Roomy) and a record outlives an opening (Lasting); without the first   *)
(* of these they are false.  The other theorems assume neither.            *)
(***************************************************************************)
EXTENDS BridgeTransactions, FiniteSetTheorems, TLAPS

\* There is room for a record of every identifier.
Roomy == IsFiniteSet(Ids) /\ Cardinality(Ids) <= MaxCompleted

\* A record is retained for more than a tick.
Lasting == Retention > 1

USE StoreAssumption, BridgeAssumption

------------------------------------------------------------------------------
(* The store                                                               *)

LEMMA EntryCases ==
  ASSUME NEW x \in Entry
  PROVE  /\ x.status \in {"absent", "inflight", "complete"}
         /\ x.status = "absent" <=> x = Absent
         /\ x.status = "inflight" <=> x = InFlight
         /\ x.status = "complete" => x.expires \in Expiry
  BY DEF Entry, Absent, InFlight, Complete

LEMMA Pruning ==
  ASSUME StoreTypeOK
  PROVE  /\ Pruned \in [Ids -> Entry]
         /\ Expired \subseteq Ids
         /\ PruneFiles => file' \in [Ids -> Content]
<1>1. Expired \subseteq Ids
  BY DEF Expired, Completed
<1>2. Pruned \in [Ids -> Entry]
  BY DEF Pruned, StoreTypeOK, Entry
<1>3. PruneFiles => file' \in [Ids -> Content]
  BY DEF PruneFiles, StoreTypeOK, Content
<1>4. QED
  BY <1>1, <1>2, <1>3

LEMMA RecordStoreTypes ==
  ASSUME StoreTypeOK, NEW w \in Writers, NEW id \in Ids, NEW evicted \in SUBSET Ids,
         RecordInMemory(w, id, evicted)
  PROVE  StoreTypeOK'
<1> DEFINE e == now + Retention
<1> DEFINE m == [Pruned EXCEPT ![id] = Complete(e)]
<1>1. e \in Expiry
  BY DEF StoreTypeOK, Expiry
<1>2. /\ memory' = Without(m, evicted)
      /\ write' = [write EXCEPT ![w] = Writing("disk", id, e, evicted)]
      /\ PruneFiles /\ UNCHANGED <<temporary, now>>
  BY DEF RecordInMemory
<1>3. Complete(e) \in Entry /\ Absent \in Entry
  BY <1>1 DEF Entry
<1> HIDE DEF e
<1>4. Pruned \in [Ids -> Entry] /\ file' \in [Ids -> Content]
  BY <1>2, Pruning
<1>5. m \in [Ids -> Entry]
  BY <1>3, <1>4
<1>6. memory' \in [Ids -> Entry]
  BY <1>2, <1>3, <1>5 DEF Without
<1>7. /\ Writing("disk", id, e, evicted) \in Write
      /\ Writing("disk", id, e, evicted).step = "disk"
  BY <1>1 DEF Write, Writing, Persisting
<1>8. write' \in [Writers -> Write]
  BY <1>2, <1>7 DEF StoreTypeOK
<1>9. \A v \in Writers : write'[v].step = "cleanup" => write'[v].evicted # {}
  BY <1>2, <1>7 DEF StoreTypeOK
<1>10. QED
  BY <1>2, <1>4, <1>6, <1>8, <1>9 DEF StoreTypeOK

\* A step of a record call outside the lock keeps the types if what it writes has them.
LEMMA WriteTypes ==
  ASSUME StoreTypeOK, write' \in [Writers -> Write],
         \A v \in Writers : write'[v].step = "cleanup" => write'[v].evicted # {},
         file' \in [Ids -> Content], temporary' \in [Ids -> Content],
         UNCHANGED <<memory, now>>
  PROVE  StoreTypeOK'
  BY DEF StoreTypeOK

\* A call that goes on to one of the steps before its cleanup.
LEMMA WriteGotoTypes ==
  ASSUME StoreTypeOK, NEW w \in Writers, write[w].step \in Persisting,
         NEW step \in Persisting, WriteGoto(w, step)
  PROVE  /\ write' \in [Writers -> Write]
         /\ \A v \in Writers : write'[v].step = "cleanup" => write'[v].evicted # {}
         /\ write'[w] = [write[w] EXCEPT !.step = step]
         /\ \A v \in Writers : v # w => write'[v] = write[v]
<1> DEFINE next == [write[w] EXCEPT !.step = step]
<1>1. write[w] \in [step : Persisting \cup {"cleanup"}, id : Ids, expires : Expiry,
                    evicted : SUBSET Ids]
  BY DEF StoreTypeOK, Write, NoWrite, Persisting
<1>2. next \in Write /\ next.step \in Persisting
  BY <1>1 DEF Write
<1>3. write' = [write EXCEPT ![w] = next]
  BY DEF WriteGoto
<1> HIDE DEF next
<1>4. /\ write' \in [Writers -> Write]
      /\ write'[w] = next
      /\ \A v \in Writers : v # w => write'[v] = write[v]
  BY <1>2, <1>3 DEF StoreTypeOK
<1>5. \A v \in Writers : write'[v].step = "cleanup" => write'[v].evicted # {}
  BY <1>2, <1>4 DEF StoreTypeOK, Persisting
<1>6. QED
  BY <1>4, <1>5 DEF next

\* Whoever persists has an identifier and an expiry.
LEMMA WriterFields ==
  ASSUME StoreTypeOK, NEW w \in Writers, write[w].step \in Persisting \cup {"cleanup"}
  PROVE  /\ write[w] \in [step : Persisting \cup {"cleanup"}, id : Ids, expires : Expiry,
                          evicted : SUBSET Ids]
         /\ write[w].id \in Ids /\ write[w].expires \in Expiry
  BY DEF StoreTypeOK, Write, NoWrite, Persisting

LEMMA TemporaryTypes ==
  ASSUME StoreTypeOK, NEW w \in Writers,
         CreateTemporary(w) \/ FillTemporary(w) \/ Overwrite(w)
  PROVE  StoreTypeOK'
<1>1. write[w].step \in Persisting
  BY DEF CreateTemporary, FillTemporary, Overwrite, Persisting
<1>2. write[w].id \in Ids /\ write[w].expires \in Expiry
  BY <1>1, WriterFields
<1>3. \E step \in Persisting : WriteGoto(w, step)
  BY DEF CreateTemporary, FillTemporary, Overwrite, Persisting
<1>4. /\ file' \in [Ids -> Content] /\ temporary' \in [Ids -> Content]
      /\ UNCHANGED <<memory, now>>
  BY <1>2 DEF CreateTemporary, FillTemporary, Overwrite, Filled, Content, StoreTypeOK
<1>5. QED
  BY <1>1, <1>3, <1>4, WriteGotoTypes, WriteTypes

\* What a rename makes of each record call.
RenamedCall(w, v) ==
  IF v = w THEN AfterFile(write[w])
  ELSE IF write[v].step \notin {"filling", "overwriting"} THEN write[v]
  ELSE IF write[v].id # write[w].id THEN write[v]
  ELSE [write[v] EXCEPT !.step =
          IF write[v].step = "filling" THEN "overwriting" ELSE "rename"]

LEMMA RenameEffect ==
  ASSUME StoreTypeOK, NEW w \in Writers, Rename(w)
  PROVE  /\ write[w].step = "rename" /\ write[w].id \in Ids
         /\ temporary[write[w].id] # NoFile
         /\ file' = [file EXCEPT ![write[w].id] = temporary[write[w].id]]
         /\ temporary' = [temporary EXCEPT ![write[w].id] = NoFile]
         /\ write' = [v \in Writers |-> RenamedCall(w, v)]
         /\ UNCHANGED <<memory, now>>
<1>1. write[w].step = "rename"
  BY DEF Rename
<1>2. write[w].id \in Ids
  BY <1>1, WriterFields DEF Persisting
<1>3. QED
  BY <1>1, <1>2 DEF Rename, RenamedCall

LEMMA RenameTypes ==
  ASSUME StoreTypeOK, NEW w \in Writers, Rename(w)
  PROVE  StoreTypeOK'
<1>1. write[w].step = "rename" /\ write[w].id \in Ids
  BY RenameEffect
<1>2. /\ file' \in [Ids -> Content] /\ temporary' \in [Ids -> Content]
      /\ UNCHANGED <<memory, now>>
  BY <1>1, RenameEffect DEF StoreTypeOK, Content
<1>3. \A v \in Writers :
        /\ RenamedCall(w, v) \in Write
        /\ RenamedCall(w, v).step = "cleanup" => RenamedCall(w, v).evicted # {}
  <2> TAKE v \in Writers
  <2>1. CASE v = w
    <3>1. write[w] \in [step : Persisting \cup {"cleanup"}, id : Ids, expires : Expiry,
                        evicted : SUBSET Ids]
      BY <1>1, WriterFields DEF Persisting
    <3>2. AfterFile(write[w]) \in Write
             /\ (AfterFile(write[w]).step = "cleanup" => AfterFile(write[w]).evicted # {})
      BY <3>1 DEF AfterFile, Write, NoWrite
    <3>3. QED
      BY <2>1, <3>2 DEF RenamedCall
  <2>2. CASE v # w /\ write[v].step \in {"filling", "overwriting"} /\ write[v].id = write[w].id
    <3>1. write[v] \in [step : Persisting \cup {"cleanup"}, id : Ids, expires : Expiry,
                        evicted : SUBSET Ids]
      BY <2>2, WriterFields DEF Persisting
    <3>2. \E step \in {"overwriting", "rename"} :
            RenamedCall(w, v) = [write[v] EXCEPT !.step = step]
      BY <2>2 DEF RenamedCall
    <3>3. QED
      BY <3>1, <3>2 DEF Write, Persisting
  <2>3. CASE v # w /\ ~ (write[v].step \in {"filling", "overwriting"}
                           /\ write[v].id = write[w].id)
    BY <2>3 DEF RenamedCall, StoreTypeOK
  <2>4. QED
    BY <2>1, <2>2, <2>3
<1>4. write' = [v \in Writers |-> RenamedCall(w, v)]
  BY RenameEffect
<1>5. /\ write' \in [Writers -> Write]
      /\ \A v \in Writers : write'[v].step = "cleanup" => write'[v].evicted # {}
  BY <1>3, <1>4, Zenon
<1>6. QED
  BY <1>2, <1>5, WriteTypes

LEMMA PersistFailsTypes ==
  ASSUME StoreTypeOK, NEW w \in Writers, PersistFails(w)
  PROVE  StoreTypeOK'
<1>1. write' = [write EXCEPT ![w] = NoWrite] /\ write[w].id \in Ids
  BY WriterFields DEF PersistFails
<1>2. /\ file' \in [Ids -> Content] /\ temporary' \in [Ids -> Content]
      /\ UNCHANGED <<memory, now>>
  BY <1>1 DEF PersistFails, Content, StoreTypeOK
<1>3. /\ write' \in [Writers -> Write]
      /\ \A v \in Writers : write'[v].step = "cleanup" => write'[v].evicted # {}
  BY <1>1 DEF StoreTypeOK, Write, NoWrite
<1>4. QED
  BY <1>2, <1>3, WriteTypes

LEMMA RemoveTypes ==
  ASSUME StoreTypeOK, NEW w \in Writers, RemoveEvicted(w)
  PROVE  StoreTypeOK'
<1>1. /\ write[w] \in [step : Persisting \cup {"cleanup"}, id : Ids, expires : Expiry,
                       evicted : SUBSET Ids]
      /\ UNCHANGED <<memory, temporary, now>>
  BY WriterFields DEF RemoveEvicted
<1>2. PICK id \in write[w].evicted :
        /\ file' = [file EXCEPT ![id] = NoFile]
        /\ write' = [write EXCEPT ![w] =
             IF write[w].evicted = {id} THEN NoWrite
             ELSE [write[w] EXCEPT !.evicted = write[w].evicted \ {id}]]
  BY DEF RemoveEvicted
<1> DEFINE next == IF write[w].evicted = {id} THEN NoWrite
                   ELSE [write[w] EXCEPT !.evicted = write[w].evicted \ {id}]
<1>3. write' = [write EXCEPT ![w] = next]
  BY <1>2, Zenon
<1>4. next \in Write /\ (next.step = "cleanup" => next.evicted # {})
  BY <1>1 DEF Write, NoWrite
<1>5. file' \in [Ids -> Content] /\ temporary' \in [Ids -> Content]
  BY <1>1, <1>2 DEF StoreTypeOK, Content
<1> HIDE DEF next
<1>6. /\ write' \in [Writers -> Write]
      /\ \A v \in Writers : write'[v].step = "cleanup" => write'[v].evicted # {}
  BY <1>3, <1>4 DEF StoreTypeOK
<1>7. QED
  BY <1>1, <1>5, <1>6, WriteTypes

LEMMA ReloadTypes ==
  ASSUME StoreTypeOK, NEW trimmed \in SUBSET Ids, Reload(trimmed)
  PROVE  StoreTypeOK'
<1> DEFINE live == {id \in Ids : file[id] > now}
<1> DEFINE loaded == [id \in Ids |-> IF id \in live THEN Complete(file[id]) ELSE Absent]
<1>1. /\ memory' = Without(loaded, trimmed)
      /\ file' = [id \in Ids |->
           IF id \in live \ trimmed \/ file[id] = Torn THEN file[id] ELSE NoFile]
      /\ temporary' = [id \in Ids |-> NoFile]
      /\ write' = [w \in Writers |-> NoWrite]
      /\ now' = now
  BY DEF Reload
<1>2. \A id \in Ids : file[id] \in Content /\ now \in Nat
  BY DEF StoreTypeOK
<1>3. \A id \in live : file[id] \in Expiry
  BY <1>2 DEF Content, NoFile, Torn
<1>4. loaded \in [Ids -> Entry] /\ Absent \in Entry
  BY <1>3 DEF Entry
<1>5. memory' \in [Ids -> Entry]
  BY <1>1, <1>4 DEF Without
<1>6. file' \in [Ids -> Content] /\ temporary' \in [Ids -> Content]
  BY <1>1, <1>2 DEF Content
<1>7. write' \in [Writers -> Write]
  BY <1>1 DEF Write
<1>8. \A v \in Writers : write'[v].step = "cleanup" => write'[v].evicted # {}
  BY <1>1 DEF NoWrite
<1>9. QED
  BY <1>1, <1>5, <1>6, <1>7, <1>8 DEF StoreTypeOK

\* With room for every identifier nothing is ever evicted.
LEMMA NoneEvicted ==
  ASSUME Roomy, NEW m, NEW new, NEW evicted \in Evictable(m, new)
  PROVE  evicted = {}
<1>1. Completed(m) \subseteq Ids
  BY DEF Completed
<1>2. IsFiniteSet(Completed(m)) /\ Cardinality(Completed(m)) <= Cardinality(Ids)
  BY <1>1, FS_Subset DEF Roomy
<1>3. Cardinality(Completed(m)) \in Nat /\ Cardinality(Ids) \in Nat
  BY <1>2, FS_CardinalityType DEF Roomy
<1>4. Above(Cardinality(Completed(m))) = 0
  BY <1>2, <1>3 DEF Above, Roomy
<1>5. Cardinality(evicted) = 0 /\ evicted \subseteq Ids
  BY <1>4 DEF Evictable
<1>6. IsFiniteSet(evicted)
  BY <1>5, FS_Subset DEF Roomy
<1>7. QED
  BY <1>5, <1>6, FS_EmptySet

\* Writing its file is all a record call has left to do.
OnlyDisk(wr) == wr # NoWrite => wr.step \in Persisting /\ wr.evicted = {}

WriteInv == \A w \in Writers : OnlyDisk(write[w])

LEMMA LookupTypes ==
  ASSUME StoreTypeOK, Lookup
  PROVE  StoreTypeOK'
<1>1. memory' \in [Ids -> Entry] /\ file' \in [Ids -> Content]
  BY Pruning DEF Lookup
<1>2. QED
  BY <1>1 DEF Lookup, StoreTypeOK

LEMMA ClaimTypes ==
  ASSUME StoreTypeOK, NEW id \in Ids, Claim(id)
  PROVE  StoreTypeOK'
<1>1. Pruned \in [Ids -> Entry] /\ file' \in [Ids -> Content]
  BY Pruning DEF Claim
<1>2. InFlight \in Entry
  BY DEF Entry
<1>3. memory' \in [Ids -> Entry]
  BY <1>1, <1>2 DEF Claim
<1>4. QED
  BY <1>1, <1>3 DEF Claim, StoreTypeOK

LEMMA AbandonTypes ==
  ASSUME StoreTypeOK, NEW id \in Ids, Abandon(id)
  PROVE  StoreTypeOK'
<1>1. Absent \in Entry
  BY DEF Entry
<1>2. memory' \in [Ids -> Entry]
  BY <1>1 DEF Abandon, StoreTypeOK
<1>3. QED
  BY <1>2 DEF Abandon, StoreTypeOK

\* What a record call does under the lock: the identifier alone gets a new
\* record, everything else is pruned.
LEMMA RecordPost ==
  ASSUME StoreTypeOK, Roomy, NEW w \in Writers, NEW id \in Ids, NEW evicted \in SUBSET Ids,
         RecordInMemory(w, id, evicted)
  PROVE  /\ evicted = {}
         /\ memory' = [Pruned EXCEPT ![id] = Complete(now + Retention)]
         /\ WriteInv => WriteInv'
<1> DEFINE e == now + Retention
<1> DEFINE m == [Pruned EXCEPT ![id] = Complete(e)]
<1>1. /\ evicted \in Evictable(m, {id})
      /\ memory' = Without(m, evicted)
      /\ write' = [write EXCEPT ![w] = Writing("disk", id, e, evicted)]
  BY DEF RecordInMemory
<1>2. evicted = {}
  BY <1>1, NoneEvicted
<1>3. DOMAIN m = Ids /\ m = [i \in Ids |-> m[i]]
  BY Pruning
<1>4. Without(m, evicted) = m
  BY <1>2, <1>3 DEF Without
<1>5. /\ Writing("disk", id, e, evicted).step = "disk"
      /\ Writing("disk", id, e, evicted).evicted = {}
  BY <1>2 DEF Writing
<1>6. WriteInv => WriteInv'
  BY <1>1, <1>5 DEF WriteInv, OnlyDisk, Persisting, StoreTypeOK
<1>7. QED
  BY <1>1, <1>2, <1>4, <1>6

\* The file operations of a record call: it has nothing but its file left to do, and
\* no file goes.
LEMMA PersistPost ==
  ASSUME StoreTypeOK, WriteInv, NEW w \in Writers,
         \/ CreateTemporary(w) \/ FillTemporary(w) \/ Overwrite(w)
         \/ Rename(w) \/ PersistFails(w)
  PROVE  /\ WriteInv'
         /\ \A id \in Ids : file[id] # NoFile => file'[id] # NoFile
         /\ Rename(w) => write[w].id \in Ids /\ file'[write[w].id] # NoFile
<1>1. write[w].step \in Persisting
  BY DEF CreateTemporary, FillTemporary, Overwrite, Rename, PersistFails, Persisting
<1>2. write[w] # NoWrite /\ write[w].id \in Ids /\ write[w].expires \in Expiry
  BY <1>1, WriterFields DEF NoWrite, Persisting
<1>3. write[w].evicted = {}
  BY <1>2 DEF WriteInv, OnlyDisk
<1>4. Expiry \subseteq Int \ {NoFile} /\ Torn # NoFile
  BY DEF Expiry, NoFile, Torn
<1>5. CASE CreateTemporary(w) \/ FillTemporary(w) \/ Overwrite(w)
  <2>1. \E step \in Persisting : WriteGoto(w, step)
    BY <1>5 DEF CreateTemporary, FillTemporary, Overwrite, Persisting
  <2>2. PICK step \in Persisting :
          /\ write'[w] = [write[w] EXCEPT !.step = step]
          /\ \A v \in Writers : v # w => write'[v] = write[v]
    BY <1>1, <2>1, WriteGotoTypes
  <2>3. write'[w].step \in Persisting /\ write'[w].evicted = {}
    BY <1>1, <1>3, <2>2, WriterFields
  <2>4. WriteInv'
    BY <2>2, <2>3 DEF WriteInv, OnlyDisk
  <2>5. \A id \in Ids : file[id] # NoFile => file'[id] # NoFile
    BY <1>2, <1>4, <1>5 DEF CreateTemporary, FillTemporary, Overwrite, Filled, StoreTypeOK
  <2>6. ~ Rename(w)
    BY <1>5 DEF CreateTemporary, FillTemporary, Overwrite, Rename
  <2>7. QED
    BY <2>4, <2>5, <2>6
<1>6. CASE Rename(w)
  <2>1. /\ temporary[write[w].id] # NoFile
        /\ file' = [file EXCEPT ![write[w].id] = temporary[write[w].id]]
        /\ write' = [v \in Writers |-> RenamedCall(w, v)]
    BY <1>6, RenameEffect
  <2>2. ASSUME NEW v \in Writers
        PROVE  OnlyDisk(RenamedCall(w, v))
    <3>1. CASE v = w
      BY <1>3, <3>1 DEF RenamedCall, AfterFile, OnlyDisk
    <3>2. CASE v # w /\ write[v].step \in {"filling", "overwriting"}
                 /\ write[v].id = write[w].id
      <4>1. /\ write[v] \in [step : Persisting \cup {"cleanup"}, id : Ids, expires : Expiry,
                             evicted : SUBSET Ids]
            /\ write[v] # NoWrite
        BY <3>2, WriterFields DEF Persisting, NoWrite
      <4>2. write[v].evicted = {}
        BY <4>1 DEF WriteInv, OnlyDisk
      <4>3. PICK step \in {"overwriting", "rename"} :
              RenamedCall(w, v) = [write[v] EXCEPT !.step = step]
        BY <3>2 DEF RenamedCall
      <4>4. QED
        BY <4>1, <4>2, <4>3 DEF OnlyDisk, Persisting
    <3>3. CASE v # w /\ ~ (write[v].step \in {"filling", "overwriting"}
                             /\ write[v].id = write[w].id)
      BY <3>3 DEF RenamedCall, WriteInv
    <3>4. QED
      BY <3>1, <3>2, <3>3
  <2>3. WriteInv'
    BY <2>1, <2>2, Zenon DEF WriteInv
  <2>4. file'[write[w].id] # NoFile /\ \A id \in Ids : id # write[w].id => file'[id] = file[id]
    BY <1>2, <2>1 DEF StoreTypeOK
  <2>5. QED
    BY <1>2, <2>3, <2>4
<1>7. CASE PersistFails(w)
  <2>1. WriteInv'
    BY <1>7 DEF PersistFails, WriteInv, OnlyDisk, StoreTypeOK
  <2>2. \A id \in Ids : file[id] # NoFile => file'[id] # NoFile
    BY <1>2, <1>4, <1>7 DEF PersistFails, StoreTypeOK
  <2>3. QED
    BY <1>6, <2>1, <2>2
<1>8. QED
  BY <1>5, <1>6, <1>7

LEMMA NothingToRemove ==
  ASSUME WriteInv, NEW w \in Writers
  PROVE  ~ RemoveEvicted(w)
  BY DEF WriteInv, OnlyDisk, RemoveEvicted, NoWrite, Persisting

\* The directory is read again: what is absent afterwards had no file or one
\* that ran out.
LEMMA ReloadPost ==
  ASSUME StoreTypeOK, Roomy, NEW trimmed \in SUBSET Ids, Reload(trimmed)
  PROVE  /\ WriteInv'
         /\ \A id \in Ids :
              /\ file[id] > now => file'[id] = file[id]
              /\ memory'[id].status = "absent" => file[id] <= now
<1> DEFINE live == {id \in Ids : file[id] > now}
<1> DEFINE loaded == [id \in Ids |-> IF id \in live THEN Complete(file[id]) ELSE Absent]
<1>1. /\ trimmed \in Evictable(loaded, {})
      /\ memory' = Without(loaded, trimmed)
      /\ file' = [id \in Ids |->
           IF id \in live \ trimmed \/ file[id] = Torn THEN file[id] ELSE NoFile]
      /\ write' = [w \in Writers |-> NoWrite]
  BY DEF Reload
<1>2. trimmed = {}
  BY <1>1, NoneEvicted
<1>3. memory' = loaded
  BY <1>1, <1>2 DEF Without
<1>4. WriteInv'
  BY <1>1 DEF WriteInv, OnlyDisk
<1>5. ASSUME NEW id \in Ids
      PROVE  /\ file[id] > now => file'[id] = file[id]
             /\ memory'[id].status = "absent" => file[id] <= now
  <2>1. file[id] > now \/ file[id] <= now
    BY DEF StoreTypeOK, Content, Expiry, NoFile, Torn
  <2>2. id \in live <=> file[id] > now
    OBVIOUS
  <2>3. file[id] > now => file'[id] = file[id] /\ memory'[id] = Complete(file[id])
    BY <1>1, <1>2, <1>3, <2>2
  <2>4. Complete(file[id]).status # "absent"
    BY DEF Complete
  <2>5. QED
    BY <2>1, <2>3, <2>4
<1>6. QED
  BY <1>4, <1>5

------------------------------------------------------------------------------
(* Types                                                                   *)

LEMMA RequestId ==
  ASSUME TypeOK, NEW c \in Calls
  PROVE  Id(c) \in Ids
  BY DEF TypeOK, Id

LEMMA GotoTypes ==
  ASSUME TypeOK, NEW c \in Calls, NEW step \in Handler, Goto(c, step)
  PROVE  /\ handler' \in [Calls -> Handler]
         /\ handler'[c] = step
         /\ \A d \in Calls : d # c => handler'[d] = handler[d]
  BY DEF TypeOK, Goto

LEMMA TaskGotoTypes ==
  ASSUME TypeOK, NEW c \in Calls, NEW step \in Task, TaskGoto(c, step)
  PROVE  /\ task' \in [Calls -> Task]
         /\ task'[c] = step
         /\ \A d \in Calls : d # c => task'[d] = task[d]
  BY DEF TypeOK, TaskGoto

LEMMA ForgetTypes ==
  ASSUME TypeOK, NEW ids, Forget(ids)
  PROVE  forwards' \in [Ids -> Nat] /\ saved' \subseteq Ids /\ raced' \subseteq Ids
  BY DEF TypeOK, Forget, CountAsNew

LEMMA ForwardTypes ==
  ASSUME TypeOK, NEW id \in Ids, Forward(id)
  PROVE  forwards' \in [Ids -> Nat]
  BY DEF TypeOK, Forward

LEMMA DeregisterTypes ==
  ASSUME TypeOK, NEW id \in Ids, Deregister(id)
  PROVE  registered' \in [Ids -> Calls \cup {None}]
  BY DEF TypeOK, Deregister

LEMMA TakeTaskPost ==
  ASSUME TypeOK, NEW c \in Calls, TakeTask(c)
  PROVE  /\ task' \in [Calls -> Task] /\ stored' \subseteq Calls
         /\ \A d \in Calls : d # c => task'[d] = task[d] /\ (d \in stored' <=> d \in stored)
         /\ task'[c] = task[c] \/ task'[c] = "aborted"
         /\ c \in stored /\ task[c] = "waiting" => task'[c] = "aborted"
  BY DEF TypeOK, TakeTask, Task, Abortable

LEMMA RecordTypes ==
  ASSUME TypeOK, NEW w \in Writers, NEW id \in Ids, Record(w, id)
  PROVE  StoreTypeOK' /\ forwards' \in [Ids -> Nat] /\ saved' \subseteq Ids /\ raced' \subseteq Ids
<1>1. PICK evicted \in SUBSET Ids :
        /\ RecordInMemory(w, id, evicted)
        /\ CountAsNew(Expired \cup (evicted \ Executing(memory)))
        /\ raced' \subseteq raced \cup {id}
  BY DEF Record
<1>2. QED
  BY <1>1, RecordStoreTypes DEF TypeOK, CountAsNew

\* Where nothing is evicted, a record call only adds its record.
LEMMA RecordAdds ==
  ASSUME TypeOK, Roomy, NEW w \in Writers, NEW id \in Ids, Record(w, id)
  PROVE  /\ memory' = [Pruned EXCEPT ![id] = Complete(now + Retention)]
         /\ PruneFiles /\ now' = now /\ CountAsNew(Expired)
         /\ WriteInv => WriteInv'
<1>1. PICK evicted \in SUBSET Ids :
        /\ RecordInMemory(w, id, evicted)
        /\ CountAsNew(Expired \cup (evicted \ Executing(memory)))
  BY DEF Record
<1>2. /\ evicted = {}
      /\ memory' = [Pruned EXCEPT ![id] = Complete(now + Retention)]
      /\ WriteInv => WriteInv'
  BY <1>1, RecordPost DEF TypeOK
<1>3. PruneFiles /\ now' = now
  BY <1>1 DEF RecordInMemory
<1>4. Expired \cup (evicted \ Executing(memory)) = Expired
  BY <1>2
<1>5. QED
  BY <1>1, <1>2, <1>3, <1>4

LEMMA InitTypes == Init => TypeOK
<1> SUFFICES ASSUME Init PROVE TypeOK
  OBVIOUS
<1>1. StoreTypeOK
  BY DEF Init, StoreInit, StoreTypeOK, Entry, Write, NoWrite, Content
<1>2. /\ request \in [Calls -> [kind : {"open", "atomic"}, id : Ids]]
      /\ handler \in [Calls -> Handler] /\ task \in [Calls -> Task]
  BY DEF Init, Handler, Task
<1>3. /\ stored \subseteq Calls /\ registered \in [Ids -> Calls \cup {None}]
      /\ loop \in {Idle} /\ doomed \subseteq Calls
  BY DEF Init
<1>4. /\ restarts \in 0 .. MaxRestarts /\ aged \subseteq Writers
      /\ forwards \in [Ids -> Nat] /\ saved \subseteq Ids /\ raced \subseteq Ids
  BY DEF Init
<1>5. QED
  BY <1>1, <1>2, <1>3, <1>4 DEF TypeOK

\* The steps of a handler that leave the store alone.
LEMMA HandlerTypes ==
  ASSUME TypeOK, NEW c \in Calls,
         \/ Arrive(c) \/ LookUpOpen(c) \/ OpenFails(c) \/ Insert(c) \/ Spawn(c)
         \/ ReplyAccepted(c) \/ ReplyFails(c) \/ UndoTask(c) \/ UndoEntry(c)
         \/ AtomicForward(c) \/ AtomicResponse(c) \/ AtomicReply(c)
  PROVE  TypeOK'
<1> USE DEF Handler, Opening, Atomic, Replies, bridgeVars, historyVars, storeVars
<1>1. UNCHANGED storeVars
  BY DEF Arrive, LookUpOpen, OpenFails, Insert, Spawn, ReplyAccepted, ReplyFails, UndoTask,
         UndoEntry, AtomicForward, AtomicResponse, AtomicReply
<1>2. StoreTypeOK'
  BY <1>1 DEF TypeOK, StoreTypeOK
<1>3. handler' \in [Calls -> Handler]
  <2>1. \E step \in Handler : Goto(c, step)
    BY DEF Arrive, LookUpOpen, OpenFails, Insert, Spawn, ReplyAccepted, ReplyFails, UndoTask,
           UndoEntry, AtomicForward, AtomicResponse, AtomicReply
  <2>2. QED
    BY <2>1, GotoTypes
<1>4. /\ task' \in [Calls -> Task] /\ stored' \subseteq Calls
      /\ registered' \in [Ids -> Calls \cup {None}]
  <2>1. CASE UndoTask(c)
    BY <2>1, TakeTaskPost DEF UndoTask, TypeOK
  <2>2. CASE UndoEntry(c)
    BY <2>2, DeregisterTypes, RequestId DEF UndoEntry, TypeOK
  <2>3. CASE ~ UndoTask(c) /\ ~ UndoEntry(c)
    BY <2>3, RequestId
    DEF TypeOK, Task, TaskGoto, Arrive, LookUpOpen, OpenFails, Insert, Spawn, ReplyAccepted,
        ReplyFails, AtomicForward, AtomicResponse, AtomicReply
  <2>4. QED
    BY <2>1, <2>2, <2>3
<1>5. forwards' \in [Ids -> Nat]
  <2>1. CASE AtomicForward(c)
    BY <2>1, ForwardTypes, RequestId DEF AtomicForward
  <2>2. CASE ~ AtomicForward(c)
    BY <2>2 DEF TypeOK, Arrive, LookUpOpen, OpenFails, Insert, Spawn, ReplyAccepted, ReplyFails,
       UndoTask, UndoEntry, AtomicResponse, AtomicReply
  <2>3. QED
    BY <2>1, <2>2
<1>6. UNCHANGED <<request, loop, doomed, restarts, aged, saved, raced>>
  BY DEF Arrive, LookUpOpen, OpenFails, Insert, Spawn, ReplyAccepted, ReplyFails, UndoTask,
         UndoEntry, AtomicForward, AtomicResponse, AtomicReply
<1>7. QED
  BY <1>2, <1>3, <1>4, <1>5, <1>6 DEF TypeOK

\* The steps of a handler that claim, look up, abandon or record.
LEMMA HandlerStoreTypes ==
  ASSUME TypeOK, NEW c \in Calls,
         \/ ClaimGranted(c) \/ ClaimRefused(c) \/ AbandonOpen(c) \/ AtomicFails(c)
         \/ AtomicRecord(c) \/ AtomicTimeout(c)
  PROVE  TypeOK'
<1>1. StoreTypeOK /\ Id(c) \in Ids /\ c \in Writers
  BY RequestId DEF TypeOK
<1>2. StoreTypeOK' /\ forwards' \in [Ids -> Nat] /\ saved' \subseteq Ids /\ raced' \subseteq Ids
  <2>1. CASE ClaimGranted(c)
    BY <1>1, <2>1, ClaimTypes, ForgetTypes DEF ClaimGranted
  <2>2. CASE ClaimRefused(c) \/ AtomicTimeout(c)
    BY <1>1, <2>2, LookupTypes, ForgetTypes DEF ClaimRefused, AtomicTimeout
  <2>3. CASE AbandonOpen(c) \/ AtomicFails(c)
    BY <1>1, <2>3, AbandonTypes DEF AbandonOpen, AtomicFails, historyVars, TypeOK
  <2>4. CASE AtomicRecord(c)
    BY <1>1, <2>4, RecordTypes DEF AtomicRecord
  <2>5. QED
    BY <2>1, <2>2, <2>3, <2>4
<1>3. \E step \in Handler : Goto(c, step)
  BY DEF ClaimGranted, ClaimRefused, NotClaimed, AbandonOpen, AtomicFails, AtomicRecord,
         AtomicTimeout, Handler, Opening, Atomic, Replies
<1>4. handler' \in [Calls -> Handler]
  BY <1>3, GotoTypes
<1>5. UNCHANGED <<request, task, stored, registered, loop, doomed, restarts, aged>>
  BY DEF ClaimGranted, ClaimRefused, AbandonOpen, AtomicFails, AtomicRecord, AtomicTimeout,
         historyVars
<1>6. QED
  BY <1>2, <1>4, <1>5 DEF TypeOK

LEMMA TaskTypes ==
  ASSUME TypeOK, NEW c \in Calls, RunTask(c)
  PROVE  TypeOK'
<1>1. StoreTypeOK /\ Id(c) \in Ids /\ c \in Writers
  BY RequestId DEF TypeOK
<1>2. \E step \in Task : TaskGoto(c, step)
  BY DEF RunTask, TaskForward, UpstreamEnds, TaskDeregister, TaskRecord, TaskDone, Task
<1>3. task' \in [Calls -> Task]
  BY <1>2, TaskGotoTypes
<1>4. /\ UNCHANGED <<request, handler, stored, loop, doomed, restarts, aged>>
      /\ registered' \in [Ids -> Calls \cup {None}]
  BY <1>1, DeregisterTypes
  DEF RunTask, TaskForward, UpstreamEnds, TaskDeregister, TaskRecord, TaskDone, historyVars, TypeOK
<1>5. StoreTypeOK' /\ forwards' \in [Ids -> Nat] /\ saved' \subseteq Ids /\ raced' \subseteq Ids
  <2>1. CASE TaskForward(c)
    BY <1>1, <2>1, ForwardTypes DEF TaskForward, storeVars, StoreTypeOK, TypeOK
  <2>2. CASE TaskRecord(c)
    BY <1>1, <2>2, RecordTypes DEF TaskRecord
  <2>3. CASE UpstreamEnds(c) \/ TaskDeregister(c) \/ TaskDone(c)
    BY <1>1, <2>3 DEF UpstreamEnds, TaskDeregister, TaskDone, storeVars, historyVars,
       StoreTypeOK, TypeOK
  <2>4. QED
    BY <2>1, <2>2, <2>3 DEF RunTask
<1>6. QED
  BY <1>3, <1>4, <1>5 DEF TypeOK

\* Whatever the event loop is at, it is at one of its steps with a call.
LEMMA LoopStep ==
  ASSUME TypeOK, loop # Idle
  PROVE  loop.call \in Calls /\ loop \in [step : {"abort", "record", "writing"}, call : Calls]
  BY DEF TypeOK

LEMMA LoopTypes ==
  ASSUME TypeOK,
         \/ \E id \in Ids : Cancel(id)
         \/ RouteDies \/ LookUpMessage \/ RunLoop
  PROVE  TypeOK'
<1> USE DEF historyVars, storeVars, bridgeVars
<1>1. StoreTypeOK
  BY DEF TypeOK
<1>2. ASSUME NEW id \in Ids, Cancel(id) PROVE TypeOK'
  <2>1. loop' \in [step : {"abort", "record", "writing"}, call : Calls]
    BY <1>2 DEF Cancel, TypeOK
  <2>2. registered' \in [Ids -> Calls \cup {None}]
    BY <1>2, DeregisterTypes DEF Cancel
  <2>3. QED
    BY <1>2, <2>1, <2>2 DEF Cancel, TypeOK, StoreTypeOK
<1>3. CASE RouteDies
  <2>1. doomed' \subseteq Calls
    BY <1>3 DEF RouteDies, TypeOK
  <2>2. registered' \in [Ids -> Calls \cup {None}]
    BY <1>3 DEF RouteDies
  <2>3. QED
    BY <1>3, <2>1, <2>2 DEF RouteDies, TypeOK, StoreTypeOK
<1>4. CASE LookUpMessage
  BY <1>1, <1>4, LookupTypes, ForgetTypes DEF LookUpMessage, TypeOK
<1>5. ASSUME NEW c \in Calls, NextDoomed(c) PROVE TypeOK'
  <2>1. /\ loop' \in [step : {"abort", "record", "writing"}, call : Calls]
        /\ doomed' \subseteq Calls
    BY <1>5 DEF NextDoomed, TypeOK
  <2>2. QED
    BY <1>5, <2>1 DEF NextDoomed, TypeOK, StoreTypeOK
<1>6. ASSUME LoopAbort \/ LoopRecord \/ LoopDone
      PROVE  loop # Idle
  BY <1>6 DEF LoopAbort, LoopRecord, LoopDone, Idle
<1>7. CASE LoopAbort
  <2>1. loop.call \in Calls /\ loop' \in [step : {"abort", "record", "writing"}, call : Calls]
    BY <1>6, <1>7, LoopStep DEF LoopAbort
  <2>2. task' \in [Calls -> Task] /\ stored' \subseteq Calls
    BY <1>7, <2>1, TakeTaskPost DEF LoopAbort
  <2>3. QED
    BY <1>7, <2>1, <2>2 DEF LoopAbort, TypeOK, StoreTypeOK
<1>8. CASE LoopRecord
  <2>1. loop.call \in Calls /\ loop' \in [step : {"abort", "record", "writing"}, call : Calls]
    BY <1>6, <1>8, LoopStep DEF LoopRecord
  <2>2. StoreTypeOK' /\ forwards' \in [Ids -> Nat] /\ saved' \subseteq Ids /\ raced' \subseteq Ids
    BY <1>8, <2>1, RequestId, RecordTypes DEF LoopRecord
  <2>3. QED
    BY <1>8, <2>1, <2>2 DEF LoopRecord, TypeOK
<1>9. CASE LoopDone
  BY <1>9 DEF LoopDone, TypeOK, StoreTypeOK
<1>10. QED
  BY <1>2, <1>3, <1>4, <1>5, <1>7, <1>8, <1>9 DEF RunLoop

LEMMA FileTypes ==
  ASSUME TypeOK, NEW w \in Writers, WriteStep(w)
  PROVE  TypeOK'
<1>1. StoreTypeOK'
  BY TemporaryTypes, RenameTypes, PersistFailsTypes, RemoveTypes
  DEF WriteStep, WriteTemporary, WriteFile, WriteFails, RemoveFile, TypeOK
<1>2. UNCHANGED <<request, bridgeVars, restarts, aged, forwards, raced>>
  BY DEF WriteStep, WriteTemporary, WriteFile, WriteFails, RemoveFile, historyVars
<1>3. saved' \subseteq Ids
  <2>1. CASE WriteFile(w)
    BY <2>1, RenameEffect DEF WriteFile, TypeOK
  <2>2. CASE ~ WriteFile(w)
    BY <2>2 DEF WriteStep, WriteTemporary, WriteFails, RemoveFile, historyVars, TypeOK
  <2>3. QED
    BY <2>1, <2>2
<1>4. QED
  BY <1>1, <1>2, <1>3 DEF bridgeVars, TypeOK

LEMMA TickTypes ==
  ASSUME TypeOK, Tick
  PROVE  TypeOK'
<1>1. now' \in 0 .. MaxTime
  BY DEF Tick, TypeOK, StoreTypeOK
<1>2. aged' \subseteq Writers
  BY DEF Tick, Brief
<1>3. QED
  BY <1>1, <1>2 DEF Tick, TypeOK, StoreTypeOK, bridgeVars

LEMMA RestartTypes ==
  ASSUME TypeOK, Restart
  PROVE  TypeOK'
<1>1. PICK trimmed \in SUBSET Ids :
        /\ Reload(trimmed)
        /\ LET dropped == trimmed \cup {id \in Ids : file[id] # NoFile /\ file[id] <= now}
               unsaved == {id \in Ids \ saved : file[id] = NoFile}
           IN Forget(dropped \cup unsaved)
  BY DEF Restart
<1>2. StoreTypeOK'
  BY <1>1, ReloadTypes DEF TypeOK
<1>3. forwards' \in [Ids -> Nat] /\ saved' \subseteq Ids /\ raced' \subseteq Ids
  BY <1>1, ForgetTypes
<1>4. handler' \in [Calls -> Handler] /\ task' \in [Calls -> Task]
  BY DEF Restart, TypeOK, Handler, Replies, Task
<1>5. /\ stored' \subseteq Calls /\ registered' \in [Ids -> Calls \cup {None}]
      /\ loop' \in {Idle} /\ doomed' \subseteq Calls /\ aged' \subseteq Writers
      /\ restarts' \in 0 .. MaxRestarts /\ request' = request
  BY DEF Restart, TypeOK
<1>6. QED
  BY <1>2, <1>3, <1>4, <1>5 DEF TypeOK

LEMMA TypesStep ==
  ASSUME TypeOK, [Next]_vars
  PROVE  TypeOK'
<1>1. CASE UNCHANGED vars
  BY <1>1 DEF vars, storeVars, bridgeVars, historyVars, TypeOK, StoreTypeOK
<1>2. CASE Next
  BY <1>2, HandlerTypes, HandlerStoreTypes, TaskTypes, LoopTypes, FileTypes, TickTypes,
     RestartTypes
  DEF Next, Progress, Environment, HandleOpen, HandleAtomic
<1>3. QED
  BY <1>1, <1>2

------------------------------------------------------------------------------
(* What is on disk                                                         *)

\* A completion that was on disk is there until it runs out, in memory or not.
DiskInv == \A id \in saved : file[id] # NoFile

LEMMA PrunedDisk ==
  ASSUME TypeOK, DiskInv, PruneFiles, CountAsNew(Expired)
  PROVE  DiskInv'
<1> SUFFICES ASSUME NEW id \in saved' PROVE file'[id] # NoFile
  BY DEF DiskInv
<1>1. id \in saved /\ id \notin Expired /\ id \in Ids
  BY DEF CountAsNew, TypeOK
<1>2. file'[id] = file[id]
  BY <1>1 DEF PruneFiles
<1>3. QED
  BY <1>1, <1>2 DEF DiskInv

LEMMA SameDisk ==
  ASSUME WriteInv, DiskInv, UNCHANGED <<file, write, saved>>
  PROVE  WriteInv' /\ DiskInv'
  BY DEF WriteInv, DiskInv

LEMMA HandlerDisk ==
  ASSUME TypeOK, Roomy, WriteInv, DiskInv, NEW c \in Calls,
         \/ ClaimGranted(c) \/ ClaimRefused(c) \/ HandleOpen(c) \/ HandleAtomic(c)
         \/ RunTask(c) \/ Arrive(c) \/ AtomicTimeout(c)
  PROVE  WriteInv' /\ DiskInv'
<1> USE DEF storeVars, historyVars, bridgeVars
<1>1. Id(c) \in Ids /\ c \in Writers
  BY RequestId
<1>2. CASE ClaimGranted(c) \/ ClaimRefused(c) \/ AtomicTimeout(c)
  <2>1. PruneFiles /\ CountAsNew(Expired) /\ write' = write
    BY <1>2 DEF ClaimGranted, ClaimRefused, AtomicTimeout, Claim, Lookup, Forget
  <2>2. QED
    BY <2>1, PrunedDisk DEF WriteInv
<1>3. CASE AtomicRecord(c) \/ TaskRecord(c)
  <2>1. Record(c, Id(c))
    BY <1>3 DEF AtomicRecord, TaskRecord
  <2>2. PruneFiles /\ CountAsNew(Expired) /\ WriteInv'
    BY <1>1, <2>1, RecordAdds
  <2>3. QED
    BY <2>2, PrunedDisk
<1>4. CASE \/ Arrive(c) \/ LookUpOpen(c) \/ OpenFails(c) \/ Insert(c) \/ Spawn(c)
           \/ ReplyAccepted(c) \/ ReplyFails(c) \/ UndoTask(c) \/ UndoEntry(c)
           \/ AbandonOpen(c) \/ AtomicForward(c) \/ AtomicResponse(c) \/ AtomicReply(c)
           \/ AtomicFails(c) \/ TaskForward(c) \/ UpstreamEnds(c) \/ TaskDeregister(c)
           \/ TaskDone(c)
  <2>1. UNCHANGED <<file, write, saved>>
    BY <1>4 DEF Arrive, LookUpOpen, OpenFails, Insert, Spawn, ReplyAccepted, ReplyFails,
       UndoTask, UndoEntry, AbandonOpen, AtomicForward, AtomicResponse, AtomicReply, AtomicFails,
       TaskForward, UpstreamEnds, TaskDeregister, TaskDone, Abandon
  <2>2. QED
    BY <2>1, SameDisk
<1>5. QED
  BY <1>2, <1>3, <1>4 DEF HandleOpen, HandleAtomic, RunTask

LEMMA LoopDisk ==
  ASSUME TypeOK, Roomy, WriteInv, DiskInv,
         \/ \E id \in Ids : Cancel(id)
         \/ RouteDies \/ LookUpMessage \/ RunLoop
  PROVE  WriteInv' /\ DiskInv'
<1> USE DEF storeVars, historyVars, bridgeVars
<1>1. CASE LookUpMessage
  <2>1. PruneFiles /\ CountAsNew(Expired) /\ write' = write
    BY <1>1 DEF LookUpMessage, Lookup, Forget
  <2>2. QED
    BY <2>1, PrunedDisk DEF WriteInv
<1>2. CASE LoopRecord
  <2>1. loop # Idle
    BY <1>2 DEF LoopRecord, Idle
  <2>2. Id(loop.call) \in Ids
    BY <2>1, LoopStep, RequestId
  <2>3. PruneFiles /\ CountAsNew(Expired) /\ WriteInv'
    BY <1>2, <2>2, RecordAdds DEF LoopRecord
  <2>4. QED
    BY <2>3, PrunedDisk
<1>3. CASE \/ \E id \in Ids : Cancel(id)
           \/ RouteDies \/ LoopAbort \/ LoopDone \/ \E c \in Calls : NextDoomed(c)
  <2>1. UNCHANGED <<file, write, saved>>
    BY <1>3 DEF Cancel, RouteDies, LoopAbort, LoopDone, NextDoomed
  <2>2. QED
    BY <2>1, SameDisk
<1>4. QED
  BY <1>1, <1>2, <1>3 DEF RunLoop

LEMMA FileDisk ==
  ASSUME TypeOK, Roomy, WriteInv, DiskInv, NEW w \in Writers, WriteStep(w)
  PROVE  WriteInv' /\ DiskInv'
<1>1. /\ WriteInv'
      /\ \A id \in Ids : file[id] # NoFile => file'[id] # NoFile
      /\ Rename(w) => write[w].id \in Ids /\ file'[write[w].id] # NoFile
  BY PersistPost, NothingToRemove
  DEF WriteStep, WriteTemporary, WriteFile, WriteFails, RemoveFile, TypeOK
<1>2. saved' \subseteq saved \/ (Rename(w) /\ saved' \subseteq saved \cup {write[w].id})
  BY NothingToRemove DEF WriteStep, WriteTemporary, WriteFile, WriteFails, RemoveFile, historyVars
<1>3. saved \subseteq Ids
  BY DEF TypeOK
<1>4. DiskInv'
  BY <1>1, <1>2, <1>3 DEF DiskInv
<1>5. QED
  BY <1>1, <1>4

\* After a restart everything that is not loaded counts as new.
LEMMA RestartDisk ==
  ASSUME TypeOK, Roomy, DiskInv, Restart
  PROVE  /\ WriteInv' /\ DiskInv'
         /\ \A id \in Ids :
              /\ forwards'[id] = 0 \/ forwards'[id] = forwards[id]
              /\ memory'[id].status = "absent" => forwards'[id] = 0
<1>1. PICK trimmed \in SUBSET Ids :
        /\ Reload(trimmed)
        /\ LET dropped == trimmed \cup {id \in Ids : file[id] # NoFile /\ file[id] <= now}
               unsaved == {id \in Ids \ saved : file[id] = NoFile}
           IN Forget(dropped \cup unsaved)
  BY DEF Restart
<1> DEFINE gone == trimmed \cup {id \in Ids : file[id] # NoFile /\ file[id] <= now}
                     \cup {id \in Ids \ saved : file[id] = NoFile}
<1>2. CountAsNew(gone)
  BY <1>1 DEF Forget
<1>3. /\ WriteInv'
      /\ \A id \in Ids :
           /\ file[id] > now => file'[id] = file[id]
           /\ memory'[id].status = "absent" => file[id] <= now
  BY <1>1, ReloadPost DEF TypeOK
<1>4. \A id \in Ids : file[id] \in Int /\ now \in Nat
  BY DEF TypeOK, StoreTypeOK, Content, Expiry, NoFile, Torn
<1>5. \A id \in Ids : file[id] <= now => id \in gone
  BY DEF DiskInv
<1>6. \A id \in saved' : id \in saved /\ id \in Ids /\ id \notin gone
  BY <1>2 DEF CountAsNew, TypeOK
<1>7. \A id \in saved' : file[id] > now
  <2> TAKE id \in saved'
  <2>1. ~ (file[id] <= now) /\ file[id] \in Int /\ now \in Nat
    BY <1>4, <1>5, <1>6
  <2>2. QED
    BY <2>1
<1>8. DiskInv'
  BY <1>3, <1>6, <1>7 DEF DiskInv
<1>9. \A id \in Ids : forwards'[id] = IF id \in gone THEN 0 ELSE forwards[id]
  BY <1>2 DEF CountAsNew
<1>10. QED
  BY <1>3, <1>5, <1>8, <1>9

LEMMA DiskStep ==
  ASSUME TypeOK, Roomy, WriteInv, DiskInv, [Next]_vars
  PROVE  WriteInv' /\ DiskInv'
<1>1. CASE UNCHANGED vars \/ Tick
  BY <1>1, SameDisk DEF vars, storeVars, historyVars, Tick
<1>2. CASE Restart
  BY <1>2, RestartDisk
<1>3. QED
  BY <1>1, <1>2, HandlerDisk, LoopDisk, FileDisk DEF Next, Progress, Environment

------------------------------------------------------------------------------
(* Who holds an identifier                                                 *)

\* A call that claimed an identifier and has not yet sent its request, nor given
\* the claim back.
Holds(c) == handler[c] \in Opening \cup {"forward"} \/ task[c] \in {"waiting", "started"}

\* A task that has not started can still be aborted, and it starts with the reply.
TaskInv ==
  \A c \in Calls :
    /\ task[c] = "waiting" => c \in stored /\ handler[c] \in {"reply", "undoTask"}
    /\ task[c] = "started" => handler[c] = "accepted"

\* The entry of the identifier that c holds is there, and if it is a record, one
\* that cannot run out before c comes to its end.
Secure(c) ==
  /\ memory[Id(c)].status # "absent"
  /\ memory[Id(c)].status = "complete" =>
       /\ memory[Id(c)].expires > now
       /\ c \notin aged => memory[Id(c)].expires > now + 1

Sole(c) == \A d \in Calls : Holds(d) /\ Id(d) = Id(c) => d = c

Unsent(c) == forwards[Id(c)] = 0

ClaimInv ==
  \A c \in Calls : Holds(c) /\ Id(c) \notin Malformed => Secure(c) /\ Sole(c) /\ Unsent(c)

\* What is not known is new.
ForwardInv ==
  \A id \in Ids :
    /\ forwards[id] <= 1
    /\ id \in Malformed \/ memory[id].status = "absent" => forwards[id] = 0

LEMMA TaskStep ==
  ASSUME TypeOK, TaskInv, [Next]_vars
  PROVE  TaskInv'
<1> USE DEF storeVars, historyVars, bridgeVars
<1>1. ASSUME NEW c \in Calls, UNCHANGED <<task, stored>>, NEW step \in Handler, Goto(c, step),
             handler[c] \notin {"undoTask", "accepted"}, handler[c] = "reply" => step = "undoTask"
      PROVE  TaskInv'
  BY <1>1, GotoTypes DEF TaskInv
<1>2. ASSUME NEW c \in Calls, UNCHANGED <<handler, stored>>, NEW step \in Task,
             TaskGoto(c, step), step \notin {"waiting", "started"}
      PROVE  TaskInv'
  BY <1>2, TaskGotoTypes DEF TaskInv
<1>3. ASSUME NEW c \in Calls, HandleOpen(c)
      PROVE  TaskInv'
  <2>1. CASE LookUpOpen(c) \/ OpenFails(c) \/ Insert(c) \/ ReplyFails(c) \/ UndoEntry(c)
             \/ AbandonOpen(c)
    <3>1. /\ UNCHANGED <<task, stored>>
          /\ handler[c] \notin {"undoTask", "accepted"}
          /\ \E step \in Handler : Goto(c, step) /\ (handler[c] = "reply" => step = "undoTask")
      BY <2>1 DEF LookUpOpen, OpenFails, Insert, ReplyFails, UndoEntry, AbandonOpen, At,
         Handler, Opening, Replies
    <3>2. QED
      BY <1>1, <3>1
  <2>2. CASE Spawn(c)
    <3>1. TaskGoto(c, "waiting") /\ Goto(c, "reply") /\ stored' = stored \cup {c}
      BY <2>2 DEF Spawn
    <3>2. "waiting" \in Task /\ "reply" \in Handler
      BY DEF Task, Handler, Opening
    <3>3. /\ handler'[c] = "reply" /\ task'[c] = "waiting"
          /\ \A d \in Calls : d # c => handler'[d] = handler[d] /\ task'[d] = task[d]
      BY <3>1, <3>2, GotoTypes, TaskGotoTypes
    <3>4. QED
      BY <3>1, <3>3 DEF TaskInv
  <2>3. CASE ReplyAccepted(c)
    <3>1. /\ Goto(c, "accepted") /\ stored' = stored /\ "accepted" \in Handler
          /\ task' = [task EXCEPT ![c] = IF @ = "waiting" THEN "started" ELSE @]
      BY <2>3 DEF ReplyAccepted, Handler, Replies
    <3>2. /\ handler'[c] = "accepted"
          /\ \A d \in Calls : d # c => handler'[d] = handler[d] /\ task'[d] = task[d]
      BY <3>1, GotoTypes DEF TypeOK
    <3>3. task'[c] # "waiting"
      BY <3>1 DEF TypeOK
    <3>4. QED
      BY <3>1, <3>2, <3>3 DEF TaskInv
  <2>4. CASE UndoTask(c)
    <3>1. /\ Goto(c, "undoEntry") /\ TakeTask(c) /\ "undoEntry" \in Handler
          /\ handler[c] = "undoTask"
      BY <2>4 DEF UndoTask, At, Handler, Opening
    <3>2. \A d \in Calls : d # c =>
            /\ handler'[d] = handler[d] /\ task'[d] = task[d]
            /\ (d \in stored' <=> d \in stored)
      BY <3>1, GotoTypes, TakeTaskPost
    <3>3. task'[c] \notin {"waiting", "started"}
      BY <3>1, TakeTaskPost DEF TaskInv
    <3>4. QED
      BY <3>2, <3>3 DEF TaskInv
  <2>5. QED
    BY <1>3, <2>1, <2>2, <2>3, <2>4 DEF HandleOpen
<1>4. ASSUME NEW c \in Calls,
             \/ Arrive(c) \/ ClaimGranted(c) \/ ClaimRefused(c) \/ AtomicTimeout(c)
             \/ HandleAtomic(c)
      PROVE  TaskInv'
  <2>1. /\ UNCHANGED <<task, stored>>
        /\ handler[c] \notin {"undoTask", "accepted", "reply"}
        /\ \E step \in Handler : Goto(c, step)
    BY <1>4 DEF Arrive, ClaimGranted, ClaimRefused, NotClaimed, AtomicTimeout, HandleAtomic,
       AtomicForward, AtomicResponse, AtomicFails, AtomicRecord, AtomicReply, At, Handler,
       Opening, Atomic, Replies
  <2>2. QED
    BY <1>1, <2>1
<1>5. ASSUME NEW c \in Calls, RunTask(c)
      PROVE  TaskInv'
  <2>1. /\ UNCHANGED <<handler, stored>>
        /\ \E step \in Task : TaskGoto(c, step) /\ step \notin {"waiting", "started"}
    BY <1>5 DEF RunTask, TaskForward, UpstreamEnds, TaskDeregister, TaskRecord, TaskDone, Task
  <2>2. QED
    BY <1>2, <2>1
<1>6. CASE LoopAbort
  <2>1. loop # Idle /\ TakeTask(loop.call) /\ handler' = handler
    BY <1>6 DEF LoopAbort, Idle
  <2>2. loop.call \in Calls
    BY <2>1, LoopStep
  <2>3. \A d \in Calls : d # loop.call => task'[d] = task[d] /\ (d \in stored' <=> d \in stored)
    BY <2>1, <2>2, TakeTaskPost
  <2>4. task'[loop.call] # "waiting"
    BY <2>1, <2>2, TakeTaskPost DEF TaskInv
  <2>5. task'[loop.call] = "started" => task[loop.call] = "started"
    BY <2>1, <2>2, TakeTaskPost
  <2>6. QED
    BY <2>1, <2>3, <2>4, <2>5 DEF TaskInv
<1>7. CASE Restart
  <2>1. \A c \in Calls : task'[c] \notin {"waiting", "started"}
    BY <1>7 DEF Restart
  <2>2. QED
    BY <2>1 DEF TaskInv
<1>8. CASE \/ UNCHANGED vars \/ LoopRecord \/ LoopDone \/ \E c \in Calls : NextDoomed(c)
           \/ \E id \in Ids : Cancel(id)
           \/ RouteDies \/ LookUpMessage \/ Tick \/ \E w \in Writers : WriteStep(w)
  <2>1. UNCHANGED <<handler, task, stored>>
    BY <1>8 DEF vars, LoopRecord, LoopDone, NextDoomed, Cancel, RouteDies, LookUpMessage, Tick,
       WriteStep, WriteTemporary, WriteFile, WriteFails, RemoveFile
  <2>2. QED
    BY <2>1 DEF TaskInv
<1>9. QED
  BY <1>3, <1>4, <1>5, <1>6, <1>7, <1>8 DEF Next, Progress, Environment, RunLoop

\* No step but a granted claim lets anyone hold an identifier who did not.
NoNewHolder == \A c \in Calls : Holds(c)' => Holds(c)

LEMMA SameClaims ==
  ASSUME TypeOK, ClaimInv, ForwardInv, NoNewHolder,
         UNCHANGED <<memory, now, request, aged, forwards>>
  PROVE  ClaimInv' /\ ForwardInv'
<1>1. \A c \in Calls : Id(c)' = Id(c)
  BY DEF Id
<1>2. ForwardInv'
  BY DEF ForwardInv
<1>3. ASSUME NEW c \in Calls, Holds(c)', Id(c)' \notin Malformed
      PROVE  Secure(c)' /\ Sole(c)' /\ Unsent(c)'
  <2>1. Secure(c) /\ Sole(c) /\ Unsent(c)
    BY <1>1, <1>3 DEF NoNewHolder, ClaimInv
  <2>2. Secure(c)'
    BY <1>1, <2>1 DEF Secure
  <2>3. Sole(c)'
    BY <1>1, <2>1 DEF Sole, NoNewHolder
  <2>4. Unsent(c)'
    BY <1>1, <2>1 DEF Unsent
  <2>5. QED
    BY <2>2, <2>3, <2>4
<1>4. QED
  BY <1>2, <1>3 DEF ClaimInv

\* Pruning and recording leave who holds an identifier secure: what is pruned
\* was out of date, and a new record outlives whoever holds its identifier.
LEMMA RecordedClaims ==
  ASSUME TypeOK, Lasting, ClaimInv, ForwardInv, NoNewHolder,
         UNCHANGED <<now, request, aged>>, CountAsNew(Expired),
         \A id \in Ids : memory'[id] \in {Pruned[id], Complete(now + Retention)}
  PROVE  ClaimInv' /\ ForwardInv'
<1>1. \A c \in Calls : Id(c)' = Id(c) /\ Id(c) \in Ids
  BY RequestId DEF Id
<1>2. \A id \in Ids :
        /\ id \in Expired => forwards'[id] = 0
        /\ id \notin Expired => forwards'[id] = forwards[id]
  BY DEF CountAsNew
<1>3. \A id \in Ids : id \notin Expired => Pruned[id] = memory[id]
  BY DEF Pruned
<1>4. Complete(now + Retention).status = "complete"
  BY DEF Complete
<1>5. ForwardInv'
  <2> SUFFICES ASSUME NEW id \in Ids
               PROVE  /\ forwards'[id] <= 1
                      /\ id \in Malformed \/ memory'[id].status = "absent" => forwards'[id] = 0
    BY DEF ForwardInv
  <2>1. CASE id \in Expired
    BY <1>2, <2>1
  <2>2. CASE id \notin Expired
    <3>1. forwards'[id] = forwards[id]
      BY <1>2, <2>2
    <3>2. memory'[id].status = "absent" => memory[id].status = "absent"
      BY <1>3, <1>4, <2>2
    <3>3. QED
      BY <3>1, <3>2 DEF ForwardInv
  <2>3. QED
    BY <2>1, <2>2
<1>6. ASSUME NEW c \in Calls, Holds(c)', Id(c)' \notin Malformed
      PROVE  Secure(c)' /\ Sole(c)' /\ Unsent(c)'
  <2>1. Secure(c) /\ Sole(c) /\ Unsent(c)
    BY <1>1, <1>6 DEF NoNewHolder, ClaimInv
  <2>2. Id(c) \notin Expired
    <3> SUFFICES ASSUME Id(c) \in Expired PROVE FALSE
      OBVIOUS
    <3>1. memory[Id(c)].status = "complete" /\ memory[Id(c)].expires <= now
      BY DEF Expired, Completed
    <3>2. memory[Id(c)].expires > now
      BY <2>1, <3>1 DEF Secure
    <3>3. memory[Id(c)] \in Entry
      BY <1>1 DEF TypeOK, StoreTypeOK
    <3>4. memory[Id(c)].expires \in Nat /\ now \in Nat
      BY <3>1, <3>3, EntryCases DEF Expiry, TypeOK, StoreTypeOK
    <3>5. QED
      BY <3>1, <3>2, <3>4
  <2>3. memory'[Id(c)] = memory[Id(c)] \/ memory'[Id(c)] = Complete(now + Retention)
    BY <1>1, <1>3, <2>2
  <2>4. Secure(c)'
    <3>1. CASE memory'[Id(c)] = memory[Id(c)]
      BY <1>1, <2>1, <3>1 DEF Secure
    <3>2. CASE memory'[Id(c)] = Complete(now + Retention)
      <4>1. memory'[Id(c)].status = "complete" /\ memory'[Id(c)].expires = now + Retention
        BY <3>2 DEF Complete
      <4>2. now + Retention > now /\ now + Retention > now + 1
        BY DEF Lasting, TypeOK, StoreTypeOK
      <4>3. QED
        BY <1>1, <4>1, <4>2 DEF Secure
    <3>3. QED
      BY <2>3, <3>1, <3>2
  <2>5. Sole(c)'
    BY <1>1, <2>1 DEF Sole, NoNewHolder
  <2>6. Unsent(c)'
    BY <1>1, <1>2, <2>1, <2>2 DEF Unsent
  <2>7. QED
    BY <2>4, <2>5, <2>6
<1>7. QED
  BY <1>5, <1>6 DEF ClaimInv

\* A claim is granted only where nobody holds the identifier.
LEMMA GrantedClaims ==
  ASSUME TypeOK, Lasting, ClaimInv, ForwardInv, TaskInv, NEW c \in Calls, ClaimGranted(c)
  PROVE  ClaimInv' /\ ForwardInv'
<1> DEFINE id == Id(c)
<1>1. /\ id \in Ids /\ Claimable(id) /\ handler[c] = "claim"
      /\ memory' = [Pruned EXCEPT ![id] = InFlight] /\ Forget(Expired)
      /\ UNCHANGED <<request, task, aged, now>>
  BY RequestId DEF ClaimGranted, Claim
<1>2. StoreTypeOK /\ Pruned \in [Ids -> Entry]
  BY Pruning DEF TypeOK
<1>3. \A d \in Calls : Id(d)' = Id(d) /\ Id(d) \in Ids
  BY <1>1, RequestId DEF Id
<1>4. \A d \in Calls : d # c => (Holds(d)' <=> Holds(d))
  <2>1. \E step \in Handler : Goto(c, step)
    BY DEF ClaimGranted, Handler, Opening, Atomic
  <2>2. \A d \in Calls : d # c => handler'[d] = handler[d]
    BY <2>1, GotoTypes
  <2>3. QED
    BY <1>1, <2>2 DEF Holds
<1>5. memory'[id] = InFlight /\ \A i \in Ids : i # id => memory'[i] = Pruned[i]
  BY <1>1, <1>2
<1>6. /\ InFlight.status = "inflight"
      /\ \A i \in Ids : i \notin Expired => Pruned[i] = memory[i]
  BY DEF InFlight, Pruned
<1>7. \A i \in Ids :
        /\ i \in Expired => forwards'[i] = 0
        /\ i \notin Expired => forwards'[i] = forwards[i]
  BY <1>1 DEF Forget, CountAsNew
<1>8. forwards'[id] = 0
  <2>1. CASE id \in Expired
    BY <1>1, <1>7, <2>1
  <2>2. CASE id \notin Expired
    <3>1. memory[id] = Absent
      BY <1>1, <1>6, <2>2 DEF Claimable
    <3>2. memory[id].status = "absent"
      BY <3>1 DEF Absent
    <3>3. QED
      BY <1>1, <1>7, <2>2, <3>2 DEF ForwardInv
  <2>3. QED
    BY <2>1, <2>2
<1>9. ASSUME NEW d \in Calls, Holds(d), Id(d) \notin Malformed
      PROVE  Id(d) \notin Expired /\ memory[Id(d)].status # "absent" /\ Id(d) # id
  <2>1. Secure(d) /\ Id(d) \in Ids
    BY <1>3, <1>9 DEF ClaimInv
  <2>2. memory[Id(d)] \in Entry
    BY <1>2, <2>1 DEF StoreTypeOK
  <2>3. Id(d) \notin Expired
    <3> SUFFICES ASSUME Id(d) \in Expired PROVE FALSE
      OBVIOUS
    <3>1. memory[Id(d)].status = "complete" /\ memory[Id(d)].expires <= now
      BY DEF Expired, Completed
    <3>2. memory[Id(d)].expires > now
      BY <2>1, <3>1 DEF Secure
    <3>3. memory[Id(d)].expires \in Nat /\ now \in Nat
      BY <2>2, <3>1, EntryCases DEF Expiry, TypeOK, StoreTypeOK
    <3>4. QED
      BY <3>1, <3>2, <3>3
  <2>4. Pruned[Id(d)] # Absent
    BY <1>6, <2>1, <2>3 DEF Secure, Absent
  <2>5. QED
    BY <1>1, <2>1, <2>3, <2>4 DEF Secure, Claimable
<1>10. ForwardInv'
  <2> SUFFICES ASSUME NEW i \in Ids
               PROVE  /\ forwards'[i] <= 1
                      /\ i \in Malformed \/ memory'[i].status = "absent" => forwards'[i] = 0
    BY DEF ForwardInv
  <2>1. CASE i = id \/ i \in Expired
    BY <1>7, <1>8, <2>1
  <2>2. CASE i # id /\ i \notin Expired
    BY <1>5, <1>6, <1>7, <2>2 DEF ForwardInv
  <2>3. QED
    BY <2>1, <2>2
<1>11. ASSUME NEW d \in Calls, Holds(d)', Id(d)' \notin Malformed
       PROVE  Secure(d)' /\ Sole(d)' /\ Unsent(d)'
  <2>1. Id(d) \notin Malformed
    BY <1>3, <1>11
  <2>2. CASE d = c
    <3>1. Secure(d)'
      BY <1>3, <1>5, <1>6, <2>2 DEF Secure
    <3>2. Sole(d)'
      <4> SUFFICES ASSUME NEW e \in Calls, Holds(e)', Id(e) = id, e # c
                   PROVE  FALSE
        BY <1>3, <2>2 DEF Sole
      <4>1. Holds(e) /\ Id(e) \notin Malformed
        BY <1>4, <2>1, <2>2
      <4>2. QED
        BY <1>9, <4>1
    <3>3. Unsent(d)'
      BY <1>3, <1>8, <2>2 DEF Unsent
    <3>4. QED
      BY <3>1, <3>2, <3>3
  <2>3. CASE d # c
    <3>1. Holds(d)
      BY <1>4, <1>11, <2>3
    <3>2. /\ Secure(d) /\ Sole(d) /\ Unsent(d)
          /\ Id(d) \notin Expired /\ Id(d) # id
      BY <1>9, <2>1, <3>1 DEF ClaimInv
    <3>3. memory'[Id(d)] = memory[Id(d)] /\ forwards'[Id(d)] = forwards[Id(d)]
      BY <1>3, <1>5, <1>6, <1>7, <3>2
    <3>4. Secure(d)'
      BY <1>1, <1>3, <3>2, <3>3 DEF Secure
    <3>5. Sole(d)'
      BY <1>3, <1>4, <3>2 DEF Sole
    <3>6. Unsent(d)'
      BY <1>3, <3>2, <3>3 DEF Unsent
    <3>7. QED
      BY <3>4, <3>5, <3>6
  <2>4. QED
    BY <2>2, <2>3
<1>12. QED
  BY <1>10, <1>11 DEF ClaimInv

\* An opening that gives its claim back has sent nothing, and nobody else holds
\* the identifier whose entry it removes.
LEMMA AbandonedClaims ==
  ASSUME TypeOK, ClaimInv, ForwardInv, TaskInv, NEW c \in Calls,
         AbandonOpen(c) \/ AtomicFails(c)
  PROVE  ClaimInv' /\ ForwardInv'
<1> DEFINE id == Id(c)
<1>1. /\ id \in Ids
      /\ memory' = [memory EXCEPT ![id] = Absent]
      /\ UNCHANGED <<request, task, now, aged, forwards>>
  BY RequestId DEF AbandonOpen, AtomicFails, Abandon, historyVars
<1>2. memory'[id] = Absent /\ \A i \in Ids : i # id => memory'[i] = memory[i]
  BY <1>1 DEF TypeOK, StoreTypeOK
<1>3. \A d \in Calls : Id(d)' = Id(d) /\ Id(d) \in Ids
  BY <1>1, RequestId DEF Id
<1>4. /\ handler'[c] \in {"rejected", "record"}
      /\ \A d \in Calls : d # c => handler'[d] = handler[d]
  <2>1. "rejected" \in Handler /\ "record" \in Handler
    BY DEF Handler, Replies, Atomic
  <2>2. Goto(c, "rejected") \/ Goto(c, "record")
    BY DEF AbandonOpen, AtomicFails
  <2>3. QED
    BY <2>1, <2>2, GotoTypes
<1>5. ~ Holds(c)'
  <2>1. handler[c] \in {"abandon", "forward"}
    BY DEF AbandonOpen, AtomicFails, At
  <2>2. task'[c] \notin {"waiting", "started"}
    BY <1>1, <2>1 DEF TaskInv
  <2>3. QED
    BY <1>4, <2>2 DEF Holds, Opening
<1>6. NoNewHolder
  BY <1>1, <1>4, <1>5 DEF NoNewHolder, Holds
<1>7. id \in Malformed \/ (Sole(c) /\ Unsent(c))
  <2>1. CASE AbandonOpen(c)
    <3>1. Holds(c)
      BY <2>1 DEF AbandonOpen, At, Holds, Opening
    <3>2. QED
      BY <3>1 DEF ClaimInv
  <2>2. CASE AtomicFails(c)
    BY <2>2 DEF AtomicFails
  <2>3. QED
    BY <2>1, <2>2
<1>8. ForwardInv'
  <2> SUFFICES ASSUME NEW i \in Ids
               PROVE  /\ forwards[i] <= 1
                      /\ i \in Malformed \/ memory'[i].status = "absent" => forwards[i] = 0
    BY <1>1 DEF ForwardInv
  <2>1. CASE i = id
    <3>1. forwards[i] <= 1 /\ (i \in Malformed => forwards[i] = 0)
      BY DEF ForwardInv
    <3>2. i \notin Malformed => forwards[i] = 0
      BY <1>7, <2>1 DEF Unsent
    <3>3. QED
      BY <3>1, <3>2
  <2>2. CASE i # id
    BY <1>2, <2>2 DEF ForwardInv
  <2>3. QED
    BY <2>1, <2>2
<1>9. ASSUME NEW d \in Calls, Holds(d)', Id(d)' \notin Malformed
      PROVE  Secure(d)' /\ Sole(d)' /\ Unsent(d)'
  <2>1. Holds(d) /\ d # c /\ Id(d) \notin Malformed
    BY <1>3, <1>5, <1>6, <1>9 DEF NoNewHolder
  <2>2. Secure(d) /\ Sole(d) /\ Unsent(d)
    BY <2>1 DEF ClaimInv
  <2>3. Id(d) # id
    BY <1>7, <2>1 DEF Sole
  <2>4. memory'[Id(d)] = memory[Id(d)]
    BY <1>2, <1>3, <2>3
  <2>5. Secure(d)'
    BY <1>1, <1>3, <2>2, <2>4 DEF Secure
  <2>6. Sole(d)'
    BY <1>3, <1>6, <2>2 DEF Sole, NoNewHolder
  <2>7. Unsent(d)'
    BY <1>1, <1>3, <2>2 DEF Unsent
  <2>8. QED
    BY <2>5, <2>6, <2>7
<1>10. QED
  BY <1>8, <1>9 DEF ClaimInv

\* The request of an identifier goes out: it had not been sent, and whoever held
\* the identifier does not hold it any more.
LEMMA ForwardedClaims ==
  ASSUME TypeOK, ClaimInv, ForwardInv, TaskInv, NEW c \in Calls,
         TaskForward(c) \/ AtomicForward(c)
  PROVE  ClaimInv' /\ ForwardInv'
<1> DEFINE id == Id(c)
<1>1. /\ id \in Ids /\ id \notin Malformed
      /\ Forward(id)
      /\ UNCHANGED <<memory, now, request, aged>>
  BY RequestId DEF TaskForward, AtomicForward, storeVars
<1>2. /\ forwards'[id] = forwards[id] + 1
      /\ \A i \in Ids : i # id => forwards'[i] = forwards[i]
  BY <1>1 DEF Forward, TypeOK
<1>3. \A d \in Calls : Id(d)' = Id(d) /\ Id(d) \in Ids
  BY <1>1, RequestId DEF Id
<1>4. /\ ~ Holds(c)'
      /\ \A d \in Calls : d # c => handler'[d] = handler[d] /\ task'[d] = task[d]
  <2>1. CASE TaskForward(c)
    <3>1. handler' = handler /\ TaskGoto(c, "upstream") /\ "upstream" \in Task
      BY <2>1 DEF TaskForward, Task
    <3>2. handler[c] = "accepted"
      BY <2>1 DEF TaskForward, TaskInv
    <3>3. task'[c] = "upstream" /\ \A d \in Calls : d # c => task'[d] = task[d]
      BY <3>1, TaskGotoTypes
    <3>4. QED
      BY <3>1, <3>2, <3>3 DEF Holds, Opening
  <2>2. CASE AtomicForward(c)
    <3>1. task' = task /\ Goto(c, "upstream") /\ "upstream" \in Handler
      BY <2>2 DEF AtomicForward, Handler, Atomic
    <3>2. task[c] \notin {"waiting", "started"}
      BY <2>2 DEF AtomicForward, At, TaskInv
    <3>3. handler'[c] = "upstream" /\ \A d \in Calls : d # c => handler'[d] = handler[d]
      BY <3>1, GotoTypes
    <3>4. QED
      BY <3>1, <3>2, <3>3 DEF Holds, Opening
  <2>3. QED
    BY <2>1, <2>2
<1>5. NoNewHolder
  BY <1>4 DEF NoNewHolder, Holds
<1>6. Holds(c)
  BY DEF TaskForward, AtomicForward, At, Holds
<1>7. Secure(c) /\ Sole(c) /\ Unsent(c)
  BY <1>1, <1>6 DEF ClaimInv
<1>8. ForwardInv'
  <2> SUFFICES ASSUME NEW i \in Ids
               PROVE  /\ forwards'[i] <= 1
                      /\ i \in Malformed \/ memory[i].status = "absent" => forwards'[i] = 0
    BY <1>1 DEF ForwardInv
  <2>1. CASE i = id
    <3>1. forwards[id] = 0 /\ memory[id].status # "absent"
      BY <1>7 DEF Secure, Unsent
    <3>2. forwards'[i] = 1
      BY <1>2, <2>1, <3>1
    <3>3. QED
      BY <1>1, <2>1, <3>1, <3>2
  <2>2. CASE i # id
    BY <1>2, <2>2 DEF ForwardInv
  <2>3. QED
    BY <2>1, <2>2
<1>9. ASSUME NEW d \in Calls, Holds(d)', Id(d)' \notin Malformed
      PROVE  Secure(d)' /\ Sole(d)' /\ Unsent(d)'
  <2>1. Holds(d) /\ d # c /\ Id(d) \notin Malformed
    BY <1>3, <1>4, <1>5, <1>9 DEF NoNewHolder
  <2>2. Secure(d) /\ Sole(d) /\ Unsent(d)
    BY <2>1 DEF ClaimInv
  <2>3. Id(d) # id
    BY <1>7, <2>1 DEF Sole
  <2>4. Secure(d)'
    BY <1>1, <1>3, <2>2 DEF Secure
  <2>5. Sole(d)'
    BY <1>3, <1>5, <2>2 DEF Sole, NoNewHolder
  <2>6. Unsent(d)'
    BY <1>2, <1>3, <2>2, <2>3 DEF Unsent
  <2>7. QED
    BY <2>4, <2>5, <2>6
<1>10. QED
  BY <1>8, <1>9 DEF ClaimInv

\* Whoever holds an identifier over a tick has held it since the tick before.
LEMMA TickClaims ==
  ASSUME TypeOK, ClaimInv, ForwardInv, Tick
  PROVE  ClaimInv' /\ ForwardInv'
<1>1. /\ aged \cap Brief = {} /\ now' = now + 1 /\ aged' = Brief
      /\ UNCHANGED <<memory, request, handler, task, forwards>>
  BY DEF Tick, bridgeVars
<1>2. ForwardInv'
  BY <1>1 DEF ForwardInv
<1>3. ASSUME NEW c \in Calls, Holds(c)', Id(c)' \notin Malformed
      PROVE  Secure(c)' /\ Sole(c)' /\ Unsent(c)'
  <2>1. Holds(c) /\ Id(c)' = Id(c)
    BY <1>1, <1>3 DEF Holds, Id
  <2>2. Secure(c) /\ Sole(c) /\ Unsent(c)
    BY <1>3, <2>1 DEF ClaimInv
  <2>3. c \in Brief
    BY <2>1 DEF Holds, Brief, Opening, Atomic
  <2>4. c \notin aged /\ c \in aged'
    BY <1>1, <2>3
  <2>5. Secure(c)'
    BY <1>1, <2>1, <2>2, <2>4 DEF Secure
  <2>6. Sole(c)' /\ Unsent(c)'
    BY <1>1, <2>2 DEF Sole, Unsent, Id, Holds
  <2>7. QED
    BY <2>5, <2>6
<1>4. QED
  BY <1>2, <1>3 DEF ClaimInv

LEMMA RestartClaims ==
  ASSUME TypeOK, Roomy, DiskInv, ForwardInv, Restart
  PROVE  ClaimInv' /\ ForwardInv'
<1>1. \A c \in Calls : ~ Holds(c)'
  BY DEF Restart, Holds, Opening, Replies
<1>2. \A id \in Ids : forwards'[id] = 0 \/ forwards'[id] = forwards[id]
  BY RestartDisk
<1>3. \A id \in Ids : memory'[id].status = "absent" => forwards'[id] = 0
  BY RestartDisk
<1>4. ForwardInv'
  BY <1>2, <1>3 DEF ForwardInv
<1>5. QED
  BY <1>1, <1>4 DEF ClaimInv

\* A handler that goes from one step of an opening to another, or out of it,
\* and a task that is past its start or taken away.
LEMMA HandlerHolds ==
  ASSUME TypeOK, NEW c \in Calls, task' = task, NEW step \in Handler, Goto(c, step),
         step \in Opening \cup {"forward"} => handler[c] \in Opening \cup {"forward"}
  PROVE  NoNewHolder
  BY GotoTypes DEF NoNewHolder, Holds

LEMMA TaskHolds ==
  ASSUME TypeOK, NEW c \in Calls, handler' = handler,
         \A d \in Calls : d # c => task'[d] = task[d],
         task'[c] = task[c] \/ task'[c] \notin {"waiting", "started"}
  PROVE  NoNewHolder
  BY DEF NoNewHolder, Holds

LEMMA RecordClaims ==
  ASSUME TypeOK, Roomy, Lasting, ClaimInv, ForwardInv, NoNewHolder,
         NEW w \in Writers, NEW id \in Ids, Record(w, id), UNCHANGED <<request, aged>>
  PROVE  ClaimInv' /\ ForwardInv'
<1>1. /\ memory' = [Pruned EXCEPT ![id] = Complete(now + Retention)]
      /\ now' = now /\ CountAsNew(Expired)
  BY RecordAdds
<1>2. Pruned \in [Ids -> Entry]
  BY Pruning DEF TypeOK
<1>3. \A i \in Ids : memory'[i] \in {Pruned[i], Complete(now + Retention)}
  BY <1>1, <1>2
<1>4. QED
  BY <1>1, <1>3, RecordedClaims

LEMMA LookupClaims ==
  ASSUME TypeOK, Lasting, ClaimInv, ForwardInv, NoNewHolder,
         Lookup, Forget(Expired), UNCHANGED <<request, aged>>
  PROVE  ClaimInv' /\ ForwardInv'
<1>1. now' = now /\ \A i \in Ids : memory'[i] \in {Pruned[i], Complete(now + Retention)}
  BY DEF Lookup
<1>2. QED
  BY <1>1, RecordedClaims DEF Forget

LEMMA HandlerClaims ==
  ASSUME TypeOK, Roomy, Lasting, ClaimInv, ForwardInv, TaskInv, NEW c \in Calls,
         \/ ClaimGranted(c) \/ ClaimRefused(c) \/ HandleOpen(c) \/ HandleAtomic(c)
         \/ Arrive(c) \/ AtomicTimeout(c)
  PROVE  ClaimInv' /\ ForwardInv'
<1> USE DEF storeVars, historyVars, bridgeVars
<1>1. CASE ClaimRefused(c) \/ AtomicTimeout(c)
  <2>1. /\ Lookup /\ Forget(Expired) /\ UNCHANGED <<request, aged, task>>
        /\ \E step \in Handler \ (Opening \cup {"forward"}) : Goto(c, step)
    BY <1>1 DEF ClaimRefused, AtomicTimeout, NotClaimed, Handler, Replies, Opening
  <2>2. NoNewHolder
    BY <2>1, HandlerHolds
  <2>3. QED
    BY <2>1, <2>2, LookupClaims
<1>2. CASE AtomicRecord(c)
  <2>1. Record(c, Id(c)) /\ Goto(c, "writing") /\ UNCHANGED <<request, aged, task>>
    BY <1>2 DEF AtomicRecord
  <2>2. NoNewHolder
    BY <2>1, HandlerHolds DEF Handler, Atomic, Opening
  <2>3. QED
    BY <2>1, <2>2, RecordClaims, RequestId
<1>3. CASE \/ Arrive(c) \/ LookUpOpen(c) \/ OpenFails(c) \/ Insert(c) \/ ReplyFails(c)
           \/ UndoEntry(c) \/ AtomicResponse(c) \/ AtomicReply(c)
  <2>1. /\ UNCHANGED <<memory, now, request, aged, forwards, task>>
        /\ \E step \in Handler :
             /\ Goto(c, step)
             /\ step \in Opening \cup {"forward"} => handler[c] \in Opening \cup {"forward"}
    BY <1>3 DEF Arrive, LookUpOpen, OpenFails, Insert, ReplyFails, UndoEntry, AtomicResponse,
       AtomicReply, At, Handler, Opening, Atomic, Replies
  <2>2. NoNewHolder
    BY <2>1, HandlerHolds
  <2>3. QED
    BY <2>1, <2>2, SameClaims
<1>4. CASE Spawn(c) \/ ReplyAccepted(c) \/ UndoTask(c)
  <2>1. /\ UNCHANGED <<memory, now, request, aged, forwards>>
        /\ handler[c] \in Opening
        /\ \E step \in Handler : Goto(c, step)
    BY <1>4 DEF Spawn, ReplyAccepted, UndoTask, At, Handler, Opening, Replies
  <2>2. \A d \in Calls : d # c => handler'[d] = handler[d]
    BY <2>1, GotoTypes
  <2>3. \A d \in Calls : d # c => task'[d] = task[d]
    <3>1. CASE UndoTask(c)
      BY <3>1, TakeTaskPost DEF UndoTask
    <3>2. CASE Spawn(c) \/ ReplyAccepted(c)
      BY <3>2 DEF Spawn, ReplyAccepted, TaskGoto, TypeOK
    <3>3. QED
      BY <1>4, <3>1, <3>2
  <2>4. NoNewHolder
    BY <2>1, <2>2, <2>3 DEF NoNewHolder, Holds
  <2>5. QED
    BY <2>1, <2>4, SameClaims
<1>5. QED
  BY <1>1, <1>2, <1>3, <1>4, GrantedClaims, AbandonedClaims, ForwardedClaims
  DEF HandleOpen, HandleAtomic

LEMMA TaskClaims ==
  ASSUME TypeOK, Roomy, Lasting, ClaimInv, ForwardInv, TaskInv, NEW c \in Calls, RunTask(c)
  PROVE  ClaimInv' /\ ForwardInv'
<1> USE DEF storeVars, historyVars
<1>1. CASE TaskForward(c)
  BY <1>1, ForwardedClaims
<1>2. CASE UpstreamEnds(c) \/ TaskDeregister(c) \/ TaskDone(c) \/ TaskRecord(c)
  <2>1. /\ UNCHANGED <<request, aged, handler>>
        /\ \E step \in Task \ {"waiting", "started"} : TaskGoto(c, step)
    BY <1>2 DEF UpstreamEnds, TaskDeregister, TaskDone, TaskRecord, Task
  <2>2. NoNewHolder
    BY <2>1, TaskGotoTypes, TaskHolds
  <2>3. CASE TaskRecord(c)
    BY <2>1, <2>2, <2>3, RecordClaims, RequestId DEF TaskRecord
  <2>4. CASE UpstreamEnds(c) \/ TaskDeregister(c) \/ TaskDone(c)
    <3>1. UNCHANGED <<memory, now, forwards>>
      BY <2>4 DEF UpstreamEnds, TaskDeregister, TaskDone
    <3>2. QED
      BY <2>1, <2>2, <3>1, SameClaims
  <2>5. QED
    BY <1>2, <2>3, <2>4
<1>3. QED
  BY <1>1, <1>2 DEF RunTask

LEMMA LoopClaims ==
  ASSUME TypeOK, Roomy, Lasting, ClaimInv, ForwardInv,
         \/ \E id \in Ids : Cancel(id)
         \/ RouteDies \/ LookUpMessage \/ RunLoop
  PROVE  ClaimInv' /\ ForwardInv'
<1> USE DEF storeVars, historyVars, bridgeVars
<1>1. UNCHANGED <<handler, task>> => NoNewHolder
  BY DEF NoNewHolder, Holds
<1>2. CASE LookUpMessage
  BY <1>1, <1>2, LookupClaims DEF LookUpMessage
<1>3. loop # Idle => loop.call \in Calls
  BY LoopStep
<1>4. CASE LoopRecord
  <2>1. loop.call \in Calls
    BY <1>3, <1>4 DEF LoopRecord, Idle
  <2>2. UNCHANGED <<handler, task, request, aged>> /\ Record(EventLoop, Id(loop.call))
    BY <1>4 DEF LoopRecord
  <2>3. QED
    BY <1>1, <2>1, <2>2, RequestId, RecordClaims
<1>5. CASE LoopAbort
  <2>1. loop.call \in Calls
    BY <1>3, <1>5 DEF LoopAbort, Idle
  <2>2. /\ UNCHANGED <<memory, now, request, aged, forwards, handler>>
        /\ TakeTask(loop.call)
    BY <1>5 DEF LoopAbort
  <2>3. NoNewHolder
    BY <2>1, <2>2, TakeTaskPost, TaskHolds
  <2>4. QED
    BY <2>2, <2>3, SameClaims
<1>6. CASE \/ \E id \in Ids : Cancel(id)
           \/ RouteDies \/ LoopDone \/ \E c \in Calls : NextDoomed(c)
  <2>1. UNCHANGED <<memory, now, request, aged, forwards, handler, task>>
    BY <1>6 DEF Cancel, RouteDies, LoopDone, NextDoomed
  <2>2. QED
    BY <1>1, <2>1, SameClaims
<1>7. QED
  BY <1>2, <1>4, <1>5, <1>6 DEF RunLoop

LEMMA FileClaims ==
  ASSUME TypeOK, WriteInv, ClaimInv, ForwardInv, NEW w \in Writers, WriteStep(w)
  PROVE  ClaimInv' /\ ForwardInv'
<1>1. UNCHANGED <<memory, now, request, aged, forwards, handler, task>>
  BY NothingToRemove
  DEF WriteStep, WriteTemporary, WriteFile, WriteFails, RemoveFile, CreateTemporary,
      FillTemporary, Overwrite, Rename, PersistFails, bridgeVars, historyVars
<1>2. NoNewHolder
  BY <1>1 DEF NoNewHolder, Holds
<1>3. QED
  BY <1>1, <1>2, SameClaims

LEMMA ClaimsStep ==
  ASSUME TypeOK, Roomy, Lasting, WriteInv, DiskInv, TaskInv, ClaimInv, ForwardInv, [Next]_vars
  PROVE  ClaimInv' /\ ForwardInv'
<1>1. CASE UNCHANGED vars
  <2>1. UNCHANGED <<memory, now, request, aged, forwards, handler, task>>
    BY <1>1 DEF vars, storeVars, bridgeVars, historyVars
  <2>2. NoNewHolder
    BY <2>1 DEF NoNewHolder, Holds
  <2>3. QED
    BY <2>1, <2>2, SameClaims
<1>2. CASE Next
  BY <1>2, HandlerClaims, TaskClaims, LoopClaims, FileClaims, TickClaims, RestartClaims
  DEF Next, Progress, Environment
<1>3. QED
  BY <1>1, <1>2

------------------------------------------------------------------------------
(* The files of a record                                                   *)

\* The identifiers whose file the property is about.  One that was retained keeps
\* its file when it is abandoned, so they are not all in memory.
Settled(id) == id \notin raced /\ (id \in Completed(memory) \/ id \in saved)

\* The only call that has still to write the file of id, or to remove it, is one
\* that writes a record of id from its beginning to its end.
Alone(id) ==
  /\ \A w \in Writers : Touches(w, id) =>
       /\ write[w].step \in {"disk", "filling", "rename"}
       /\ write[w].id = id /\ id \notin write[w].evicted
       /\ write[w].step = "filling" => temporary[id] = Torn
       /\ write[w].step = "rename" => temporary[id] \in Expiry
  /\ \A v, w \in Writers : Touches(v, id) /\ Touches(w, id) => v = w
  /\ id \in saved => file[id] \in Expiry

AloneInv == \A id \in Ids : Settled(id) => Alone(id)

LEMMA KeptAlone ==
  ASSUME NEW id \in Ids, Alone(id),
         \A v \in Writers : Touches(v, id)' => Touches(v, id) /\ write'[v] = write[v],
         temporary'[id] = temporary[id], file'[id] = file[id], id \in saved' => id \in saved
  PROVE  Alone(id)'
  BY DEF Alone

\* The steps that neither record nor write.
LEMMA SameAlone ==
  ASSUME AloneInv, UNCHANGED <<write, temporary>>,
         \A id \in Ids : Settled(id)' =>
           Settled(id) /\ file'[id] = file[id] /\ (id \in saved' => id \in saved)
  PROVE  AloneInv'
<1> SUFFICES ASSUME NEW id \in Ids, Settled(id)' PROVE Alone(id)'
  BY DEF AloneInv
<1>1. Alone(id)
  BY DEF AloneInv
<1>2. \A v \in Writers : Touches(v, id)' => Touches(v, id) /\ write'[v] = write[v]
  BY DEF Touches
<1>3. QED
  BY <1>1, <1>2, KeptAlone

LEMMA StoredAlone ==
  ASSUME AloneInv, UNCHANGED <<memory, file, temporary, write, saved, raced>>
  PROVE  AloneInv'
<1>1. \A id \in Ids : Settled(id)' => Settled(id)
  BY DEF Settled, Completed
<1>2. QED
  BY <1>1, SameAlone

\* Pruning makes no file one to be kept.
LEMMA PrunedAlone ==
  ASSUME TypeOK, AloneInv, UNCHANGED <<write, temporary>>, PruneFiles, Forget(Expired),
         \A id \in Ids : memory'[id] \in {Pruned[id], InFlight}
  PROVE  AloneInv'
<1>1. ASSUME NEW id \in Ids, Settled(id)'
      PROVE  Settled(id) /\ file'[id] = file[id] /\ (id \in saved' => id \in saved)
  <2>1. Absent.status # "complete" /\ InFlight.status # "complete"
    BY DEF Absent, InFlight
  <2>2. id \in Completed(memory)' => id \in Completed(memory) /\ id \notin Expired
    BY <2>1 DEF Completed, Pruned
  <2>3. id \in saved' => id \in saved /\ id \notin Expired
    BY DEF Forget, CountAsNew
  <2>4. id \notin Expired
    BY <1>1, <2>2, <2>3 DEF Settled
  <2>5. id \notin raced
    BY <1>1, <2>4 DEF Settled, Forget
  <2>6. file'[id] = file[id]
    BY <2>4 DEF PruneFiles
  <2>7. QED
    BY <1>1, <2>2, <2>3, <2>5, <2>6 DEF Settled
<1>2. QED
  BY <1>1, SameAlone

LEMMA AbandonAlone ==
  ASSUME TypeOK, AloneInv, NEW i \in Ids, Abandon(i), UNCHANGED <<saved, raced>>
  PROVE  AloneInv'
<1>1. memory' = [memory EXCEPT ![i] = Absent] /\ UNCHANGED <<file, write, temporary>>
  BY DEF Abandon
<1>2. \A id \in Ids : id \in Completed(memory)' => id \in Completed(memory)
  BY <1>1 DEF Completed, Absent, TypeOK, StoreTypeOK
<1>3. \A id \in Ids : Settled(id)' => Settled(id)
  BY <1>2 DEF Settled
<1>4. QED
  BY <1>1, <1>3, SameAlone

\* A record call starts alone or its identifier is raced; what it evicts is no
\* longer retained.
LEMMA RecordAlone ==
  ASSUME TypeOK, AloneInv, NEW w \in Writers, NEW i \in Ids, Record(w, i)
  PROVE  AloneInv'
<1>1. PICK evicted \in SUBSET Ids :
        /\ RecordInMemory(w, i, evicted)
        /\ CountAsNew(Expired \cup (evicted \ Executing(memory)))
        /\ raced' = (raced \ (Expired \cup (evicted \ Executing(memory))))
                      \cup {x \in {i} : \E v \in Writers : Touches(v, i)}
  BY DEF Record
<1> DEFINE forgotten == Expired \cup (evicted \ Executing(memory))
<1> DEFINE e == now + Retention
<1> DEFINE m == [Pruned EXCEPT ![i] = Complete(e)]
<1>2. /\ evicted \in Evictable(m, {i})
      /\ memory' = Without(m, evicted)
      /\ write' = [write EXCEPT ![w] = Writing("disk", i, e, evicted)]
      /\ PruneFiles /\ temporary' = temporary
  BY <1>1 DEF RecordInMemory
<1>3. evicted \subseteq Completed(m) /\ i \notin evicted
  BY <1>2 DEF Evictable, Oldest
<1>4. \A id \in saved' : id \in saved /\ id \notin forgotten
  BY <1>1 DEF CountAsNew
<1>5. \A id \in Ids : id \notin raced' /\ id \notin forgotten => id \notin raced
  BY <1>1
<1>6. \A id \in Ids : id \notin Expired => file'[id] = file[id]
  BY <1>2 DEF PruneFiles
<1>7. /\ \A v \in Writers : v # w => write'[v] = write[v]
      /\ write'[w] = Writing("disk", i, e, evicted)
  BY <1>2 DEF TypeOK, StoreTypeOK
<1>8. /\ write'[w].step = "disk" /\ write'[w].id = i /\ write'[w].evicted = evicted
  BY <1>7 DEF Writing
<1>9. \A id \in Ids : id # i => m[id] = Pruned[id]
  BY Pruning DEF TypeOK
<1>10. \A id \in Ids :
         Pruned[id].status = "complete" => id \in Completed(memory) /\ id \notin Expired
  BY DEF Pruned, Completed, Absent
<1> HIDE DEF m, e
<1>11. ASSUME Settled(i)'
       PROVE  Alone(i)'
  <2>1. \A v \in Writers : ~ Touches(v, i)
    BY <1>1, <1>11 DEF Settled
  <2>2. \A v \in Writers : v # w => ~ Touches(v, i)'
    BY <1>7, <2>1 DEF Touches
  <2>3. i \in saved' => file'[i] \in Expiry
    <3> SUFFICES ASSUME i \in saved' PROVE file'[i] \in Expiry
      OBVIOUS
    <3>1. i \in saved /\ i \notin forgotten /\ i \notin raced
      BY <1>4, <1>5, <1>11 DEF Settled
    <3>2. file[i] \in Expiry
      BY <3>1 DEF Settled, AloneInv, Alone
    <3>3. QED
      BY <1>6, <3>1, <3>2
  <2>4. QED
    BY <1>3, <1>8, <2>2, <2>3 DEF Alone
<1>12. ASSUME NEW id \in Ids, id # i, Settled(id)'
       PROVE  Alone(id)'
  <2>1. id \in Completed(memory)' =>
          id \in Completed(memory) /\ id \notin Expired /\ id \notin evicted
    <3> SUFFICES ASSUME memory'[id].status = "complete"
                 PROVE  id \in Completed(memory) /\ id \notin Expired /\ id \notin evicted
      BY DEF Completed
    <3>1. id \notin evicted
      BY <1>2 DEF Without, Absent
    <3>2. memory'[id] = Pruned[id]
      BY <1>2, <1>9, <1>12, <3>1 DEF Without
    <3>3. QED
      BY <1>10, <3>1, <3>2
  <2>2. id \in saved' => id \in saved /\ id \notin Expired /\ id \notin evicted
    <3> SUFFICES ASSUME id \in saved' PROVE id \in saved /\ id \notin Expired /\ id \notin evicted
      OBVIOUS
    <3>1. id \in saved /\ id \notin forgotten
      BY <1>4
    <3>2. id \in evicted => Pruned[id].status = "complete"
      BY <1>3, <1>9, <1>12 DEF Completed
    <3>3. id \in evicted => id \notin Executing(memory)
      BY <1>10, <3>2 DEF Completed, Executing
    <3>4. QED
      BY <3>1, <3>3
  <2>3. id \notin Expired /\ id \notin evicted
    BY <1>12, <2>1, <2>2 DEF Settled
  <2>4. Settled(id)
    BY <1>5, <1>12, <2>1, <2>2, <2>3 DEF Settled
  <2>5. Alone(id)
    BY <2>4 DEF AloneInv
  <2>6. ~ Touches(w, id)'
    BY <1>8, <1>12, <2>3 DEF Touches
  <2>7. \A v \in Writers : Touches(v, id)' => Touches(v, id) /\ write'[v] = write[v]
    BY <1>7, <2>6 DEF Touches
  <2>8. QED
    BY <1>2, <1>6, <2>2, <2>3, <2>5, <2>7, KeptAlone
<1>13. QED
  BY <1>11, <1>12 DEF AloneInv

\* A call that writes its file disturbs no file but its own.
LEMMA TemporaryAlone ==
  ASSUME TypeOK, AloneInv, NEW w \in Writers,
         NEW i \in Ids, write[w].id = i,
         CreateTemporary(w) \/ FillTemporary(w) \/ Overwrite(w),
         UNCHANGED <<saved, raced>>
  PROVE  AloneInv'
<1>1. StoreTypeOK /\ memory' = memory
  BY DEF CreateTemporary, FillTemporary, Overwrite, TypeOK
<1>2. PICK step \in Persisting : WriteGoto(w, step)
  BY DEF CreateTemporary, FillTemporary, Overwrite, Persisting
<1>3. write[w].step \in Persisting
  BY DEF CreateTemporary, FillTemporary, Overwrite, Persisting
<1>4. /\ write[w] \in [step : Persisting \cup {"cleanup"}, id : Ids, expires : Expiry,
                       evicted : SUBSET Ids]
      /\ i \in Ids /\ write[w].expires \in Expiry
  BY <1>1, <1>3, WriterFields
<1>5. /\ write'[w] = [write[w] EXCEPT !.step = step]
      /\ \A v \in Writers : v # w => write'[v] = write[v]
  BY <1>1, <1>2, <1>3, WriteGotoTypes
<1>6. write'[w].step = step /\ write'[w].id = i /\ write'[w].evicted = write[w].evicted
  BY <1>4, <1>5
<1>7. \A v \in Writers, id \in Ids : Touches(v, id)' => Touches(v, id)
  BY <1>3, <1>5, <1>6 DEF Touches
<1>8. Touches(w, i)
  BY <1>3 DEF Touches
<1>9. ASSUME NEW id \in Ids, Settled(id)', id # i
      PROVE  Alone(id)'
  <2>1. Alone(id)
    BY <1>1, <1>9 DEF AloneInv, Settled, Completed
  <2>2. ~ Touches(w, id)
    BY <1>9, <2>1 DEF Alone
  <2>3. \A v \in Writers : Touches(v, id)' => Touches(v, id) /\ write'[v] = write[v]
    BY <1>5, <1>7, <2>2
  <2>4. temporary'[id] = temporary[id] /\ file'[id] = file[id]
    BY <1>1, <1>4, <1>9 DEF CreateTemporary, FillTemporary, Overwrite, StoreTypeOK
  <2>5. QED
    BY <2>1, <2>3, <2>4, KeptAlone
<1>10. ASSUME Settled(i)'
       PROVE  Alone(i)'
  <2>1. Alone(i)
    BY <1>1, <1>4, <1>10 DEF AloneInv, Settled, Completed
  <2>2. i \notin write[w].evicted /\ \A v \in Writers : Touches(v, i) => v = w
    BY <1>8, <2>1 DEF Alone
  <2>3. ~ Overwrite(w) /\ file' = file
    BY <1>8, <2>1 DEF Alone, Overwrite, CreateTemporary, FillTemporary
  <2>4. CASE CreateTemporary(w)
    <3>1. write'[w].step = "filling" /\ temporary'[i] = Torn
      BY <1>1, <1>4, <2>4 DEF CreateTemporary, WriteGoto, StoreTypeOK
    <3>2. QED
      BY <1>6, <1>7, <2>1, <2>2, <2>3, <3>1 DEF Alone
  <2>5. CASE FillTemporary(w)
    <3>1. temporary[i] = Torn /\ Torn \notin Expiry
      BY <1>8, <2>1, <2>5 DEF Alone, FillTemporary, Torn, Expiry
    <3>2. Filled(temporary[i], write[w].expires) = {write[w].expires}
      BY <3>1 DEF Filled
    <3>3. write'[w].step = "rename" /\ temporary'[i] \in Expiry
      BY <1>1, <1>4, <2>5, <3>2 DEF FillTemporary, WriteGoto, StoreTypeOK
    <3>4. QED
      BY <1>6, <1>7, <2>1, <2>2, <2>3, <3>3 DEF Alone
  <2>6. QED
    BY <2>3, <2>4, <2>5
<1>11. QED
  BY <1>9, <1>10 DEF AloneInv

\* The file that a call alone has written is whole.
LEMMA RenameAlone ==
  ASSUME TypeOK, AloneInv, NEW w \in Writers, NEW i \in Ids, write[w].id = i, WriteFile(w)
  PROVE  AloneInv'
<1>1. /\ StoreTypeOK /\ Rename(w)
      /\ saved' = IF memory[i].status = "complete" THEN saved \cup {i} ELSE saved
      /\ raced' = raced
  BY DEF WriteFile, TypeOK
<1>2. /\ write[w].step = "rename" /\ i \in Ids
      /\ file' = [file EXCEPT ![i] = temporary[i]]
      /\ temporary' = [temporary EXCEPT ![i] = NoFile]
      /\ write' = [v \in Writers |-> RenamedCall(w, v)]
      /\ memory' = memory
  BY <1>1, RenameEffect
<1>3. \A id \in Ids : Settled(id)' => Settled(id)
  BY <1>1, <1>2 DEF Settled, Completed
<1>4. Touches(w, i)
  BY <1>2 DEF Touches, Persisting
<1>5. write[w] \in [step : Persisting \cup {"cleanup"}, id : Ids, expires : Expiry,
                    evicted : SUBSET Ids]
  BY <1>1, <1>2, WriterFields DEF Persisting
<1>6. \/ write'[w] = NoWrite
      \/ write'[w].step = "cleanup" /\ write'[w].evicted = write[w].evicted
  BY <1>2, <1>5 DEF RenamedCall, AfterFile
<1>7. \A id \in Ids : Touches(w, id)' => id \in write[w].evicted
  BY <1>6 DEF Touches, NoWrite, Persisting
<1>8. ASSUME NEW v \in Writers, v # w
      PROVE  \/ write'[v] = write[v]
             \/ /\ write[v].id = i /\ Touches(v, i)
                /\ \A id \in Ids : Touches(v, id)' => Touches(v, id)
  <2>1. write'[v] = RenamedCall(w, v)
    BY <1>2
  <2>2. CASE write[v].step \in {"filling", "overwriting"} /\ write[v].id = i
    <3>1. PICK step \in {"overwriting", "rename"} : write'[v] = [write[v] EXCEPT !.step = step]
      BY <1>8, <2>1, <2>2 DEF RenamedCall
    <3>2. write[v] \in [step : Persisting \cup {"cleanup"}, id : Ids, expires : Expiry,
                        evicted : SUBSET Ids]
      BY <1>1, <2>2, WriterFields DEF Persisting
    <3>3. write'[v].id = i /\ write'[v].evicted = write[v].evicted
      BY <2>2, <3>1, <3>2
    <3>4. QED
      BY <2>2, <3>3 DEF Touches, Persisting
  <2>3. CASE ~ (write[v].step \in {"filling", "overwriting"} /\ write[v].id = i)
    BY <1>8, <2>1, <2>3 DEF RenamedCall
  <2>4. QED
    BY <2>2, <2>3
<1>9. ASSUME NEW id \in Ids, Settled(id)', id # i
      PROVE  Alone(id)'
  <2>1. Alone(id)
    BY <1>3, <1>9 DEF AloneInv
  <2>2. \A v \in Writers : Touches(v, id) => write[v].id = id /\ id \notin write[v].evicted
    BY <2>1 DEF Alone
  <2>3. ~ Touches(w, id)'
    <3> SUFFICES ASSUME Touches(w, id)' PROVE FALSE
      OBVIOUS
    <3>1. id \in write[w].evicted
      BY <1>7
    <3>2. Touches(w, id)
      BY <1>2, <3>1 DEF Touches, Persisting
    <3>3. QED
      BY <2>2, <3>1, <3>2
  <2>4. ASSUME NEW v \in Writers, Touches(v, id)'
        PROVE  Touches(v, id) /\ write'[v] = write[v]
    <3>1. v # w
      BY <2>3, <2>4
    <3>2. CASE write'[v] = write[v]
      BY <2>4, <3>2 DEF Touches
    <3>3. CASE write'[v] # write[v]
      <4>1. write[v].id = i /\ Touches(v, id)
        BY <1>8, <2>4, <3>1, <3>3
      <4>2. QED
        BY <1>9, <2>2, <4>1
    <3>4. QED
      BY <3>2, <3>3
  <2>5. /\ temporary'[id] = temporary[id] /\ file'[id] = file[id]
        /\ id \in saved' => id \in saved
    BY <1>1, <1>2, <1>9 DEF StoreTypeOK
  <2>6. QED
    BY <2>1, <2>4, <2>5, KeptAlone
<1>10. ASSUME Settled(i)'
       PROVE  Alone(i)'
  <2>1. Alone(i)
    BY <1>2, <1>3, <1>10 DEF AloneInv
  <2>2. /\ temporary[i] \in Expiry /\ i \notin write[w].evicted
        /\ \A v \in Writers : Touches(v, i) => v = w
    BY <1>2, <1>4, <2>1 DEF Alone
  <2>3. file'[i] \in Expiry
    BY <1>1, <1>2, <2>2 DEF StoreTypeOK
  <2>4. ASSUME NEW v \in Writers PROVE ~ Touches(v, i)'
    <3>1. CASE v = w
      BY <1>2, <1>7, <2>2, <3>1
    <3>2. CASE v # w
      <4>1. ~ Touches(v, i)
        BY <2>2, <3>2
      <4>2. write'[v] = write[v]
        BY <1>8, <3>2, <4>1
      <4>3. QED
        BY <4>1, <4>2 DEF Touches
    <3>3. QED
      BY <3>1, <3>2
  <2>5. QED
    BY <2>3, <2>4 DEF Alone
<1>11. QED
  BY <1>9, <1>10 DEF AloneInv

\* A call that gives up, and one that removes a file, which is not one to be kept.
LEMMA EndsAlone ==
  ASSUME TypeOK, AloneInv, NEW w \in Writers, PersistFails(w) \/ RemoveEvicted(w),
         UNCHANGED <<saved, raced>>
  PROVE  AloneInv'
<1>1. StoreTypeOK /\ memory' = memory
  BY DEF PersistFails, RemoveEvicted, TypeOK
<1> SUFFICES ASSUME NEW id \in Ids, Settled(id)' PROVE Alone(id)'
  BY DEF AloneInv
<1>2. Alone(id)
  BY <1>1 DEF AloneInv, Settled, Completed
<1>3. CASE PersistFails(w)
  <2>1. /\ write[w].step \in Persisting /\ write[w].id \in Ids
        /\ write'[w] = NoWrite /\ \A v \in Writers : v # w => write'[v] = write[v]
    BY <1>1, <1>3, WriterFields DEF PersistFails, StoreTypeOK
  <2>2. ~ Touches(w, id)'
    BY <2>1 DEF Touches, NoWrite, Persisting
  <2>3. \A v \in Writers : Touches(v, id)' => Touches(v, id) /\ write'[v] = write[v] /\ v # w
    BY <2>1, <2>2 DEF Touches
  <2>4. CASE write[w].id = id
    <3>1. Touches(w, id)
      BY <2>1, <2>4 DEF Touches
    <3>2. write[w].step # "overwriting" /\ \A v \in Writers : Touches(v, id) => v = w
      BY <1>2, <3>1 DEF Alone
    <3>3. file'[id] = file[id]
      BY <1>1, <1>3, <2>4, <3>2 DEF PersistFails, StoreTypeOK
    <3>4. \A v \in Writers : ~ Touches(v, id)'
      BY <2>3, <3>2
    <3>5. QED
      BY <1>2, <3>3, <3>4 DEF Alone
  <2>5. CASE write[w].id # id
    <3>1. temporary'[id] = temporary[id] /\ file'[id] = file[id]
      BY <1>1, <1>3, <2>1, <2>5 DEF PersistFails, StoreTypeOK
    <3>2. QED
      BY <1>2, <2>3, <3>1, KeptAlone
  <2>6. QED
    BY <2>4, <2>5
<1>4. CASE RemoveEvicted(w)
  <2>1. PICK x \in write[w].evicted :
          /\ file' = [file EXCEPT ![x] = NoFile]
          /\ write' = [write EXCEPT ![w] =
               IF write[w].evicted = {x} THEN NoWrite
               ELSE [write[w] EXCEPT !.evicted = write[w].evicted \ {x}]]
    BY <1>4 DEF RemoveEvicted
  <2>2. write[w].step = "cleanup" /\ temporary' = temporary
    BY <1>4 DEF RemoveEvicted
  <2>3. \A y \in write[w].evicted : Touches(w, y)
    BY <2>2 DEF Touches
  <2>4. id \notin write[w].evicted
    BY <1>2, <2>2, <2>3 DEF Alone
  <2>5. write[w] \in [step : Persisting \cup {"cleanup"}, id : Ids, expires : Expiry,
                      evicted : SUBSET Ids]
    BY <1>1, <2>2, WriterFields
  <2>6. /\ \A v \in Writers : v # w => write'[v] = write[v]
        /\ \/ write'[w] = NoWrite
           \/ write'[w].step = "cleanup" /\ write'[w].evicted \subseteq write[w].evicted
    BY <1>1, <2>1, <2>2, <2>5 DEF StoreTypeOK
  <2>7. ~ Touches(w, id)'
    BY <2>4, <2>6 DEF Touches, NoWrite, Persisting
  <2>8. \A v \in Writers : Touches(v, id)' => Touches(v, id) /\ write'[v] = write[v]
    BY <2>6, <2>7 DEF Touches
  <2>9. file'[id] = file[id]
    BY <1>1, <2>1, <2>4 DEF StoreTypeOK
  <2>10. QED
    BY <1>2, <2>2, <2>8, <2>9, KeptAlone
<1>5. QED
  BY <1>3, <1>4

\* Nothing is under way after a restart, and what was kept and readable stays so.
LEMMA RestartAlone ==
  ASSUME TypeOK, AloneInv, Restart
  PROVE  AloneInv'
<1>1. PICK trimmed \in SUBSET Ids :
        /\ Reload(trimmed)
        /\ LET dropped == trimmed \cup {id \in Ids : file[id] # NoFile /\ file[id] <= now}
               unsaved == {id \in Ids \ saved : file[id] = NoFile}
           IN Forget(dropped \cup unsaved)
  BY DEF Restart
<1> DEFINE gone == trimmed \cup {id \in Ids : file[id] # NoFile /\ file[id] <= now}
                     \cup {id \in Ids \ saved : file[id] = NoFile}
<1>2. saved' = saved \ gone /\ raced' = raced \ gone
  BY <1>1 DEF Forget, CountAsNew
<1>3. write' = [w \in Writers |-> NoWrite]
  BY <1>1 DEF Reload
<1>4. \A w \in Writers, id \in Ids : ~ Touches(w, id)'
  BY <1>3 DEF Touches, NoWrite, Persisting
<1>5. ASSUME NEW id \in Ids, Settled(id)', id \in saved'
      PROVE  file'[id] \in Expiry
  <2>1. id \in saved /\ id \notin gone /\ id \notin raced
    BY <1>2, <1>5 DEF Settled
  <2>2. file[id] \in Expiry
    BY <2>1 DEF AloneInv, Alone, Settled
  <2>3. file[id] > now
    BY <2>1, <2>2 DEF Expiry, NoFile, TypeOK, StoreTypeOK
  <2>4. file'[id] = file[id]
    BY <1>1, <2>1, <2>3 DEF Reload
  <2>5. QED
    BY <2>2, <2>4
<1>6. QED
  BY <1>4, <1>5 DEF AloneInv, Alone

LEMMA AloneStep ==
  ASSUME TypeOK, AloneInv, [Next]_vars
  PROVE  AloneInv'
<1> USE DEF storeVars, historyVars, bridgeVars
<1>1. \A c \in Calls : Id(c) \in Ids /\ c \in Writers
  BY RequestId
<1>2. \A id \in Ids : Pruned[id] \in {Pruned[id], InFlight}
  OBVIOUS
<1>3. ASSUME NEW c \in Calls, ClaimGranted(c)
      PROVE  AloneInv'
  <2>1. /\ PruneFiles /\ Forget(Expired) /\ UNCHANGED <<write, temporary>>
        /\ memory' = [Pruned EXCEPT ![Id(c)] = InFlight]
    BY <1>3 DEF ClaimGranted, Claim
  <2>2. \A id \in Ids : memory'[id] \in {Pruned[id], InFlight}
    BY <2>1, Pruning DEF TypeOK
  <2>3. QED
    BY <2>1, <2>2, PrunedAlone
<1>4. CASE \/ LookUpMessage
           \/ \E c \in Calls : ClaimRefused(c) \/ AtomicTimeout(c)
  <2>1. /\ PruneFiles /\ Forget(Expired) /\ UNCHANGED <<write, temporary>>
        /\ memory' = Pruned
    BY <1>4 DEF LookUpMessage, ClaimRefused, AtomicTimeout, Lookup
  <2>2. QED
    BY <1>2, <2>1, PrunedAlone
<1>5. ASSUME NEW c \in Calls, AbandonOpen(c) \/ AtomicFails(c)
      PROVE  AloneInv'
  BY <1>1, <1>5, AbandonAlone DEF AbandonOpen, AtomicFails
<1>6. ASSUME NEW c \in Calls, AtomicRecord(c) \/ TaskRecord(c)
      PROVE  AloneInv'
  BY <1>1, <1>6, RecordAlone DEF AtomicRecord, TaskRecord
<1>7. CASE LoopRecord
  <2>1. loop.call \in Calls
    BY <1>7, LoopStep DEF LoopRecord, Idle
  <2>2. QED
    BY <1>1, <1>7, <2>1, RecordAlone DEF LoopRecord
<1>8. ASSUME NEW w \in Writers, WriteStep(w)
      PROVE  AloneInv'
  <2>1. CASE WriteTemporary(w) \/ WriteFile(w)
    <3>1. write[w].step \in Persisting
      BY <2>1 DEF WriteTemporary, WriteFile, CreateTemporary, FillTemporary, Overwrite, Rename,
         Persisting
    <3>2. write[w].id \in Ids
      BY <3>1, WriterFields DEF TypeOK
    <3>3. QED
      BY <2>1, <3>2, TemporaryAlone, RenameAlone DEF WriteTemporary
  <2>2. CASE WriteFails(w) \/ RemoveFile(w)
    BY <2>2, EndsAlone DEF WriteFails, RemoveFile
  <2>3. QED
    BY <1>8, <2>1, <2>2 DEF WriteStep
<1>9. ASSUME NEW c \in Calls,
             \/ Arrive(c) \/ LookUpOpen(c) \/ OpenFails(c) \/ Insert(c) \/ Spawn(c)
             \/ ReplyAccepted(c) \/ ReplyFails(c) \/ UndoTask(c) \/ UndoEntry(c)
             \/ AtomicForward(c) \/ AtomicResponse(c) \/ AtomicReply(c)
             \/ TaskForward(c) \/ UpstreamEnds(c) \/ TaskDeregister(c) \/ TaskDone(c)
             \/ NextDoomed(c)
      PROVE  AloneInv'
  <2>1. UNCHANGED <<memory, file, temporary, write, saved, raced>>
    BY <1>9 DEF Arrive, LookUpOpen, OpenFails, Insert, Spawn, ReplyAccepted, ReplyFails,
       UndoTask, UndoEntry, AtomicForward, AtomicResponse, AtomicReply,
       TaskForward, UpstreamEnds, TaskDeregister, TaskDone, NextDoomed
  <2>2. QED
    BY <2>1, StoredAlone
<1>10. CASE \/ UNCHANGED vars \/ Tick \/ RouteDies \/ LoopAbort \/ LoopDone
            \/ \E id \in Ids : Cancel(id)
  <2>1. UNCHANGED <<memory, file, temporary, write, saved, raced>>
    BY <1>10 DEF vars, Tick, RouteDies, LoopAbort, LoopDone, Cancel
  <2>2. QED
    BY <2>1, StoredAlone
<1>11. QED
  BY <1>3, <1>4, <1>5, <1>6, <1>7, <1>8, <1>9, <1>10, RestartAlone
  DEF Next, Progress, Environment, HandleOpen, HandleAtomic, RunTask, RunLoop

------------------------------------------------------------------------------
(* Theorems                                                                *)

StoreInv == TypeOK /\ WriteInv /\ DiskInv

TransactionInv == StoreInv /\ TaskInv /\ ClaimInv /\ ForwardInv

LEMMA StoreInvariant ==
  ASSUME Roomy
  PROVE  Spec => []StoreInv
<1>1. Init => StoreInv
  <2> SUFFICES ASSUME Init PROVE StoreInv
    OBVIOUS
  <2>1. WriteInv /\ DiskInv
    BY DEF Init, StoreInit, WriteInv, OnlyDisk, DiskInv
  <2>2. QED
    BY <2>1, InitTypes DEF StoreInv
<1>2. StoreInv /\ [Next]_vars => StoreInv'
  BY TypesStep, DiskStep DEF StoreInv
<1>3. QED
  BY <1>1, <1>2, PTL DEF Spec

LEMMA TransactionInvariant ==
  ASSUME Roomy, Lasting
  PROVE  Spec => []TransactionInv
<1>1. Init => TransactionInv
  <2> SUFFICES ASSUME Init PROVE TransactionInv
    OBVIOUS
  <2>1. StoreInv
    BY InitTypes DEF Init, StoreInit, WriteInv, OnlyDisk, DiskInv, StoreInv
  <2>2. TaskInv /\ ClaimInv
    BY DEF Init, TaskInv, ClaimInv, Holds, Opening
  <2>3. ForwardInv
    BY DEF Init, ForwardInv
  <2>4. QED
    BY <2>1, <2>2, <2>3 DEF TransactionInv
<1>2. TransactionInv /\ [Next]_vars => TransactionInv'
  BY TypesStep, DiskStep, TaskStep, ClaimsStep DEF TransactionInv, StoreInv
<1>3. QED
  BY <1>1, <1>2, PTL DEF Spec

\* Every variable keeps its type, whatever calls, crashes and failures come.
THEOREM TypesHold == Spec => []TypeOK
<1>1. TypeOK /\ [Next]_vars => TypeOK'
  BY TypesStep
<1>2. QED
  BY <1>1, InitTypes, PTL DEF Spec

\* The upstream gets the request of an identifier once, whatever is repeated,
\* cancelled, abandoned or restarted, until the identifier is forgotten.
THEOREM ForwardsOnce ==
  ASSUME Roomy, Lasting
  PROVE  Spec => []AtMostOnce
<1>1. TransactionInv => AtMostOnce
  BY DEF TransactionInv, ForwardInv, AtMostOnce
<1>2. QED
  BY <1>1, TransactionInvariant, PTL

\* Of two calls with one identifier at most one is between its claim and its
\* request to the upstream.
THEOREM ClaimsAreExclusive ==
  ASSUME Roomy, Lasting
  PROVE  Spec => []ClaimsExclude
<1>1. \A c \in Calls : Preparing(c) => Holds(c)
  BY DEF Preparing, Holds, Opening
<1>2. TransactionInv => ClaimsExclude
  BY <1>1 DEF TransactionInv, ClaimInv, Sole, ClaimsExclude
<1>3. QED
  BY <1>2, TransactionInvariant, PTL

\* A completion that was renamed into place is on disk and whole as long as it is
\* retained, whatever is recorded, evicted, abandoned or pruned meanwhile and
\* wherever a write fails or the process ends, unless a record call of its
\* identifier began beside another one that had its file still to write or to
\* remove.
THEOREM CompletionsDurable == Spec => []RecordedIsDurable
<1>1. Init => TypeOK /\ AloneInv
  <2> SUFFICES ASSUME Init PROVE AloneInv
    BY InitTypes
  <2>1. \A id \in Ids : ~ Settled(id)
    BY DEF Init, StoreInit, Settled, Completed, Absent
  <2>2. QED
    BY <2>1 DEF AloneInv
<1>2. TypeOK /\ AloneInv /\ [Next]_vars => (TypeOK /\ AloneInv)'
  BY TypesStep, AloneStep
<1>3. TypeOK /\ AloneInv => RecordedIsDurable
  BY DEF AloneInv, Alone, Settled, RecordedIsDurable, Completed
<1>4. QED
  BY <1>1, <1>2, <1>3, PTL DEF Spec

==============================================================================
