---------------------------- MODULE CompletionStore ----------------------------
(***************************************************************************)
(* The bridge's record of transactions (completion.rs): which identifiers  *)
(* are executing, which completed and until when the record is retained,   *)
(* in memory and in one file per identifier.                               *)
(*                                                                         *)
(* claim, lookup and abandon run under the lock of the entries and are one *)
(* step each.  record changes the memory under the lock; without it, it    *)
(* then creates, fills and renames a temporary file, and removes the files *)
(* of evicted records one by one.  The name of the temporary file is made  *)
(* of the identifier alone, so record calls of one identifier share it.    *)
(* Retained responses are left out: a replay and a tombstone both end a    *)
(* duplicate without forwarding it.                                        *)
(***************************************************************************)
EXTENDS Integers, FiniteSets

CONSTANTS
  Ids,           \* transaction identifiers
  Writers,       \* the handlers and tasks that may call record
  MaxInFlight,   \* max_in_flight
  MaxCompleted,  \* max_completed_entries
  Retention,     \* lifetime of a completed record, in ticks of the clock
  MaxTime        \* bound: the last tick

ASSUME StoreAssumption ==
  /\ MaxInFlight \in Nat \ {0} /\ MaxCompleted \in Nat \ {0}
  /\ Retention \in Nat \ {0} /\ MaxTime \in Nat

VARIABLES
  memory,     \* entries: what is known of each identifier
  file,       \* the expiry in the file of each identifier, Torn or NoFile
  temporary,  \* the same of its temporary file
  write,      \* how far the record call of each writer has come
  now         \* the clock

storeVars == <<memory, file, temporary, write, now>>

Expiry == 1 .. MaxTime + Retention
NoFile == 0

\* A file that is there and cannot be read: empty, or written by halves.
Torn == -1

Content == Expiry \cup {NoFile, Torn}

Absent      == [status |-> "absent", expires |-> 0]
InFlight    == [status |-> "inflight", expires |-> 0]
Complete(e) == [status |-> "complete", expires |-> e]

Entry == {Absent, InFlight} \cup {Complete(e) : e \in Expiry}

\* A record call past its lock: it has a temporary file to create ("disk"), to
\* fill and to rename, then files to remove ("cleanup").  What it fills may have
\* been renamed meanwhile by another call, and is the file then ("overwriting").
Persisting == {"disk", "filling", "overwriting", "rename"}

NoWrite == [step |-> "none"]
Writing(s, id, e, evicted) == [step |-> s, id |-> id, expires |-> e, evicted |-> evicted]

Write ==
  {NoWrite} \cup
    [step : Persisting \cup {"cleanup"}, id : Ids, expires : Expiry, evicted : SUBSET Ids]

StoreTypeOK ==
  /\ memory \in [Ids -> Entry]
  /\ file \in [Ids -> Content]
  /\ temporary \in [Ids -> Content]
  /\ write \in [Writers -> Write]
  /\ \A w \in Writers : write[w].step = "cleanup" => write[w].evicted # {}
  /\ now \in 0 .. MaxTime

\* A bridge that starts with an empty directory.
StoreInit ==
  /\ memory = [id \in Ids |-> Absent]
  /\ file = [id \in Ids |-> NoFile]
  /\ temporary = [id \in Ids |-> NoFile]
  /\ write = [w \in Writers |-> NoWrite]
  /\ now = 0

Completed(m) == {id \in Ids : m[id].status = "complete"}
Executing(m) == {id \in Ids : m[id].status = "inflight"}

------------------------------------------------------------------------------
(* Operations.  Each of them prunes first, abandon excepted.               *)

Expired == {id \in Completed(memory) : memory[id].expires <= now}

Pruned == [id \in Ids |-> IF id \in Expired THEN Absent ELSE memory[id]]

PruneFiles == file' = [id \in Ids |-> IF id \in Expired THEN NoFile ELSE file[id]]

\* Mutant of Claimable: a completed record does not stop an execution.
ClaimableAfterCompletion(id) ==
  /\ Pruned[id].status # "inflight"
  /\ Cardinality(Executing(Pruned)) < MaxInFlight

Claimable(id) ==
  /\ Pruned[id] = Absent
  /\ Cardinality(Executing(Pruned)) < MaxInFlight

Claim(id) ==
  /\ Claimable(id)
  /\ memory' = [Pruned EXCEPT ![id] = InFlight]
  /\ PruneFiles
  /\ UNCHANGED <<temporary, write, now>>

\* A claim that is not granted, or a lookup.
Lookup ==
  /\ memory' = Pruned
  /\ PruneFiles
  /\ UNCHANGED <<temporary, write, now>>

\* evicted are those completed entries of m that expire first.
Oldest(m, evicted, new) ==
  /\ evicted \subseteq Completed(m)
  /\ \A id \in evicted, other \in Completed(m) \ (evicted \cup new) :
       m[id].expires <= m[other].expires

Above(n) == IF n > MaxCompleted THEN n - MaxCompleted ELSE 0

\* The completed entries that m has above the limit, the oldest first; among
\* equals the order of the map decides.
Evictable(m, new) ==
  {evicted \in SUBSET (Ids \ new) :
     /\ Cardinality(evicted) = Above(Cardinality(Completed(m)))
     /\ Oldest(m, evicted, new)}

Without(m, ids) == [id \in Ids |-> IF id \in ids THEN Absent ELSE m[id]]

\* record, under the lock.  Whatever entry the identifier has is replaced.
RecordInMemory(w, id, evicted) ==
  LET e == now + Retention
      m == [Pruned EXCEPT ![id] = Complete(e)]
  IN /\ write[w] = NoWrite
     /\ evicted \in Evictable(m, {id})
     /\ memory' = Without(m, evicted)
     /\ write' = [write EXCEPT ![w] = Writing("disk", id, e, evicted)]
     /\ PruneFiles
     /\ UNCHANGED <<temporary, now>>

\* The call goes on to another step of its own.
WriteGoto(w, step) == write' = [write EXCEPT ![w].step = step]

\* Its file is in place.
AfterFile(c) == IF c.evicted = {} THEN NoWrite ELSE [c EXCEPT !.step = "cleanup"]

\* persist_entry, after the lock: the temporary file is opened and emptied.
CreateTemporary(w) ==
  /\ write[w].step = "disk"
  /\ temporary' = [temporary EXCEPT ![write[w].id] = Torn]
  /\ WriteGoto(w, "filling")
  /\ UNCHANGED <<memory, file, now>>

\* What a file holds once a record is written into it.  Over the record of another
\* call it may be unreadable: the shorter one leaves the end of the longer one.
Filled(old, expires) == {expires} \cup IF old \in Expiry THEN {Torn} ELSE {}

FillTemporary(w) ==
  LET id == write[w].id
  IN /\ write[w].step = "filling"
     /\ \E content \in Filled(temporary[id], write[w].expires) :
          temporary' = [temporary EXCEPT ![id] = content]
     /\ WriteGoto(w, "rename")
     /\ UNCHANGED <<memory, file, now>>

\* The same where another call has renamed what this one opened: the record goes
\* into the file, unless that was removed.
Overwrite(w) ==
  LET id == write[w].id
  IN /\ write[w].step = "overwriting"
     /\ \E content \in Filled(file[id], write[w].expires) :
          file' = [file EXCEPT ![id] = IF file[id] = NoFile THEN NoFile ELSE content]
     /\ WriteGoto(w, "rename")
     /\ UNCHANGED <<memory, temporary, now>>

\* Mutant of Rename: the temporary file stays where it is.
RenameNothing(w) ==
  /\ write[w].step = "rename" /\ temporary[write[w].id] # NoFile
  /\ write' = [write EXCEPT ![w] = AfterFile(write[w])]
  /\ UNCHANGED <<memory, file, temporary, now>>

\* The temporary file, whoever wrote it, takes the place of the file.  Another call
\* that has it open writes into the file from now on, and one that had the old
\* file open writes to nowhere.
Rename(w) ==
  LET id == write[w].id
      Renamed(c) ==
        IF c.step \notin {"filling", "overwriting"} THEN c
        ELSE IF c.id # id THEN c
        ELSE [c EXCEPT !.step = IF c.step = "filling" THEN "overwriting" ELSE "rename"]
  IN /\ write[w].step = "rename" /\ temporary[id] # NoFile
     /\ file' = [file EXCEPT ![id] = temporary[id]]
     /\ temporary' = [temporary EXCEPT ![id] = NoFile]
     /\ write' = [v \in Writers |->
                    IF v = w THEN AfterFile(write[w]) ELSE Renamed(write[v])]
     /\ UNCHANGED <<memory, now>>

\* Another call than that of w will write or rename the temporary file of id.
OthersUse(w, id) ==
  \E v \in Writers \ {w} :
    write[v].step \in Persisting \ {"disk"} /\ write[v].id = id

\* A file operation fails, the renaming of a temporary file that is gone included:
\* record returns at once, its caller logs it.  A write that fails may leave half
\* of a record.  A temporary file that stays behind is never read, since the next
\* call empties it: it counts as gone.
PersistFails(w) ==
  LET id == write[w].id
      Left(contents) == IF OthersUse(w, id) THEN contents ELSE {NoFile}
  IN /\ write[w].step \in Persisting
     /\ \E content \in Left({temporary[id]}
             \cup IF write[w].step = "filling" THEN {Torn} ELSE {}) :
          temporary' = [temporary EXCEPT ![id] = content]
     /\ \E content \in {file[id]}
             \cup IF write[w].step = "overwriting" /\ file[id] # NoFile THEN {Torn} ELSE {} :
          file' = [file EXCEPT ![id] = content]
     /\ write' = [write EXCEPT ![w] = NoWrite]
     /\ UNCHANGED <<memory, now>>

\* record, at last: the files of the evicted entries are removed.
RemoveEvicted(w) ==
  /\ write[w].step = "cleanup"
  /\ \E id \in write[w].evicted :
       /\ file' = [file EXCEPT ![id] = NoFile]
       /\ write' = [write EXCEPT ![w] =
            IF @.evicted = {id} THEN NoWrite
            ELSE [write[w] EXCEPT !.evicted = write[w].evicted \ {id}]]
  /\ UNCHANGED <<memory, temporary, now>>

\* Mutant of Abandon: the claim stays when its execution failed to start.
AbandonKeepsClaim(id) == UNCHANGED storeVars

\* Whatever entry the identifier has is removed; its file is not.
Abandon(id) ==
  /\ memory' = [memory EXCEPT ![id] = Absent]
  /\ UNCHANGED <<file, temporary, write, now>>

\* Mutant of Reload: the directory is not read.
ReloadNothing(trimmed) ==
  /\ memory' = [id \in Ids |-> Absent] /\ trimmed = {}
  /\ file' = file
  /\ write' = [w \in Writers |-> NoWrite]
  /\ temporary' = [id \in Ids |-> NoFile]
  /\ UNCHANGED now

\* The process ended and starts again: open_with_active_limit reads the files,
\* removes the expired ones and trims the rest to the limit.  What it cannot read it
\* leaves alone; temporary files it never reads.
Reload(trimmed) ==
  LET live   == {id \in Ids : file[id] > now}
      loaded == [id \in Ids |-> IF id \in live THEN Complete(file[id]) ELSE Absent]
  IN /\ trimmed \in Evictable(loaded, {})
     /\ memory' = Without(loaded, trimmed)
     /\ file' = [id \in Ids |->
          IF id \in live \ trimmed \/ file[id] = Torn THEN file[id] ELSE NoFile]
     /\ write' = [w \in Writers |-> NoWrite]
     /\ temporary' = [id \in Ids |-> NoFile]
     /\ UNCHANGED now

==============================================================================
