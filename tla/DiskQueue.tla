------------------------------ MODULE DiskQueue -----------------------------
(***************************************************************************)
(* The disk queue (internal/diskqueue): one JSON file for each entry,      *)
(* written to a temporary file and renamed, drained file by file. Every    *)
(* method holds the lock, so one operation at a time runs, but each of its *)
(* file operations may fail and the process may die between any two. An    *)
(* entry is its ID; an ID is pushed at most MaxPushes times. Neither a     *)
(* file nor the directory is synced: until the kernel has written them     *)
(* back, a power failure may lose a rename, undo a removal or tear a file. *)
(***************************************************************************)
EXTENDS Integers, FiniteSets

CONSTANTS MaxId,     \* entries 1 .. MaxId, in the order Glob lists their files
          MaxPushes, \* bound: pushes of an entry
          MaxFaults  \* bound: file operations that fail, crashes, power failures

ASSUME DiskQueueAssumption == MaxId \in Nat \ {0} /\ MaxPushes \in Nat /\ MaxFaults \in Nat

VARIABLES tmp, json, \* the files: [EntryIds -> absent, whole or torn]
          stable,    \* [EntryIds -> what a power failure may leave of its file]
          work,      \* the operation that holds the lock
          faults,    \* failures so far
          pushes,    \* [EntryIds -> Push calls so far]
          owed,      \* history: acknowledged by Push and not yet accounted for
          returned,  \* history: returned by a Drain, and not pushed again since
          forgotten, \* history: in the hands of a Drain that failed or died
          struck     \* history: its file is not as the queue left it, but as a
                     \* power failure did

diskVars == <<tmp, json, stable, work, faults, pushes, owed, returned, forgotten, struck>>

EntryIds == 1 .. MaxId
Content == {"absent", "whole", "torn"}
Work == [op : {"none", "push", "drain"}, id : 0 .. MaxId, todo : SUBSET EntryIds,
         got : SUBSET EntryIds]
Begun(op, i, files) == [op |-> op, id |-> i, todo |-> files, got |-> {}]
NoWork == Begun("none", 0, {})

DiskTypeOK ==
  /\ tmp \in [EntryIds -> Content] /\ json \in [EntryIds -> Content]
  /\ stable \in [EntryIds -> SUBSET Content] /\ work \in Work
  /\ faults \in 0 .. MaxFaults /\ pushes \in [EntryIds -> 0 .. MaxPushes]
  /\ owed \in SUBSET EntryIds /\ returned \in SUBSET EntryIds
  /\ forgotten \in SUBSET EntryIds /\ struck \in SUBSET EntryIds

DiskInit ==
  /\ tmp = [i \in EntryIds |-> "absent"] /\ json = tmp
  /\ stable = [i \in EntryIds |-> {"absent"}]
  /\ work = NoWork /\ faults = 0 /\ pushes = [i \in EntryIds |-> 0]
  /\ owed = {} /\ returned = {} /\ forgotten = {} /\ struck = {}

Idle == work = NoWork
DiskFails == faults < MaxFaults /\ faults' = faults + 1
DiskWorks == faults' = faults

(* A file operation is seen at once, and on the disk at any later time. *)
Becomes(i, c, onDisk) ==
  /\ json' = [json EXCEPT ![i] = c] /\ stable' = [stable EXCEPT ![i] = @ \cup onDisk]
  /\ struck' = struck \ {i}

(* Push: os.WriteFile of the temporary file, which may stop half way. *)
WriteTemp(i) ==
  /\ Idle /\ pushes[i] < MaxPushes
  /\ pushes' = [pushes EXCEPT ![i] = @ + 1]
  /\ \/ /\ DiskWorks
        /\ tmp' = [tmp EXCEPT ![i] = "whole"]
        /\ work' = Begun("push", i, {})
     \/ /\ DiskFails
        /\ tmp' = [tmp EXCEPT ![i] = "torn"]
        /\ UNCHANGED work
  /\ UNCHANGED <<json, stable, owed, returned, forgotten, struck>>

(* Push: os.Rename, and the removal of the temporary file when it fails. *)
Rename ==
  LET i == work.id IN
  /\ work.op = "push"
  /\ tmp' = [tmp EXCEPT ![i] = "absent"] /\ work' = NoWork
  /\ \/ /\ DiskWorks
        /\ Becomes(i, tmp[i], {tmp[i], "torn"})
        /\ owed' = owed \cup {i} /\ returned' = returned \ {i} /\ forgotten' = forgotten \ {i}
     \/ DiskFails /\ UNCHANGED <<json, stable, owed, returned, forgotten, struck>>
  /\ UNCHANGED pushes

(* Drain: the list of the files. *)
Glob ==
  /\ Idle
  /\ work' = Begun("drain", 0, {i \in EntryIds : json[i] # "absent"})
  /\ UNCHANGED <<tmp, json, stable, faults, pushes, owed, returned, forgotten, struck>>

(* The error returns of Drain give the caller nothing. *)
GiveUp == work' = NoWork /\ forgotten' = forgotten \cup work.got

(* Drain: read, parse and remove one file, in the order of the list. *)
NextFile(i) == work.op = "drain" /\ i \in work.todo /\ \A j \in work.todo : i <= j
DrainFileRemovedFirst(i) ==
  /\ NextFile(i)
  /\ Becomes(i, "absent", {"absent"})
  /\ \/ /\ DiskWorks /\ json[i] = "whole"
        /\ work' = [work EXCEPT !.todo = @ \ {i}, !.got = @ \cup {i}]
        /\ UNCHANGED forgotten
     \/ (DiskFails \/ (DiskWorks /\ json[i] = "torn")) /\ GiveUp
  /\ UNCHANGED <<tmp, pushes, owed, returned>>

DrainFile(i) ==
  /\ NextFile(i)
  /\ \/ /\ json[i] = "whole" /\ DiskWorks
        /\ Becomes(i, "absent", {"absent"})
        /\ work' = [work EXCEPT !.todo = @ \ {i}, !.got = @ \cup {i}]
        /\ UNCHANGED forgotten
     \/ (DiskFails \/ (DiskWorks /\ json[i] = "torn")) /\ GiveUp
        /\ UNCHANGED <<json, stable, struck>>
  /\ UNCHANGED <<tmp, pushes, owed, returned>>

DrainReturns ==
  /\ work.op = "drain" /\ work.todo = {}
  /\ work' = NoWork
  /\ returned' = returned \cup work.got /\ owed' = owed \ work.got
  /\ UNCHANGED <<tmp, json, stable, faults, pushes, forgotten, struck>>

(* Remove; a missing file is an error and changes nothing. *)
RemoveEntry(i) ==
  /\ Idle /\ json[i] # "absent"
  /\ \/ DiskWorks /\ Becomes(i, "absent", {"absent"}) /\ owed' = owed \ {i}
     \/ DiskFails /\ UNCHANGED <<json, stable, owed, struck>>
  /\ UNCHANGED <<tmp, work, pushes, returned, forgotten>>

(* The process dies: the lock and what a Drain has collected are gone. *)
QueueCrash ==
  /\ ~Idle /\ DiskFails
  /\ GiveUp
  /\ UNCHANGED <<tmp, json, stable, pushes, owed, returned, struck>>

(* external: the kernel writes a file and its directory entry back. *)
WriteBack(i) ==
  /\ stable[i] # {json[i]} /\ stable' = [stable EXCEPT ![i] = {json[i]}]
  /\ UNCHANGED <<tmp, json, work, faults, pushes, owed, returned, forgotten, struck>>

(* A power failure: of each file that was not written back, what the disk happens to
   have. (Nothing reads a temporary file that was left behind.) *)
PowerFailure ==
  /\ DiskFails /\ GiveUp
  /\ \E left \in [EntryIds -> Content] :
       /\ \A i \in EntryIds : left[i] \in stable[i]
       /\ json' = left /\ stable' = [i \in EntryIds |-> {left[i]}]
       /\ struck' = struck \cup {i \in EntryIds : left[i] # json[i]}
  /\ UNCHANGED <<tmp, pushes, owed, returned>>

DiskNext ==
  \/ \E i \in EntryIds : WriteTemp(i) \/ RemoveEntry(i) \/ DrainFile(i) \/ WriteBack(i)
  \/ Rename \/ Glob \/ DrainReturns \/ QueueCrash \/ PowerFailure
DiskSpec == DiskInit /\ [][DiskNext]_diskVars

-----------------------------------------------------------------------------
(* An entry Push acknowledged has its file, or is in the hands of a Drain that has
   not returned. It is lost by a Drain that failed or died with it in hand, or by a
   power failure before its file was written back, and in no other way. *)
OwedIsKept ==
  \A i \in owed : \/ json[i] # "absent" \/ (work.op = "drain" /\ i \in work.got)
                  \/ i \in forgotten \cup struck

(* An entry a Drain returned or holds has no file left, unless it was pushed again:
   a later Drain returns it a second time only if a power failure undid the removal. *)
NotReturnedTwice ==
  \A i \in returned \cup work.got : json[i] = "absent" \/ i \in struck

(* The atomic rename: whatever fails in a Push and wherever the process dies, a
   file that Drain finds is complete, unless a power failure tore it. *)
TornOnlyByPowerFailure == \A i \in EntryIds : json[i] = "torn" => i \in struck

(* An entry is complete on disk from the Push that acknowledged it to the one Drain
   that returns it, whichever file operations fail and wherever the process dies,
   with two exceptions: the entries a Drain has removed are lost when it fails at a
   later one, and a power failure, against which nothing is synced, may lose, tear
   or bring back the files that were not written back yet, and those only. *)
KeptUntilReturned == OwedIsKept /\ NotReturnedTwice /\ TornOnlyByPowerFailure

(* The inductive invariant: what the operation in progress has in hand, and that
   what is seen of a file may be on the disk. *)
DiskInv ==
  /\ DiskTypeOK /\ KeptUntilReturned
  /\ \A i \in EntryIds : json[i] \in stable[i]
  /\ work.op = "push" => work.id \in EntryIds /\ tmp[work.id] = "whole"
  /\ work.op # "drain" => work.got = {}
=============================================================================
