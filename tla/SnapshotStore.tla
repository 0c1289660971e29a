--------------------------- MODULE SnapshotStore ----------------------------
(***************************************************************************)
(* SqliteSnapshotStore (apps/server/src/persistence/snapshot-store.ts): how *)
(* create() turns the live database of a run into a restorable file, step  *)
(* by step against a file system that loses what is not flushed, and how   *)
(* restoreTo() copies a file back.                                         *)
(*                                                                         *)
(* create() awaits once, for the backup; other handlers may use the run's  *)
(* database only there (the store relies on no lock).  What follows is     *)
(* synchronous, but the process or the power may fail between any two      *)
(* steps.  The live database is opened with synchronous = FULL, so its     *)
(* commits survive both.                                                   *)
(***************************************************************************)
EXTENDS Integers

CONSTANTS
  MaxTick,      \* bound: ticks of the run
  MaxSeq        \* bound: other handlers journal up to here

ASSUME SnapshotAssumption == MaxTick \in Nat /\ MaxSeq \in Nat

VARIABLES
  live,         \* the run's database: clock, event counter, snapshots table
  files,        \* the file system as the process sees it
  dir,          \* the directory entries that have been flushed
  work,         \* the create() or restoreTo() in progress
  decayed       \* history: ticks whose snapshot file the medium damaged

storeVars == <<live, files, dir, work, decayed>>

(* Paths: snapshots/<id>.db and its .tmp for each tick, and the destination
   of restores with its .tmp. *)
final(t) == <<"final", t>>
temporary(t) == <<"tmp", t>>
destination == <<"destination", 0>>
copy == <<"copy", 0>>

SnapshotDir == {"final", "tmp"} \X (0..MaxTick)
RestoreDir  == {destination, copy}
Path == SnapshotDir \cup RestoreDir

NoDb     == [tick |-> 0, seq |-> 0, rows |-> {}]
Absent   == [kind |-> "absent", db |-> NoDb, synced |-> TRUE]
Torn     == [kind |-> "torn", db |-> NoDb, synced |-> TRUE]
Holds(d) == [kind |-> "db", db |-> d, synced |-> FALSE]

(* computeLogicalStateHash: the clock, the ID checkpoint and the domain tables,
   which change only with events; the snapshots table is not part of it. *)
computeLogicalStateHash(d) == [tick |-> d.tick, seq |-> d.seq]

NoRow  == [tick |-> 0, hash |-> computeLogicalStateHash(NoDb)]
NoPlan == [record |-> NoRow, initial |-> computeLogicalStateHash(NoDb)]
AtRest   == [pc |-> "idle", plan |-> NoPlan]

(* Other handlers run between two synchronous sections only. *)
Quiet == work.pc \in {"idle", "backup"}

-----------------------------------------------------------------------------
(* The rest of the server, which ticks and journals. *)

commitTick ==
  /\ Quiet
  /\ live.tick < MaxTick /\ live.seq < MaxSeq
  /\ live' = [live EXCEPT !.tick = @ + 1, !.seq = @ + 1]
  /\ UNCHANGED <<files, dir, work, decayed>>

appendEvent ==
  /\ Quiet
  /\ live.seq < MaxSeq
  /\ live' = [live EXCEPT !.seq = @ + 1]
  /\ UNCHANGED <<files, dir, work, decayed>>

-----------------------------------------------------------------------------
(* create() *)

getAtTick(t) == {r \in live.rows : r.tick = t}

(* The plan fixes the state to be saved and the hash it will have once the
   two events of the snapshot are part of it. *)
buildSnapshotPlan ==
  LET h == computeLogicalStateHash(live)
  IN  [record |-> [tick |-> live.tick, hash |-> [h EXCEPT !.seq = @ + 2]],
       initial |-> h]

(* With no row for the tick either file is the residue of an interrupted
   create(). *)
removeDatabaseFiles(t) == [files EXCEPT ![temporary(t)] = Absent, ![final(t)] = Absent]

(* Up to the await: from now on the backup fills the temporary file. *)
create ==
  /\ work.pc = "idle"
  /\ getAtTick(live.tick) = {}
  /\ work' = [pc |-> "backup", plan |-> buildSnapshotPlan]
  /\ files' = [removeDatabaseFiles(live.tick) EXCEPT ![temporary(live.tick)] = Torn]
  /\ UNCHANGED <<live, dir, decayed>>

planned == work.plan.record.tick

proceedTo(pc) == work' = [work EXCEPT !.pc = pc]

(* SQLite's online backup ends with the state at its end. *)
backup ==
  /\ work.pc = "backup"
  /\ files' = [files EXCEPT ![temporary(planned)] = Holds(live)]
  /\ proceedTo("inspect")
  /\ UNCHANGED <<live, dir, decayed>>

(* applySnapshotPlan: the row, the two events and the ID state, on the
   database the plan was made for. *)
appliesTo(d) == computeLogicalStateHash(d) = work.plan.initial

applySnapshotPlan(d) ==
  [d EXCEPT !.seq = @ + 2, !.rows = @ \cup {work.plan.record}]

(* The backup and the live database are compared with the plan, then the
   backup receives its own row and events. *)
finalizeSnapshotDatabase ==
  /\ work.pc = "inspect"
  /\ appliesTo(files[temporary(planned)].db) /\ appliesTo(live)
  /\ files' = [files EXCEPT ![temporary(planned)] =
                  Holds(applySnapshotPlan(files[temporary(planned)].db))]
  /\ proceedTo("flush")
  /\ UNCHANGED <<live, dir, decayed>>

(* Mutant: the file is not flushed before it is renamed. *)
flushNothing(from, to, path) ==
  /\ work.pc = from
  /\ proceedTo(to)
  /\ UNCHANGED <<live, files, dir, decayed>>

flushFile(from, to, path) ==
  /\ work.pc = from
  /\ files' = [files EXCEPT ![path].synced = TRUE]
  /\ proceedTo(to)
  /\ UNCHANGED <<live, dir, decayed>>

(* renameSync, refused when the final name is taken. *)
rename(from, to, old, new) ==
  /\ work.pc = from
  /\ files[new].kind = "absent"
  /\ files' = [files EXCEPT ![new] = files[old], ![old] = Absent]
  /\ proceedTo(to)
  /\ UNCHANGED <<live, dir, decayed>>

flushDirectory(from, to, paths) ==
  /\ work.pc = from
  /\ dir' = [p \in Path |-> IF p \in paths THEN files[p] ELSE dir[p]]
  /\ proceedTo(to)
  /\ UNCHANGED <<live, files, decayed>>

(* Mutant: the row without its events. *)
commitRowOnly ==
  /\ work.pc = "commit"
  /\ live' = [live EXCEPT !.rows = @ \cup {work.plan.record}]
  /\ work' = AtRest
  /\ UNCHANGED <<files, dir, decayed>>

(* The transaction on the live database that makes the snapshot known. *)
commitMetadata ==
  /\ work.pc = "commit"
  /\ appliesTo(live)
  /\ live' = applySnapshotPlan(live)
  /\ work' = AtRest
  /\ UNCHANGED <<files, dir, decayed>>

(* An exception (a failed comparison, the disk) and the cleanup of the
   catch.  A removal may fail too; `kept` are the files it leaves, and the
   directory is flushed only after the removal of a renamed file. *)
failCreate(kept) ==
  /\ work.pc \in {"backup", "inspect", "flush", "rename", "flushDir", "commit"}
  /\ LET renamed == work.pc \in {"flushDir", "commit"}
         removed == {temporary(planned)} \cup (IF renamed THEN {final(planned)} ELSE {})
     IN  /\ files' = [p \in Path |-> IF p \in removed \ kept THEN Absent ELSE files[p]]
         /\ dir' = IF renamed /\ final(planned) \notin kept
                   THEN [p \in Path |-> IF p \in SnapshotDir THEN files'[p] ELSE dir[p]]
                   ELSE dir
  /\ work' = AtRest
  /\ UNCHANGED <<live, decayed>>

-----------------------------------------------------------------------------
(* restoreTo() *)

(* assertInspectionMatches: the file opens and has the recorded hash. *)
matches(r, f) == f.kind = "db" /\ computeLogicalStateHash(f.db) = r.hash /\ f.db.tick = r.tick

(* The source is verified, then copied over the residue of an earlier try. *)
restoreTo(r) ==
  /\ work.pc = "idle"
  /\ matches(r, files[final(r.tick)])
  /\ files[destination].kind = "absent"
  /\ files' = [files EXCEPT ![copy] = Torn]
  /\ work' = [pc |-> "copy", plan |-> [NoPlan EXCEPT !.record = r]]
  /\ UNCHANGED <<live, dir, decayed>>

copyFile ==
  /\ work.pc = "copy"
  /\ files' = [files EXCEPT ![copy] = [files[final(planned)] EXCEPT !.synced = FALSE]]
  /\ proceedTo("verify")
  /\ UNCHANGED <<live, dir, decayed>>

verifyCopy ==
  /\ work.pc = "verify"
  /\ matches(work.plan.record, files[copy])
  /\ proceedTo("flushCopy")
  /\ UNCHANGED <<live, files, dir, decayed>>

(* The last verification, of the destination itself. *)
finishRestore ==
  /\ work.pc = "restored"
  /\ matches(work.plan.record, files[destination])
  /\ work' = AtRest
  /\ UNCHANGED <<live, files, dir, decayed>>

failRestore ==
  /\ work.pc \in {"copy", "verify", "flushCopy", "renameCopy", "flushDest", "restored"}
  /\ LET renamed == work.pc \in {"flushDest", "restored"}
     IN  files' = [files EXCEPT ![copy] = Absent,
                     ![destination] = IF renamed THEN Absent ELSE @]
  /\ work' = AtRest
  /\ UNCHANGED <<live, dir, decayed>>

-----------------------------------------------------------------------------
(* The world outside *)

processExit ==
  /\ work # AtRest
  /\ work' = AtRest
  /\ UNCHANGED <<live, files, dir, decayed>>

(* After a power failure the paths in `old` hold the entry flushed last, the
   others the one the process saw, and contents never flushed may be torn. *)
unsettled == {p \in Path : dir[p] # files[p] \/ ~files[p].synced}

powerFailure(old, torn) ==
  /\ files' = [p \in Path |->
        LET f == IF p \in old THEN dir[p] ELSE files[p]
        IN  IF p \in torn /\ ~f.synced THEN Torn ELSE [f EXCEPT !.synced = TRUE]]
  /\ dir' = files'
  /\ work' = AtRest
  /\ UNCHANGED <<live, decayed>>

(* The medium damages the file of a snapshot. *)
decay(t) ==
  /\ getAtTick(t) # {}
  /\ files[final(t)].kind = "db"
  /\ files' = [files EXCEPT ![final(t)] = Torn]
  /\ dir' = [dir EXCEPT ![final(t)] = Torn]
  /\ decayed' = decayed \cup {t}
  /\ UNCHANGED <<live, work>>

-----------------------------------------------------------------------------

StoreInit ==
  /\ live = [NoDb EXCEPT !.seq = 1]
  /\ files = [p \in Path |-> Absent]
  /\ dir = files
  /\ work = AtRest
  /\ decayed = {}

createStep ==
  \/ create \/ backup \/ finalizeSnapshotDatabase
  \/ flushFile("flush", "rename", temporary(planned))
  \/ rename("rename", "flushDir", temporary(planned), final(planned))
  \/ flushDirectory("flushDir", "commit", SnapshotDir)
  \/ commitMetadata

restoreStep ==
  \/ \E r \in live.rows : restoreTo(r)
  \/ copyFile \/ verifyCopy
  \/ flushFile("flushCopy", "renameCopy", copy)
  \/ rename("renameCopy", "flushDest", copy, destination)
  \/ flushDirectory("flushDest", "restored", RestoreDir)
  \/ finishRestore

fault ==
  \/ \E kept \in SUBSET {temporary(planned), final(planned)} : failCreate(kept)
  \/ failRestore
  \/ processExit
  \/ \E old \in SUBSET unsettled : \E torn \in SUBSET unsettled : powerFailure(old, torn)
  \/ \E t \in 0..MaxTick : decay(t)

StoreNext == commitTick \/ appendEvent \/ createStep \/ restoreStep \/ fault

StoreSpec == StoreInit /\ [][StoreNext]_storeVars

-----------------------------------------------------------------------------
(* Properties *)

Hash == [tick : 0..MaxTick, seq : Nat]
Row  == [tick : 0..MaxTick, hash : Hash]
Db   == [tick : 0..MaxTick, seq : Nat, rows : SUBSET Row]
File == [kind : {"absent", "torn", "db"}, db : Db, synced : BOOLEAN]

Pc == {"idle", "backup", "inspect", "flush", "rename", "flushDir", "commit",
       "copy", "verify", "flushCopy", "renameCopy", "flushDest", "restored"}

(* The types of the state. *)
StoreTypeOK ==
  /\ live \in Db
  /\ files \in [Path -> File]
  /\ dir \in [Path -> File]
  /\ work \in [pc : Pc, plan : [record : Row, initial : Hash]]
  /\ decayed \subseteq 0..MaxTick

(* The file of a row opens, has the recorded tick and hash, and knows itself:
   it holds its own row, so that a run restored from it can go on. *)
restorable(r) ==
  /\ matches(r, files[final(r.tick)])
  /\ r \in files[final(r.tick)].db.rows

(* Every row of the snapshots table has its restorable file, and would have
   it after a power failure at this moment; only the medium can damage it.
   create() therefore flushes the file and then its name before the row is
   committed, and never touches the files of a tick that has a row. *)
RowsBacked ==
  \A r \in live.rows :
    \/ r.tick \in decayed
    \/ restorable(r) /\ files[final(r.tick)].synced /\ dir[final(r.tick)] = files[final(r.tick)]

(* A residue of an interrupted attempt never blocks the next one: the check
   for an existing file before the rename cannot fire. *)
ResidueNeverBlocks == work.pc = "rename" => files[final(planned)].kind = "absent"

(* A restore destination is the complete state its row describes or it does
   not exist, whichever step a crash, a power failure or a damaged source
   interrupts; an idle store shows no half-made copy under that name. *)
RestoredWhole ==
  files[destination].kind # "absent" =>
    \E r \in live.rows : matches(r, files[destination]) /\ r \in files[destination].db.rows

(* What the store keeps of every row and every restore, in every state. *)
SnapshotsSound == StoreTypeOK /\ RowsBacked /\ ResidueNeverBlocks /\ RestoredWhole

(* What a client may rely on: the undamaged snapshots the table names. *)
Catalog == INSTANCE SnapshotCatalog WITH
  tick <- live.tick, seq <- live.seq,
  available <- {[tick |-> r.tick, seq |-> r.hash.seq] :
                  r \in {r \in live.rows : restorable(r) \/ r.tick \in decayed}}

(* create() with all its steps, failures and retries looks to the rest of the
   server like one atomic action, and nothing that was available is lost. *)
ImplementsCatalog == Catalog!CatalogSpec

=============================================================================
