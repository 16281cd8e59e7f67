-------------------------------- MODULE Identity --------------------------------
(***************************************************************************)
(* The identity file (crates/resurrect-node/src/identity.rs), which several *)
(* starts of the node may name at once, and which must survive crashes: a  *)
(* node whose file is lost or replaced becomes another peer.               *)
(*                                                                         *)
(* Every call to the file system is a step.  A crash of the process keeps  *)
(* what it wrote; a loss of power keeps what was synced, and of the rest   *)
(* anything from nothing to all of it.                                     *)
(***************************************************************************)
CONSTANTS
  Process,  \* starts of the node
  Path,     \* identity files
  Key,      \* key pairs
  Absent,   \* no file
  Torn      \* a file without a whole key: empty or cut off

ASSUME IdentityAssumption == Absent \notin Key /\ Torn \notin Key /\ Absent # Torn

VARIABLES
  file,     \* what a read of the path finds
  durable,  \* whether that is also what a loss of power leaves
  load,     \* where each process is in load_or_create_identity
  created   \* history: keys of the creations that returned

idVars == <<file, durable, load, created>>

NotLoading == [stage |-> "idle"]
PathOf(p) == load[p].path
Loading(p, stage) == load[p].stage = stage
Continue(p, stage) == load' = [load EXCEPT ![p].stage = stage]

\* The process returns the error and ends.
Fails(p) == Continue(p, "failed")

-------------------------------------------------------------------------------
BeginLoad(p, f) ==
  /\ load[p] = NotLoading
  /\ load' = [load EXCEPT ![p] = [stage |-> "reading", path |-> f, key |-> Absent]]
  /\ UNCHANGED <<file, durable, created>>

\* fs::read finds a key.
ReadKey(p) ==
  /\ Loading(p, "reading")
  /\ file[PathOf(p)] \in Key
  /\ load' = [load EXCEPT ![p].stage = "loaded", ![p].key = file[PathOf(p)]]
  /\ UNCHANGED <<file, durable, created>>

\* The bytes do not decode, or the read fails for another reason than NotFound.
ReadFails(p) ==
  /\ Loading(p, "reading")
  /\ Fails(p)
  /\ UNCHANGED <<file, durable, created>>

ReadAbsent(p) ==
  /\ Loading(p, "reading")
  /\ file[PathOf(p)] = Absent
  /\ Continue(p, "creating")
  /\ UNCHANGED <<file, durable, created>>

\* Faulty: the file is opened with create and truncate.
CreateTruncating(p, k) ==
  /\ Loading(p, "creating")
  /\ file' = [file EXCEPT ![PathOf(p)] = Torn]
  /\ durable' = [durable EXCEPT ![PathOf(p)] = FALSE]
  /\ load' = [load EXCEPT ![p].stage = "writing", ![p].key = k]
  /\ UNCHANGED created

\* The new key k is generated and the file opened with create_new.
CreateNew(p, k) ==
  /\ Loading(p, "creating")
  /\ file[PathOf(p)] = Absent
  /\ file' = [file EXCEPT ![PathOf(p)] = Torn]
  /\ durable' = [durable EXCEPT ![PathOf(p)] = FALSE]
  /\ load' = [load EXCEPT ![p].stage = "writing", ![p].key = k]
  /\ UNCHANGED created

\* No directory, or the open fails: with AlreadyExists if another start won.
CreateFails(p) ==
  /\ Loading(p, "creating")
  /\ Fails(p)
  /\ UNCHANGED <<file, durable, created>>

WriteAll(p) ==
  /\ Loading(p, "writing")
  /\ file' = [file EXCEPT ![PathOf(p)] = load[p].key]
  /\ Continue(p, "syncing")
  /\ UNCHANGED <<durable, created>>

SyncAll(p) ==
  /\ Loading(p, "syncing")
  /\ durable' = [durable EXCEPT ![PathOf(p)] = TRUE]
  /\ Continue(p, "loaded")
  /\ created' = [created EXCEPT ![PathOf(p)] = @ \cup {load[p].key}]
  /\ UNCHANGED file

\* write_all or sync_all fails; the file stays as it is.
WriteFails(p) ==
  /\ Loading(p, "writing") \/ Loading(p, "syncing")
  /\ Fails(p)
  /\ UNCHANGED <<file, durable, created>>

\* The process ends, at its own will or not.
EndProcess(p) ==
  /\ load' = [load EXCEPT ![p] = NotLoading]
  /\ UNCHANGED <<file, durable, created>>

\* The machine that holds f loses power, with every process that uses f.
PowerLoss(f) ==
  /\ \E found \in IF durable[f] THEN {file[f]} ELSE {Absent, Torn, file[f]} :
       file' = [file EXCEPT ![f] = found]
  /\ durable' = [durable EXCEPT ![f] = TRUE]
  /\ load' = [p \in Process |->
       IF load[p] # NotLoading /\ PathOf(p) = f THEN NotLoading ELSE load[p]]
  /\ UNCHANGED created

LoadStep(p) ==
  \/ ReadKey(p) \/ ReadFails(p) \/ ReadAbsent(p)
  \/ CreateFails(p) \/ WriteAll(p) \/ WriteFails(p) \/ SyncAll(p)

IdInit ==
  /\ file = [f \in Path |-> Absent]
  /\ durable = [f \in Path |-> TRUE]
  /\ load = [p \in Process |-> NotLoading]
  /\ created = [f \in Path |-> {}]

IdNext ==
  \/ \E p \in Process : LoadStep(p) \/ EndProcess(p)
  \/ \E p \in Process, f \in Path : BeginLoad(p, f)
  \/ \E p \in Process, k \in Key : CreateNew(p, k)
  \/ \E f \in Path : PowerLoss(f)

IdSpec == IdInit /\ [][IdNext]_idVars

-------------------------------------------------------------------------------
LoadState ==
  {NotLoading} \cup
  [stage : {"reading", "creating", "writing", "syncing", "loaded", "failed"},
   path : Path, key : Key \cup {Absent}]

IdTypeOK ==
  /\ file \in [Path -> Key \cup {Absent, Torn}]
  /\ durable \in [Path -> BOOLEAN]
  /\ load \in [Process -> LoadState]
  /\ created \in [Path -> SUBSET Key]

\* Once a start has created an identity and returned, the file holds that key
\* for good: no second start replaces it, however the two interleave, and no
\* crash or loss of power takes it away (identity.rs:13-48, create_new and
\* sync_all).
IdentityKept ==
  \A f \in Path : created[f] # {} => created[f] = {file[f]} /\ durable[f]
===============================================================================
