---------------------------- MODULE ObjectFiles ----------------------------
(***************************************************************************)
(* One object of an object store as files: ObjectStore::put_encoded and    *)
(* write_atomic by several writers of the same bytes, and a kill           *)
(* (crates/quarkdrive-core/src/object.rs).  The name of the temporary file *)
(* is made of the bytes, so these writers share it.  A file is written in  *)
(* two parts; open files stay open when their name changes.                *)
(***************************************************************************)
EXTENDS Naturals, FiniteSets

CONSTANTS
    ObjectWriter,   \* threads
    MaxFiles        \* bound: files made

ASSUME ObjectFilesAssumption == MaxFiles \in Nat

VARIABLES
    tmpName, objName,   \* the file under either name; 0 when there is none
    bytes,              \* bytes[f]: the parts of the object written to file f
    made,               \* files made
    opc,                \* opc[w]: "idle", "create", "write", "rename" or "clean"
    file,               \* file[w]: the file it has open
    shared              \* history: a writer opened the file of another

objectVars == <<tmpName, objName, bytes, made, opc, file, shared>>

ObjectInit ==
    /\ tmpName = 0 /\ objName = 0 /\ made = 0 /\ shared = FALSE
    /\ bytes = [f \in 1 .. MaxFiles |-> {}]
    /\ opc = [w \in ObjectWriter |-> "idle"] /\ file = [w \in ObjectWriter |-> 0]

HasObject == objName # 0

\* put_encoded is done when the object is there.
Look(w) ==
    /\ opc[w] = "idle" /\ ~HasObject
    /\ opc' = [opc EXCEPT ![w] = "create"]
    /\ UNCHANGED <<tmpName, objName, bytes, made, file, shared>>

\* File::create truncates the file that is there, or makes one.
CreateTmp(w) ==
    /\ opc[w] = "create"
    /\ opc' = [opc EXCEPT ![w] = "write"]
    /\ IF tmpName = 0
       THEN made < MaxFiles /\ made' = made + 1 /\ tmpName' = made + 1
       ELSE UNCHANGED <<made, tmpName>>
    /\ file' = [file EXCEPT ![w] = tmpName'] /\ bytes' = [bytes EXCEPT ![tmpName'] = {}]
    /\ shared' = (shared \/ \E v \in ObjectWriter \ {w} : opc[v] \in {"write", "rename"} /\ file[v] = tmpName')
    /\ UNCHANGED objName

\* A writer that renames as soon as it has begun.
AllWrittenSome(w) == bytes[file[w]] # {}

AllWritten(w) == bytes[file[w]] = {1, 2}

WritePart(w) == \E i \in {1, 2} :
    /\ opc[w] = "write" /\ i \notin bytes[file[w]] /\ (i = 2 => 1 \in bytes[file[w]])
    /\ bytes' = [bytes EXCEPT ![file[w]] = @ \cup {i}]
    /\ UNCHANGED <<tmpName, objName, made, opc, file, shared>>

\* write_all and sync_all have returned.
Synced(w) ==
    /\ opc[w] = "write" /\ AllWritten(w)
    /\ opc' = [opc EXCEPT ![w] = "rename"]
    /\ UNCHANGED <<tmpName, objName, bytes, made, file, shared>>

\* fs::rename moves whatever has the name now, or fails when nothing has it.
RenameTmp(w) ==
    /\ opc[w] = "rename"
    /\ IF tmpName # 0
       THEN objName' = tmpName /\ tmpName' = 0 /\ opc' = [opc EXCEPT ![w] = "idle"]
       ELSE opc' = [opc EXCEPT ![w] = "clean"] /\ UNCHANGED <<objName, tmpName>>
    /\ UNCHANGED <<bytes, made, file, shared>>

\* What a rename that failed leaves is removed, whoever made it.
RemoveTmp(w) ==
    /\ opc[w] = "clean" /\ tmpName' = 0
    /\ opc' = [opc EXCEPT ![w] = "idle"]
    /\ UNCHANGED <<objName, bytes, made, file, shared>>

DeleteObject ==
    /\ HasObject /\ objName' = 0
    /\ UNCHANGED <<tmpName, bytes, made, opc, file, shared>>

KillWriters ==
    /\ opc' = [w \in ObjectWriter |-> "idle"]
    /\ UNCHANGED <<tmpName, objName, bytes, made, file, shared>>

ObjectNext ==
    \/ DeleteObject \/ KillWriters
    \/ \E w \in ObjectWriter : Look(w) \/ CreateTmp(w) \/ WritePart(w) \/ Synced(w) \/ RenameTmp(w)
                               \/ RemoveTmp(w)

ObjectSpec == ObjectInit /\ [][ObjectNext]_objectVars

-----------------------------------------------------------------------------
ObjectFilesTypeOK ==
    /\ {tmpName, objName, made} \subseteq 0 .. MaxFiles
    /\ bytes \in [1 .. MaxFiles -> SUBSET {1, 2}]
    /\ opc \in [ObjectWriter -> {"idle", "create", "write", "rename", "clean"}]
    /\ file \in [ObjectWriter -> 0 .. MaxFiles]
    /\ shared \in BOOLEAN

\* "A crash between write and rename must not leave a half-written object behind":
\* the file under the object's name is whole whenever it is there, through kills
\* at any point and deletions by the garbage collector, unless two writers of the
\* same bytes had the temporary file open at once.
ObjectsWhole == ~shared /\ HasObject => bytes[objName] = {1, 2}

=============================================================================
