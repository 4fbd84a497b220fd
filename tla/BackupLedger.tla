---------------------------- MODULE BackupLedger ----------------------------
(***************************************************************************)
(* The camera backup of the Android client: a run of BackupWorker reads    *)
(* the watermark and the ledger from the settings, goes through the photos *)
(* added since in the order they were added, and writes both back in       *)
(* batches and at its end (sync/BackupWorker.kt, data/Settings.kt).        *)
(*                                                                         *)
(* The periodic job and "back up now" are two works that may run at once.  *)
(* The process may be killed between any two writes, an upload may fail,   *)
(* and the user may sign out and sign in to an empty vault.                *)
(***************************************************************************)
EXTENDS Integers, FiniteSets

CONSTANTS
    Shot,               \* photos; a photo's bytes are its own
    AddedAt(_),         \* DATE_ADDED, in whole seconds, from 1
    Oversize,           \* photos above MAX_PHOTO_BYTES
    BackupRun,          \* works that may run at once
    LEDGER_BATCH,
    MaxFails            \* bound: failed uploads, killed processes and sign-outs

ASSUME BackupAssumption ==
    /\ Oversize \subseteq Shot /\ \A s \in Shot : AddedAt(s) \in Nat \ {0}
    /\ LEDGER_BATCH \in Nat \ {0} /\ MaxFails \in Nat

VARIABLES
    camera,     \* the photos on the phone
    lastBackup, \* LAST_BACKUP in the settings
    ledger,     \* BACKED_UP in the settings
    vaulted,    \* photos that the vault has
    bpc,        \* bpc[r]: "idle", "photos", "flush", "record", "lastflush", "lastrecord"
    todo,       \* todo[r]: the rows of its query it has not come to
    known, unsaved, watermark, stalled,     \* [BackupRun -> ...], the variables of doWork
    at,         \* at[r]: DATE_ADDED of the photo in hand
    fails,
    leftover    \* history: the user signed out while a run was at work

backupVars == <<camera, lastBackup, ledger, vaulted, bpc, todo, known, unsaved, watermark, stalled, at,
                fails, leftover>>

BackupInit ==
    /\ camera = {} /\ lastBackup = 0 /\ ledger = {} /\ vaulted = {}
    /\ bpc = [r \in BackupRun |-> "idle"]
    /\ todo = [r \in BackupRun |-> {}] /\ known = todo /\ unsaved = todo
    /\ watermark = [r \in BackupRun |-> 0] /\ at = watermark
    /\ stalled = [r \in BackupRun |-> FALSE]
    /\ fails = 0 /\ leftover = FALSE

-----------------------------------------------------------------------------
\* A photo is added, never before one that is there already.
Shoot == \E s \in Shot \ camera :
    /\ \A x \in camera : AddedAt(x) =< AddedAt(s)
    /\ camera' = camera \cup {s}
    /\ UNCHANGED <<lastBackup, ledger, vaulted, bpc, todo, known, unsaved, watermark, stalled, at, fails, leftover>>

\* doWork, as far as the query.
StartRun(r) ==
    /\ bpc[r] = "idle" /\ bpc' = [bpc EXCEPT ![r] = "photos"]
    /\ known'     = [known EXCEPT ![r] = ledger]
    /\ todo'      = [todo EXCEPT ![r] = {s \in camera : AddedAt(s) > lastBackup}]
    /\ watermark' = [watermark EXCEPT ![r] = lastBackup]
    /\ unsaved'   = [unsaved EXCEPT ![r] = {}] /\ stalled' = [stalled EXCEPT ![r] = FALSE]
    /\ UNCHANGED <<camera, lastBackup, ledger, vaulted, at, fails, leftover>>

\* A watermark that follows the cursor.
AdvancedAlways(r, t) == t

\* "Only advances past photos that succeeded. Once one fails, it stops."
Advanced(r, t) == IF stalled[r] THEN watermark[r] ELSE t

InHand(r, s) ==
    /\ bpc[r] = "photos" /\ s \in todo[r]
    /\ \A x \in todo[r] : AddedAt(s) =< AddedAt(x)
    /\ todo' = [todo EXCEPT ![r] = @ \ {s}]

\* Too large, or its hash is known.
PassPhoto(r) == \E s \in todo[r] :
    /\ InHand(r, s) /\ s \in Oversize \cup known[r]
    /\ watermark' = [watermark EXCEPT ![r] = Advanced(r, AddedAt(s))]
    /\ UNCHANGED <<camera, lastBackup, ledger, vaulted, bpc, known, unsaved, stalled, at, fails, leftover>>

UploadPhoto(r) == \E s \in todo[r] :
    /\ InHand(r, s) /\ s \notin Oversize \cup known[r]
    /\ vaulted' = vaulted \cup {s}
    /\ known'   = [known EXCEPT ![r] = @ \cup {s}]
    /\ unsaved' = [unsaved EXCEPT ![r] = @ \cup {s}]
    /\ IF Cardinality(unsaved'[r]) >= LEDGER_BATCH
       THEN bpc' = [bpc EXCEPT ![r] = "flush"] /\ at' = [at EXCEPT ![r] = AddedAt(s)] /\ UNCHANGED watermark
       ELSE watermark' = [watermark EXCEPT ![r] = Advanced(r, AddedAt(s))] /\ UNCHANGED <<bpc, at>>
    /\ UNCHANGED <<camera, lastBackup, ledger, stalled, fails, leftover>>

Fail == fails < MaxFails /\ fails' = fails + 1

\* A photo that cannot be read, known or not, or not be uploaded.
FailPhoto(r) == \E s \in todo[r] :
    /\ InHand(r, s) /\ s \notin Oversize
    /\ Fail /\ stalled' = [stalled EXCEPT ![r] = TRUE]
    /\ UNCHANGED <<camera, lastBackup, ledger, vaulted, bpc, known, unsaved, watermark, at, leftover>>

\* What markBackedUp is given, in a ledger that is written ahead.
ToLedgerAhead(r) == unsaved[r] \cup todo[r]

ToLedger(r) == unsaved[r]

\* flushLedger.
Flush(r) ==
    /\ bpc[r] \in {"flush", "lastflush"}
    /\ ledger' = ledger \cup ToLedger(r)
    /\ unsaved' = [unsaved EXCEPT ![r] = {}]
    /\ bpc' = [bpc EXCEPT ![r] = IF @ = "flush" THEN "record" ELSE "lastrecord"]
    /\ UNCHANGED <<camera, lastBackup, vaulted, todo, known, watermark, stalled, at, fails, leftover>>

\* recordBackupTime after a batch, and the watermark moves past the photo.
Record(r) ==
    /\ bpc[r] = "record"
    /\ lastBackup' = IF stalled[r] THEN lastBackup ELSE watermark[r]
    /\ watermark' = [watermark EXCEPT ![r] = Advanced(r, at[r])]
    /\ bpc' = [bpc EXCEPT ![r] = "photos"] /\ at' = [at EXCEPT ![r] = 0]
    /\ UNCHANGED <<camera, ledger, vaulted, todo, known, unsaved, stalled, fails, leftover>>

\* The cursor is at its end, or the work is stopped.
EndPhotos(r) ==
    /\ bpc[r] = "photos" /\ bpc' = [bpc EXCEPT ![r] = "lastflush"]
    /\ \/ todo[r] = {} /\ UNCHANGED fails
       \/ todo[r] # {} /\ Fail
    /\ UNCHANGED <<camera, lastBackup, ledger, vaulted, todo, known, unsaved, watermark, stalled, at, leftover>>

\* doWork is over, and its variables with it.
Over(runs) ==
    /\ bpc'       = [r \in BackupRun |-> IF r \in runs THEN "idle" ELSE bpc[r]]
    /\ todo'      = [r \in BackupRun |-> IF r \in runs THEN {} ELSE todo[r]]
    /\ known'     = [r \in BackupRun |-> IF r \in runs THEN {} ELSE known[r]]
    /\ unsaved'   = [r \in BackupRun |-> IF r \in runs THEN {} ELSE unsaved[r]]
    /\ watermark' = [r \in BackupRun |-> IF r \in runs THEN 0 ELSE watermark[r]]
    /\ at'        = [r \in BackupRun |-> IF r \in runs THEN 0 ELSE at[r]]
    /\ stalled'   = [r \in BackupRun |-> r \notin runs /\ stalled[r]]

RecordLast(r) ==
    /\ bpc[r] = "lastrecord" /\ lastBackup' = watermark[r]
    /\ Over({r})
    /\ UNCHANGED <<camera, ledger, vaulted, fails, leftover>>

KillPhone ==
    /\ Fail /\ Over(BackupRun)
    /\ UNCHANGED <<camera, lastBackup, ledger, vaulted, leftover>>

\* Settings.clear, and signIn to a vault without photos; a run goes on.
SignOut ==
    /\ Fail /\ lastBackup' = 0 /\ ledger' = {} /\ vaulted' = {}
    /\ leftover' = (leftover \/ \E r \in BackupRun : bpc[r] # "idle")
    /\ UNCHANGED <<camera, bpc, todo, known, unsaved, watermark, stalled, at>>

Working(r) == PassPhoto(r) \/ UploadPhoto(r) \/ Flush(r) \/ Record(r) \/ EndPhotos(r) \/ RecordLast(r)

BackupNext == Shoot \/ KillPhone \/ SignOut \/ \E r \in BackupRun : StartRun(r) \/ Working(r) \/ FailPhoto(r)

BackupSpec == BackupInit /\ [][BackupNext]_backupVars

\* What is fair: WorkManager runs the periodic work again and again, to its end.
BackupGoesOn(r) == StartRun(r) \/ Working(r)

-----------------------------------------------------------------------------
BackupTypeOK ==
    /\ camera \cup ledger \cup vaulted \subseteq Shot
    /\ lastBackup \in {0} \cup {AddedAt(s) : s \in Shot}
    /\ bpc \in [BackupRun -> {"idle", "photos", "flush", "record", "lastflush", "lastrecord"}]
    /\ {todo, known, unsaved} \subseteq [BackupRun -> SUBSET Shot]
    /\ stalled \in [BackupRun -> BOOLEAN] /\ fails \in 0 .. MaxFails /\ leftover \in BOOLEAN

Alone(s) == \A x \in Shot \ {s} : AddedAt(x) # AddedAt(s)

\* What the next run will not look at is in the vault: the recorded watermark
\* never passes a photo that was not uploaded, over failures, kills between the
\* batches, and two runs at once, unless the photo shares its second with another
\* or is too large, or the user signed out during a run.
NothingSkipped == ~leftover =>
    \A s \in camera \ Oversize : Alone(s) /\ AddedAt(s) =< lastBackup => s \in vaulted

\* A photo in the ledger, which no run uploads again, is in the vault.
LedgerTruthful == ~leftover => ledger \subseteq vaulted

\* Once failures stop, every photo gets to the vault.
BackupCatchesUp == (<>leftover) \/ <>[](\A s \in camera \ Oversize : Alone(s) => s \in vaulted)

=============================================================================
