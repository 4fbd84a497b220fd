------------------------------ MODULE VaultLog ------------------------------
(***************************************************************************)
(* What a vault promises the devices that sync with it (DESIGN.md,         *)
(* "Concurrency"): a log of trees that only grows, by one tree at a time;  *)
(* a device's commit extends it only while the device's view of the head   *)
(* is current.  The devices of SyncDevices ask no more of the vault than   *)
(* this, and VaultServer gives no less: the devices are shown to take      *)
(* steps of ClientSpec, the server to take steps of Spec.                  *)
(***************************************************************************)
EXTENDS Integers, Sequences

CONSTANTS
    Clients,
    Tree,
    None        \* seen[c] of a client that has not read the head

VARIABLES
    log,        \* the trees committed so far, oldest first
    seen        \* seen[c]: length of log when client c read the head
vars == <<log, seen>>

\* A vault may have a history before the first client meets it.
Init ==
    /\ log \in Seq(Tree)
    /\ seen = [c \in Clients |-> None]

Read(c) ==
    /\ seen' = [seen EXCEPT ![c] = Len(log)]
    /\ UNCHANGED log

\* One tree more, after those there were.
Extended ==
    /\ log' # <<>>
    /\ log'[Len(log')] \in Tree
    /\ log' = Append(log, log'[Len(log')])

\* A device's commit is accepted.
Push(c) ==
    /\ seen[c] = Len(log)
    /\ Extended
    /\ seen' = [seen EXCEPT ![c] = None]

\* The file API changes the newest tree.
Edit ==
    /\ Extended
    /\ UNCHANGED seen

\* Conflicts, errors and restarts: some clients have to start over.
StartOver ==
    /\ \E lost \in SUBSET Clients :
          seen' = [c \in Clients |-> IF c \in lost THEN None ELSE seen[c]]
    /\ UNCHANGED log

\* What the clients do between them: the log grows by their pushes alone.
ClientNext == StartOver \/ \E c \in Clients : Read(c) \/ Push(c)
ClientSpec == Init /\ [][ClientNext]_vars

Next == Edit \/ ClientNext
Spec == Init /\ [][Next]_vars

=============================================================================
