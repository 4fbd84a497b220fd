--------------------------- MODULE MCSyncDevices ---------------------------
(***************************************************************************)
(* Small instances of SyncDevices.  A path is <<name>>, a conflict copy    *)
(* <<name, device, second>>; so is a copy of a copy, which only a torn     *)
(* write can make necessary, and Unused keeps the two apart.               *)
(***************************************************************************)
EXTENDS SyncDevices, TLC

CONSTANTS MCNames    \* file names, model values

MCPaths == {<<n>> : n \in MCNames}
MCCopies == {<<n, d, s>> : n \in MCNames, d \in Devices, s \in Times}
MCPath == MCPaths \cup MCCopies
MCConflictPath(p, d, s) == <<p[1], d, s>>

\* The devices are interchangeable in every action and safety property.
MCSymmetry == Permutations(Devices)

=============================================================================
