----------------------------- MODULE DiskStore -----------------------------
(***************************************************************************)
(* The disk store's own writers (plugin/src/storage/store-disk.ts) beside  *)
(* the locked transaction.  tasks.update, changes.save, setEpicMembership, *)
(* gates.complete and the other mutating methods of the Store load the     *)
(* change, mutate the copy and call persistChangeProjection, which saves   *)
(* it: no lock, no revision increment, no audit entry.                     *)
(***************************************************************************)
EXTENDS ChangeProjection

CONSTANTS
    StoreCallers,  \* calls of mutating Store methods in progress
    NoCopy         \* no document loaded

VARIABLE copy      \* the document each store call has loaded and mutated

storeVars == <<disk, lock, pc, req, value, outcome, wrote, acked, copy>>

StoreInit == Init /\ copy = [w \in StoreCallers |-> NoCopy]

\* loadChange, then the method's mutation of the loaded copy.
StoreLoad(w) ==
    /\ copy[w] = NoCopy
    /\ disk.present
    /\ disk.schema = "current"
    /\ copy' = [copy EXCEPT ![w] = disk]
    /\ UNCHANGED txVars

\* persistChangeProjection: saveChange replaces change.json by the mutated copy.
StoreSave(w) ==
    /\ copy[w] # NoCopy
    /\ disk' = copy[w]
    /\ copy' = [copy EXCEPT ![w] = NoCopy]
    /\ UNCHANGED <<lock, pc, req, value, outcome, wrote, acked>>

StoreNext ==
    \/ Next /\ UNCHANGED copy
    \/ \E w \in StoreCallers : StoreLoad(w) \/ StoreSave(w)

StoreSpec == StoreInit /\ [][StoreNext]_storeVars
=============================================================================
