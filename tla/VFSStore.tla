----------------------------- MODULE VFSStore -----------------------------
(***************************************************************************)
(* What an archive promises its readers: a map from name index to the     *)
(* plaintext last stored under it.  Write is Put, Delete is Remove; every *)
(* other archive operation (Create, Load, Unload, lookups) leaves the     *)
(* persisted content alone.  VFSArchive is checked to implement this.     *)
(***************************************************************************)
CONSTANTS
  Indices,  \* name indices (xxhash32 of the normalised path)
  Data,     \* plaintexts
  NoData    \* "no live entry under this index"

ASSUME NoData \notin Data

VARIABLE store

Init == store = [i \in Indices |-> NoData]

\* Write(path, data): the entry for the path's index now holds data.
Put(i, d) == store' = [store EXCEPT ![i] = d]

\* Delete(path): the index no longer has a live entry.
Remove(i) == store' = [store EXCEPT ![i] = NoData]

Next == \E i \in Indices : Remove(i) \/ \E d \in Data : Put(i, d)

Spec == Init /\ [][Next]_store
=============================================================================
