---------------------------- MODULE RuntimeStore ----------------------------
(***************************************************************************)
(* What the directory of Runtime versions promises the clients that share  *)
(* it: a version, once installed, is one release for ever; and the         *)
(* activation record always names installed releases, both the active one  *)
(* and the one a rollback would activate.                                  *)
(***************************************************************************)
CONSTANTS Releases, Versions, VersionOf, None

VARIABLES
    store,     \* the release installed as each version, or None
    current,   \* the activated release, or None
    previous   \* the release a rollback would activate, or None

Init ==
    /\ store = [v \in Versions |-> None]
    /\ current = None /\ previous = None

Installed(r) == store[VersionOf[r]] = r

Install(r) ==
    /\ store[VersionOf[r]] = None
    /\ store' = [store EXCEPT ![VersionOf[r]] = r]
    /\ UNCHANGED <<current, previous>>

Switch(r, back) ==
    /\ Installed(r)
    /\ back = None \/ Installed(back)
    /\ current' = r /\ previous' = back
    /\ UNCHANGED store

Next ==
    \/ \E r \in Releases : Install(r)
    \/ \E r \in Releases, back \in Releases \cup {None} : Switch(r, back)

Spec == Init /\ [][Next]_<<store, current, previous>>
=============================================================================
