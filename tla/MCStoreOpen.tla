---------------------------- MODULE MCStoreOpen -----------------------------
(* Instance of StoreOpen: two daemons with one base directory; in the first *)
(* two tasks open the store of a repository directory with two keys of      *)
(* different configurations.  At the start either home or repo is stale.     *)
EXTENDS StoreOpen, TLC
CONSTANTS d1, d2, o1, o2, o3, o4, home, repo, kBase, kRepo, kOther, a, b

MCDaemonOf == o1 :> d1 @@ o2 :> d1 @@ o3 :> d1 @@ o4 :> d2
MCAsks == o1 :> {kRepo} @@ o2 :> {kOther} @@ o3 :> {kBase} @@ o4 :> {kBase}
MCDirOf == kBase :> home @@ kRepo :> repo @@ kOther :> repo
MCConfigOf == kBase :> a @@ kRepo :> a @@ kOther :> b
Meta(v, c) == [version |-> v, config |-> c]
MCFound == {home :> Meta(0, a) @@ repo :> Meta(2, a),
            home :> None @@ repo :> Meta(0, b)}
=============================================================================
