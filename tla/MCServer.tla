------------------------------ MODULE MCServer ------------------------------
(* Small instances, for TLC, of what a server does besides serving pages:  *)
(* the rollback of a namespace lock, the administration of namespaces, and *)
(* the timekeeper.  They share no state, so a behaviour is one of the      *)
(* scenes.                                                                 *)
EXTENDS MCNsLock, Namespaces, Timekeeper

VARIABLE scene

\* A rollback; two administrative requests and a listing; one administrative
\* request and a server that resolves keys; the timekeeper.
Scenes == {"rollback", "admin", "resolve", "timekeeper"}
TheAdmin == CHOOSE r \in Admin : TRUE
\* Namespaces created in the scene that resolves keys (bound).
MaxResolved == 2

MCVars == <<scene, nsVars, namesVars, tkVars>>
\* The plan of a transaction matters in the first scene only.
MCInit ==
    /\ scene \in Scenes /\ NsInit /\ NamesInit /\ TkInit
    /\ scene # "rollback" => \A t \in Tx : tx[t].plan = CHOOSE p \in Plan : TRUE

Locks == scene = "rollback" /\ NsNext /\ UNCHANGED <<scene, namesVars, tkVars>>
Admins ==
    /\ scene = "admin"
    /\ \/ \E r \in Admin : Administer(r)
       \/ Listing
    /\ UNCHANGED <<scene, nsVars, tkVars>>
Resolves ==
    /\ scene = "resolve"
    /\ Administer(TheAdmin) \/ Resolve
    /\ lastId' <= MaxResolved
    /\ UNCHANGED <<scene, nsVars, tkVars>>
Keeps == scene = "timekeeper" /\ TkNext /\ UNCHANGED <<scene, nsVars, namesVars>>
Releases(r) == scene = "rollback" /\ Release(r) /\ UNCHANGED <<scene, namesVars, tkVars>>

\* The fairness of NsFairSpec.
MCSpec ==
    /\ MCInit /\ [][Locks \/ Admins \/ Resolves \/ Keeps]_MCVars
    /\ \A r \in Handler : WF_MCVars(Releases(r))
=============================================================================
