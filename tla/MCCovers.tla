------------------------------ MODULE MCCovers -------------------------------
(***************************************************************************)
(* The cover half of the worker on a small instance: two URLs of which the *)
(* cache holds one, two file names, two images of one size.  The jobs, the *)
(* files' changes and the crashes of a behaviour are bounded by budgets,   *)
(* the worker's own steps are not.                                         *)
(***************************************************************************)
EXTENDS Covers, TLC

CONSTANTS u1, u2, n1, n2, x1, x2, MaxJobs, MaxChanges, MaxCrashes

VARIABLES jobs, changes, crashes   \* what is left of the budgets

MCPictureAt == (u1 :> x1) @@ (u2 :> x2)
MCSizeOf == [x \in Pictures |-> 2]

\* The names are alike, and so are the URLs, each with its image.
Swap == (u1 :> u2) @@ (u2 :> u1) @@ (x1 :> x2) @@ (x2 :> x1)
Same == [v \in {u1, u2, x1, x2} |-> v]
Alike == {names @@ others : names \in Permutations({n1, n2}), others \in {Same, Swap}}

\* The daemon is started and restarted in one of the modes, its jobs come in both.
Seeded == last_committed.id = None => last_committed.mode = "Dark"

MCInit == Init /\ Seeded /\ jobs = MaxJobs /\ changes = MaxChanges /\ crashes = MaxCrashes

Ask(A) == jobs > 0 /\ jobs' = jobs - 1 /\ A /\ UNCHANGED <<changes, crashes>>
Change(A) == changes > 0 /\ changes' = changes - 1 /\ A /\ UNCHANGED <<jobs, crashes>>
Crash(A) ==
    crashes > 0 /\ crashes' = crashes - 1 /\ A /\ Seeded' /\ UNCHANGED <<jobs, changes>>

MCNext ==
    \/ \E source \in Urls \cup Names \cup {Dir, None}, mode \in Modes :
          Ask(StartJob(source, mode))
    \/ Worker /\ UNCHANGED <<jobs, changes, crashes>>
    \/ Change(MakeDir)
    \/ \E n \in Names, picture \in Pictures, written \in 0..2 :
          Change(CreateCover(n, picture, written))
    \/ \E n \in Names : Change(WriteCover(n)) \/ Change(RemoveCover(n))
    \/ \E u \in Urls : Change(Age(u))
    \/ Crash(ProcessCrash)
    \/ Crash(SystemCrash)

MCSpec == MCInit /\ [][MCNext]_<<vars, jobs, changes, crashes>>
=============================================================================
