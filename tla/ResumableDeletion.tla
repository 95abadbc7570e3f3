-------------------------- MODULE ResumableDeletion --------------------------
(***************************************************************************)
(* What the execute command promises over all its runs, crashes and        *)
(* re-runs, with no run, worker or file system in sight: secrets named by  *)
(* the plan disappear from Vault, and a durable record catches up with     *)
(* them one action at a time and is never ahead of Vault.                  *)
(***************************************************************************)
CONSTANTS Action, Eligible

VARIABLES destroyed,  \* the actions whose secret was removed
          record      \* the durable status of every action

avars == <<destroyed, record>>

Init == /\ destroyed = {}
        /\ record = [a \in Action |-> "pending"]

\* Requests take effect; several may do so at once when the process dies.
Remove(S) == /\ S \subseteq Eligible
             /\ destroyed' = destroyed \cup S
             /\ UNCHANGED record

\* One result is recorded.  A recorded deletion is final and is always true.
Record(a, status) ==
  /\ record[a] # "deleted"
  /\ status = "deleted" => a \in destroyed
  /\ record' = [record EXCEPT ![a] = status]
  /\ UNCHANGED destroyed

Next == \/ \E S \in SUBSET Eligible : Remove(S)
        \/ \E a \in Eligible, status \in {"deleted", "failed"} : Record(a, status)

Spec == Init /\ [][Next]_avars
===============================================================================
