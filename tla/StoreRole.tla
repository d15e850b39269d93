----------------------------- MODULE StoreRole -----------------------------
(***************************************************************************)
(* What core/writer_lock.py promises about one data directory: a process   *)
(* may hold the "local" role (it opens the store itself) or the "server"   *)
(* role (it serves the store to others).  Any number of local holders      *)
(* coexist; a server coexists with nobody else.  A process may hold both   *)
(* roles of its own store, and loses them only by releasing or by dying.   *)
(*                                                                         *)
(* WriterLock implements this with files and flock; here a role is granted *)
(* in one step.                                                            *)
(***************************************************************************)

CONSTANT Procs

VARIABLE roles          \* roles[p]: the roles process p holds

Roles == {"local", "server"}

Init == roles = [p \in Procs |-> {}]

\* p may be given r: nobody else serves the store and, for "server", nobody
\* else uses it at all.
Compatible(p, r) ==
  \A q \in Procs \ {p} : IF r = "server" THEN roles[q] = {} ELSE "server" \notin roles[q]

Take(p, r) ==
  /\ Compatible(p, r)
  /\ roles' = [roles EXCEPT ![p] = @ \cup {r}]

Drop(p, r) == roles' = [roles EXCEPT ![p] = @ \ {r}]

Die(p) == roles' = [roles EXCEPT ![p] = {}]

Next == \E p \in Procs :
  \/ \E r \in Roles : Take(p, r) \/ Drop(p, r)
  \/ Die(p)

Spec == Init /\ [][Next]_roles

\* No process holds any role of a store that another process serves.
Exclusive ==
  \A p, q \in Procs : p # q /\ "server" \in roles[p] => roles[q] = {}
=============================================================================
