------------------------------ MODULE MCLeads -------------------------------
(* Leads on small instances: a workspace with two fields, and the edit       *)
(* requests a run may send.                                                  *)
EXTENDS Leads, TLC

CONSTANTS email, note, x, y, z, p, fresh, won, lost, old, m1, m2, price

SerialPatches ==
  { email :> x, email :> y,
    email :> None @@ note :> p @@ "stage" :> lost @@ "assignee" :> m2,
    email :> x @@ "stage" :> old }

RacePatches ==
  { email :> x, email :> z @@ note :> p,
    email :> y @@ "stage" :> won @@ "assignee" :> m1 @@ "rating" :> 1 }

AllViewers == {Member, {m1}}

Admins == {Member}

Symmetry == Permutations(Lead)
RaceSymmetry == Permutations(Lead) \cup Permutations(Request)
=============================================================================
