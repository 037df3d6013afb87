------------------------------ MODULE MCBatches ------------------------------
(***************************************************************************)
(* Work done in batches: the passes over the event queue, and the sheets    *)
(* whose rows are imported: Outbox and Imports side by side, each on a      *)
(* small instance.  No row of one is written by the other; focus names the  *)
(* one a behaviour is about.                                                *)
(***************************************************************************)
EXTENDS MCOutbox

CONSTANTS None, i1, v, Bad, Odd, a, b, j1

VARIABLES focus, lead, job, lock, txn, applied, basis, tangled

sheetVars == <<lead, job, lock, txn, applied, basis, tangled>>

-----------------------------------------------------------------------------
(* A sheet as two mappings read it: the lead of each row, a value, an owner. *)
Line(i, x, m) == [id |-> i, value |-> x, owner |-> m]
Mappings == {1, 2}
SomeSheets ==
  { << <<Line(i1, v, a), Line(i1, v, a)>>, <<Line(i1, v, None), Line(i1, Odd, a)>>,
       <<Line(i1, Bad, b), Line(None, v, b)>>, <<Line(i1, v, b), Line(None, v, None)>> >> }
Asks == {<<1, "WEIGHTED">>, <<2, "AVAILABILITY">>}
People == {i1}
Cells == {v}
Owners == {a, b}
Both == <<a, b>>
TwoToOne == a :> 2 @@ b :> 1
Runs == {j1}

(* One run, one person to find, two members to deal to; it may be applied    *)
(* twice.  The two requests have the names of the two passes, so that one     *)
(* permutation serves both.                                                 *)
Sheet == INSTANCE Imports WITH
  Identity <- People, Value <- Cells, Member <- Owners, Mapping <- Mappings, Asked <- Asks,
  Sheets <- SomeSheets, Wanted <- Both, Weight <- TwoToOne, Job <- Runs, Call <- Worker,
  MaxApplied <- 2, Nil <- None

(* What the proofs assume of the constants of an import. *)
ASSUME SheetConstants == Sheet!ImportAssumption

NoSheet == /\ lead = None /\ job = None /\ lock = None /\ txn = None
           /\ applied = None /\ basis = None /\ tangled = None

BatchInit ==
  /\ Init
  /\ focus \in {"queue", "imports"}
  /\ IF focus = "imports" THEN Sheet!ImportInit ELSE NoSheet

RunQueue == focus = "queue" /\ Next /\ UNCHANGED <<focus, sheetVars>>
RunImports == focus = "imports" /\ Sheet!ImportNext /\ UNCHANGED <<focus, vars>>

BatchNext == RunQueue \/ RunImports

BatchSpec == BatchInit /\ [][BatchNext]_<<vars, focus, sheetVars>>

-----------------------------------------------------------------------------
(* Properties of an import; those of the queue are stated in Outbox.        *)

(* A commit of a run that stood PREVIEWED, and that finds the leads its dry  *)
(* run found, does to every row what the dry run on show said.              *)
PreviewForetells == [][focus = "imports" => Sheet!CommitAsForetold]_sheetVars

(* An imported batch is dealt by the weights, to one turn. *)
EvenSplit == focus = "imports" => Sheet!EvenSplit
=============================================================================
