------------------------------ MODULE MealPlan ------------------------------
(***************************************************************************)
(* The household's plan of one week and what its confirmation puts on the  *)
(* grocery list (src/src/services/meal_plan_service.py).                   *)
(*                                                                         *)
(* Confirming an entry is not one transaction: create_item commits for     *)
(* every ingredient, and the first of these commits also writes the status *)
(* the handler has set before its loop.  After a commit or a rollback      *)
(* SQLAlchemy loads the ingredients anew, one when the loop reaches it.    *)
(*                                                                         *)
(* The recipe of an entry stays: delete_recipe fails on the foreign key    *)
(* that refers to it from meal_plan_entries.                               *)
(***************************************************************************)
EXTENDS Naturals, FiniteSets

CONSTANTS Plans,        \* the drafts that may be generated for the week
          Days,         \* its dinner slots
          Manual,       \* the entries that may be added one by one
          Ingredients,  \* the ingredients that may be added to recipes
          Dish,         \* the ingredients the recipe of an entry may have
          Requests,     \* the threads of the pool
          MaxFaults     \* bound: refused items, failed commits and crashes

Week(p) == {<<p, d>> : d \in Days}
Entries == (Plans \X Days) \cup Manual

ASSUME PlanAssumption ==
  /\ Manual \cap (Plans \X Days) = {}
  /\ Dish \in [Entries -> SUBSET Ingredients]
  /\ IsFiniteSet(Requests)
  /\ MaxFaults \in Nat

VARIABLES
  status,  \* meal_plan_entries.status, "absent" before the row exists
  recipe,  \* recipe_ingredients: "none" yet, "required", "optional" or "deleted"
  listed,  \* how many grocery items confirmations made, by entry and ingredient
  req,     \* the handlers at work
  undone,  \* history: the entries whose approval a refused item rolled back
  faults   \* faults so far, up to MaxFaults

vars == <<status, recipe, listed, req, undone, faults>>

Statuses == {"absent", "draft", "approved"}
Drafts   == {e \in Entries : status[e] = "draft"}

Loadable == {i \in Ingredients : recipe[i] \in {"required", "optional"}}
Required == {i \in Ingredients : recipe[i] = "required"}

Idle       == [op |-> "none"]
Generating == [op |-> "generate"]

\* A confirmation: the ingredients to come, those that were required when it
\* loaded them, and whether this copy is still in use and the new status still to
\* be written.  kept is history, what it must have listed in the end: what was
\* required when it loaded it and until its loop came to it, and has not been
\* refused; and whatever it has counted as listed.
Confirming ==
  [op : {"confirm"}, entry : Entries, todo : SUBSET Ingredients,
   loaded : SUBSET Ingredients, dirty : BOOLEAN, kept : SUBSET Ingredients]

Confirm(e) == [op |-> "confirm", entry |-> e, todo |-> Dish[e] \cap Loadable,
               loaded |-> Dish[e] \cap Required, dirty |-> TRUE,
               kept |-> Dish[e] \cap Required]

Init ==
  /\ status = [e \in Entries |-> "absent"]
  /\ recipe \in [Ingredients -> {"none", "required", "optional"}]
  /\ listed = [e \in Entries |-> [i \in Ingredients |-> 0]]
  /\ req    = [r \in Requests |-> Idle]
  /\ undone = {}
  /\ faults = 0

-----------------------------------------------------------------------------
(* Drafting, and what the owner of a recipe does to its ingredients.       *)

\* Mutant: existing drafts are not looked for.
StartGenerateUnchecked(r) ==
  /\ req[r] = Idle
  /\ req' = [req EXCEPT ![r] = Generating]
  /\ UNCHANGED <<status, recipe, listed, undone, faults>>

\* generate_draft_meal_plan up to its commit: no draft in this week.
StartGenerate(r) ==
  /\ req[r] = Idle
  /\ Drafts = {}
  /\ req' = [req EXCEPT ![r] = Generating]
  /\ UNCHANGED <<status, recipe, listed, undone, faults>>

\* All slots of the week in one commit.
CommitGenerate(r, p) ==
  /\ req[r] = Generating
  /\ \A e \in Week(p) : status[e] = "absent"
  /\ status' = [e \in Entries |-> IF e \in Week(p) THEN "draft" ELSE status[e]]
  /\ req' = [req EXCEPT ![r] = Idle]
  /\ UNCHANGED <<recipe, listed, undone, faults>>

\* Mutant: an entry added by hand goes to the vote first.
CreateVoting(e) ==
  /\ status[e] = "absent"
  /\ status' = [status EXCEPT ![e] = "voting"]
  /\ UNCHANGED <<recipe, listed, req, undone, faults>>

\* create_entry: entry, opt-in and persistence of the recipe in one commit.
CreateEntry(e) ==
  /\ status[e] = "absent"
  /\ status' = [status EXCEPT ![e] = "draft"]
  /\ UNCHANGED <<recipe, listed, req, undone, faults>>

Works(r) == req[r].op = "confirm"

\* The handlers once the owner of the recipe has changed ingredient i.
NotKept(i) ==
  [r \in Requests |->
    IF Works(r) /\ i \in req[r].todo THEN [req[r] EXCEPT !.kept = @ \ {i}] ELSE req[r]]

\* add_recipe_ingredient; is_optional is s.
AddIngredient(i, s) ==
  /\ recipe[i] = "none"
  /\ recipe' = [recipe EXCEPT ![i] = s]
  /\ UNCHANGED <<status, listed, req, undone, faults>>

\* update_recipe_ingredient with another is_optional.
UpdateIngredient(i) ==
  /\ i \in Loadable
  /\ recipe' = [recipe EXCEPT ![i] = IF @ = "required" THEN "optional" ELSE "required"]
  /\ req' = NotKept(i)
  /\ UNCHANGED <<status, listed, undone, faults>>

DeleteIngredient(i) ==
  /\ i \in Loadable
  /\ recipe' = [recipe EXCEPT ![i] = "deleted"]
  /\ req' = NotKept(i)
  /\ UNCHANGED <<status, listed, undone, faults>>

-----------------------------------------------------------------------------
(* Confirming.                                                             *)

\* Mutant: any entry can be confirmed, again if need be.
StartConfirmAny(r, e) ==
  /\ req[r] = Idle
  /\ status[e] # "absent"
  /\ req' = [req EXCEPT ![r] = Confirm(e)]
  /\ UNCHANGED <<status, recipe, listed, undone, faults>>

\* confirm_entry up to its loop.
StartConfirm(r, e) ==
  /\ req[r] = Idle
  /\ status[e] = "draft"
  /\ req' = [req EXCEPT ![r] = Confirm(e)]
  /\ UNCHANGED <<status, recipe, listed, undone, faults>>

\* What the loop sees of its next ingredient: the copy until the first commit.
SeesRequired(r, i) == IF req[r].dirty THEN i \in req[r].loaded ELSE recipe[i] = "required"
SeesOptional(r, i) == IF req[r].dirty THEN i \notin req[r].loaded ELSE recipe[i] = "optional"

\* What a commit of handler r makes of the statuses.
Approved(r) ==
  IF req[r].dirty THEN [status EXCEPT ![req[r].entry] = "approved"] ELSE status

SkipOptional(r, i) ==
  /\ Works(r)
  /\ i \in req[r].todo
  /\ SeesOptional(r, i)
  /\ req' = [req EXCEPT ![r].todo = @ \ {i}]
  /\ UNCHANGED <<status, recipe, listed, undone, faults>>

\* Mutant: the status is left to the commit after the loop.
ListBeforeApproval(r, i) ==
  /\ Works(r)
  /\ i \in req[r].todo
  /\ SeesRequired(r, i)
  /\ listed' = [listed EXCEPT ![req[r].entry][i] = @ + 1]
  /\ req' = [req EXCEPT ![r].todo = @ \ {i}]
  /\ UNCHANGED <<status, recipe, undone, faults>>

\* create_item for the next ingredient; its commit also writes the status.
ListIngredient(r, i) ==
  /\ Works(r)
  /\ i \in req[r].todo
  /\ SeesRequired(r, i)
  /\ listed' = [listed EXCEPT ![req[r].entry][i] = @ + 1]
  /\ status' = Approved(r)
  /\ req' = [req EXCEPT ![r].todo = @ \ {i},
                     ![r].dirty = FALSE, ![r].loaded = {}, ![r].kept = @ \cup {i}]
  /\ UNCHANGED <<recipe, undone, faults>>

\* Mutant: a refused ingredient breaks the loop.
RefusalBreaks(r, i) ==
  /\ Works(r)
  /\ i \in req[r].todo \cap Loadable
  /\ SeesRequired(r, i)
  /\ faults < MaxFaults
  /\ faults' = faults + 1
  /\ undone' = IF req[r].dirty THEN undone \cup {req[r].entry} ELSE undone
  /\ req' = [req EXCEPT ![r].todo = {},
                     ![r].dirty = FALSE, ![r].loaded = {}, ![r].kept = @ \ {i}]
  /\ UNCHANGED <<status, recipe, listed>>

\* create_item refuses the ingredient with a ValidationError: the loop logs it,
\* with the name it reads anew, and goes on.  The rollback has taken back the
\* status too, if it was not written yet.
RefuseIngredient(r, i) ==
  /\ Works(r)
  /\ i \in req[r].todo \cap Loadable
  /\ SeesRequired(r, i)
  /\ faults < MaxFaults
  /\ faults' = faults + 1
  /\ undone' = IF req[r].dirty THEN undone \cup {req[r].entry} ELSE undone
  /\ req' = [req EXCEPT ![r].todo = @ \ {i},
                     ![r].dirty = FALSE, ![r].loaded = {}, ![r].kept = @ \ {i}]
  /\ UNCHANGED <<status, recipe, listed>>

\* The loop reaches an ingredient that has been deleted: ObjectDeletedError.
IngredientGone(r) ==
  /\ Works(r)
  /\ ~req[r].dirty
  /\ \E i \in req[r].todo : recipe[i] = "deleted"
  /\ req' = [req EXCEPT ![r] = Idle]
  /\ UNCHANGED <<status, recipe, listed, undone, faults>>

\* The commit after the loop.
FinishConfirm(r) ==
  /\ Works(r)
  /\ req[r].todo = {}
  /\ status' = Approved(r)
  /\ req' = [req EXCEPT ![r] = Idle]
  /\ UNCHANGED <<recipe, listed, undone, faults>>

\* A commit raises, the new row cannot be read back, or the process is gone:
\* what earlier commits have written stays.
Fail(r) ==
  /\ req[r] # Idle
  /\ faults < MaxFaults
  /\ faults' = faults + 1
  /\ req' = [req EXCEPT ![r] = Idle]
  /\ UNCHANGED <<status, recipe, listed, undone>>

Next ==
  \/ \E e \in Manual : CreateEntry(e)
  \/ \E i \in Ingredients :
       \/ \E s \in {"required", "optional"} : AddIngredient(i, s)
       \/ UpdateIngredient(i)
       \/ DeleteIngredient(i)
  \/ \E r \in Requests :
       \/ StartGenerate(r)
       \/ \E p \in Plans : CommitGenerate(r, p)
       \/ \E e \in Entries : StartConfirm(r, e)
       \/ \E i \in Ingredients :
            \/ SkipOptional(r, i)
            \/ ListIngredient(r, i)
            \/ RefuseIngredient(r, i)
       \/ IngredientGone(r)
       \/ FinishConfirm(r)
       \/ Fail(r)

Spec == Init /\ [][Next]_vars

-----------------------------------------------------------------------------
(* Properties.                                                             *)

TypeOK ==
  /\ status \in [Entries -> Statuses]
  /\ recipe \in [Ingredients -> {"none", "required", "optional", "deleted"}]
  /\ listed \in [Entries -> [Ingredients -> Nat]]
  /\ req \in [Requests -> Confirming \cup {Idle, Generating}]
  /\ undone \in SUBSET Entries
  /\ faults \in 0..MaxFaults

\* A draft has no impact on the grocery list: at no moment, not even between
\* the commits of a confirmation or after one of them has failed, is there a
\* grocery item of an entry that is not approved; unless the entry is still a
\* draft because a refused item took back its approval.
DraftsListNothing ==
  \A e \in Entries \ undone : status[e] # "approved" =>
                                \A i \in Ingredients : listed[e][i] = 0

\* A confirmation that is answered with 200 is complete: its entry is approved,
\* unless a refused item has taken that back, and every ingredient that was
\* required when it was loaded and until the loop came to it, and was not refused
\* itself, is on the list, whatever other handlers, the owner of the recipe and
\* failures have done.
OkMeansListed ==
  [][\A r \in Requests : FinishConfirm(r) =>
       /\ status'[req[r].entry] = "approved" \/ req[r].entry \in undone
       /\ \A i \in req[r].kept : listed'[req[r].entry][i] > 0]_vars

\* The inductive invariant behind these two: a handler that has nothing of the
\* status left to write finds it written; its copy holds what it must list; what
\* it must list and has still to do is required to this day; and what it must
\* list and has done is on the list.
CleanIsApproved ==
  \A r \in Requests :
    Works(r) /\ ~req[r].dirty => status[req[r].entry] = "approved" \/ req[r].entry \in undone

KeptIsRequired ==
  \A r \in Requests : Works(r) =>
    /\ req[r].kept \cap req[r].todo \subseteq Required
    /\ req[r].dirty => req[r].kept \subseteq req[r].loaded

ListedOrTodo ==
  \A r \in Requests : Works(r) =>
    \A i \in req[r].kept : i \in req[r].todo \/ listed[req[r].entry][i] > 0

IInv ==
  /\ TypeOK
  /\ DraftsListNothing
  /\ CleanIsApproved
  /\ KeptIsRequired
  /\ ListedOrTodo

\* Two handlers may confirm the same draft, each listing every ingredient, but
\* not more than work at the same time: what has been confirmed, or has failed
\* half way, is never listed again (unless its approval was taken back).
ListedPerOverlap ==
  \A e \in Entries \ undone : \A i \in Ingredients :
    listed[e][i] <= Cardinality(Requests)

\* Nor do more plans for the week wait in draft, those about to be written
\* included, than were generated at once.
DraftPlans == {p \in Plans : Week(p) \cap Drafts # {}}
Generators == {r \in Requests : req[r] = Generating}

DraftsPerOverlap ==
  Cardinality(DraftPlans) + Cardinality(Generators) <= Cardinality(Requests)

\* Behind the first of these each handler counts once: for the item it has made
\* or is still to make of an ingredient.
Pending(e, i) ==
  {r \in Requests : Works(r) /\ req[r].entry = e /\ i \in req[r].todo}

ListedOrPending ==
  \A e \in Entries \ undone : \A i \in Ingredients :
    listed[e][i] + Cardinality(Pending(e, i)) <= Cardinality(Requests)

DraftedOrGenerating == IsFiniteSet(DraftPlans) /\ DraftsPerOverlap

\* Do no two handlers confirm one entry at the same time, or generate?
ConfirmsApart ==
  \A r, s \in Requests : Works(r) /\ Works(s) /\ req[r].entry = req[s].entry => r = s

GenerationsApart == \A r, s \in Generators : r = s

\* Then an ingredient of an entry is on the list once, and once it is, no handler
\* has it to do; and the week has one plan in draft, and once it has, no handler
\* is about to write another.
ListedOnce ==
  \A e \in Entries \ undone : \A i \in Ingredients :
    listed[e][i] <= 1 /\ (listed[e][i] > 0 => Pending(e, i) = {})

DraftedOnce ==
  /\ \A p, q \in DraftPlans : p = q
  /\ DraftPlans # {} => Generators = {}
=============================================================================
