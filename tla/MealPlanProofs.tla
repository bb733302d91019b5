--------------------------- MODULE MealPlanProofs ---------------------------
(***************************************************************************)
(* What MealPlan promises of confirmations, for any number of plans, days, *)
(* ingredients, handlers and faults.                                       *)
(***************************************************************************)
EXTENDS MealPlan, FiniteSetTheorems, TLAPS

\* Records of the request table, told apart by their op.
LEMMA RequestShapes ==
  ASSUME TypeOK, NEW r \in Requests
  PROVE  /\ Works(r) => /\ req[r] \in Confirming
                        /\ req[r].entry \in Entries
                        /\ req[r].todo \subseteq Ingredients
                        /\ req[r].loaded \subseteq Ingredients
                        /\ req[r].kept \subseteq Ingredients
                        /\ req[r].dirty \in BOOLEAN
         /\ ~Works(r) => req[r] = Idle \/ req[r] = Generating
  BY DEF TypeOK, Works, Confirming, Idle, Generating

\* What a change of an ingredient by its owner leaves of handler r.
LEMMA NotKeptShapes ==
  ASSUME TypeOK, NEW i \in Ingredients, NEW r \in Requests
  PROVE  /\ NotKept(i)[r] \in Confirming \cup {Idle, Generating}
         /\ ~Works(r) => NotKept(i)[r] = req[r]
         /\ Works(r) => /\ NotKept(i)[r].op = "confirm"
                        /\ NotKept(i)[r].entry = req[r].entry
                        /\ NotKept(i)[r].todo = req[r].todo
                        /\ NotKept(i)[r].loaded = req[r].loaded
                        /\ NotKept(i)[r].dirty = req[r].dirty
                        /\ NotKept(i)[r].kept \subseteq req[r].kept
                        /\ i \notin NotKept(i)[r].kept \cap req[r].todo
  <1>1. CASE ~Works(r)
    BY <1>1, RequestShapes DEF NotKept
  <1>2. CASE Works(r) /\ i \in req[r].todo
    <2>1. req[r] \in Confirming
      BY <1>2, RequestShapes
    <2>2. NotKept(i)[r] = [req[r] EXCEPT !.kept = @ \ {i}]
      BY <1>2 DEF NotKept
    <2> QED
      BY <1>2, <2>1, <2>2 DEF Confirming
  <1>3. CASE Works(r) /\ i \notin req[r].todo
    <2>1. req[r] \in Confirming /\ NotKept(i)[r] = req[r]
      BY <1>3, RequestShapes DEF NotKept
    <2> QED
      BY <1>3, <2>1 DEF Works
  <1> QED
    BY <1>1, <1>2, <1>3

\* What the loop of a confirmation does to the handler.
LEMMA LoopShapes ==
  ASSUME TypeOK, NEW r \in Requests, NEW i \in Ingredients,
         SkipOptional(r, i) \/ ListIngredient(r, i) \/ RefuseIngredient(r, i)
  PROVE  /\ Works(r) /\ Works(r)'
         /\ i \in req[r].todo
         /\ req' = [req EXCEPT ![r] = req'[r]]
         /\ req'[r] \in Confirming
         /\ req'[r].entry = req[r].entry
         /\ req'[r].todo = req[r].todo \ {i}
         /\ SkipOptional(r, i) => /\ req'[r].dirty = req[r].dirty
                                  /\ req'[r].loaded = req[r].loaded
                                  /\ req'[r].kept = req[r].kept
         /\ ListIngredient(r, i) => /\ req'[r].dirty = FALSE
                                    /\ req'[r].kept = req[r].kept \cup {i}
         /\ RefuseIngredient(r, i) => /\ req'[r].dirty = FALSE
                                      /\ req'[r].kept = req[r].kept \ {i}
  <1> USE DEF TypeOK
  <1>1. Works(r) /\ i \in req[r].todo /\ req[r] \in Confirming
    BY RequestShapes DEF SkipOptional, ListIngredient, RefuseIngredient
  <1>2. CASE SkipOptional(r, i)
    <2>1. req' = [req EXCEPT ![r] = [req[r] EXCEPT !.todo = @ \ {i}]]
      BY <1>2 DEF SkipOptional
    <2>2. req'[r] = [req[r] EXCEPT !.todo = @ \ {i}]
      BY <2>1
    <2>3. ~ListIngredient(r, i) /\ ~RefuseIngredient(r, i)
      BY <1>2 DEF SkipOptional, ListIngredient, RefuseIngredient, SeesOptional, SeesRequired
    <2> QED
      BY <1>1, <2>1, <2>2, <2>3 DEF Confirming, Works
  <1>3. CASE ListIngredient(r, i)
    <2>1. req' = [req EXCEPT ![r] = [req[r] EXCEPT !.todo = @ \ {i}, !.dirty = FALSE,
                                                   !.loaded = {}, !.kept = @ \cup {i}]]
      BY <1>3 DEF ListIngredient
    <2>2. req'[r] = [req[r] EXCEPT !.todo = @ \ {i}, !.dirty = FALSE,
                                   !.loaded = {}, !.kept = @ \cup {i}]
      BY <2>1
    <2>3. ~SkipOptional(r, i)
      BY <1>3 DEF SkipOptional, ListIngredient, SeesOptional, SeesRequired
    <2>4. ~RefuseIngredient(r, i)
      BY <1>3 DEF ListIngredient, RefuseIngredient
    <2> QED
      BY <1>1, <2>1, <2>2, <2>3, <2>4 DEF Confirming, Works
  <1>4. CASE RefuseIngredient(r, i)
    <2>1. req' = [req EXCEPT ![r] = [req[r] EXCEPT !.todo = @ \ {i}, !.dirty = FALSE,
                                                   !.loaded = {}, !.kept = @ \ {i}]]
      BY <1>4 DEF RefuseIngredient
    <2>2. req'[r] = [req[r] EXCEPT !.todo = @ \ {i}, !.dirty = FALSE,
                                   !.loaded = {}, !.kept = @ \ {i}]
      BY <2>1
    <2>3. ~SkipOptional(r, i)
      BY <1>4 DEF SkipOptional, RefuseIngredient, SeesOptional, SeesRequired
    <2>4. ~ListIngredient(r, i)
      BY <1>4 DEF ListIngredient, RefuseIngredient
    <2> QED
      BY <1>1, <2>1, <2>2, <2>3, <2>4 DEF Confirming, Works
  <1> QED
    BY <1>2, <1>3, <1>4

\* Before anything happens no entry, handler or grocery item exists.
LEMMA InitIInv == Init => IInv
  <1> SUFFICES ASSUME Init PROVE IInv
    OBVIOUS
  <1>1. TypeOK
    BY PlanAssumption DEF Init, TypeOK, Statuses
  <1>2. \A r \in Requests : ~Works(r)
    BY DEF Init, Works, Idle
  <1> QED
    BY <1>1, <1>2 DEF Init, IInv, DraftsListNothing, CleanIsApproved,
                      KeptIsRequired, ListedOrTodo

\* Every step keeps the types.
LEMMA TypeStep == TypeOK /\ [Next]_vars => TypeOK'
  <1> SUFFICES ASSUME TypeOK, [Next]_vars PROVE TypeOK'
    OBVIOUS
  <1> USE DEF TypeOK
  <1>1. ASSUME NEW e \in Manual, CreateEntry(e) PROVE TypeOK'
    BY <1>1 DEF CreateEntry, Statuses, Entries
  <1>2. ASSUME NEW i \in Ingredients,
               \/ \E s \in {"required", "optional"} : AddIngredient(i, s)
               \/ UpdateIngredient(i) \/ DeleteIngredient(i)
        PROVE  TypeOK'
    <2>1. recipe' \in [Ingredients -> {"none", "required", "optional", "deleted"}]
      BY <1>2 DEF AddIngredient, UpdateIngredient, DeleteIngredient
    <2>2. NotKept(i) \in [Requests -> Confirming \cup {Idle, Generating}]
      BY NotKeptShapes DEF NotKept
    <2>3. req' = req \/ req' = NotKept(i)
      BY <1>2 DEF AddIngredient, UpdateIngredient, DeleteIngredient
    <2> QED
      BY <1>2, <2>1, <2>2, <2>3 DEF AddIngredient, UpdateIngredient, DeleteIngredient
  <1>3. ASSUME NEW r \in Requests, StartGenerate(r) PROVE TypeOK'
    BY <1>3 DEF StartGenerate
  <1>4. ASSUME NEW r \in Requests, NEW p \in Plans, CommitGenerate(r, p) PROVE TypeOK'
    <2>1. status' \in [Entries -> Statuses]
      BY <1>4 DEF CommitGenerate, Statuses
    <2> QED
      BY <1>4, <2>1 DEF CommitGenerate
  <1>5. ASSUME NEW r \in Requests, NEW e \in Entries, StartConfirm(r, e) PROVE TypeOK'
    <2>1. Confirm(e) \in Confirming
      BY PlanAssumption DEF Confirm, Confirming, Loadable, Required
    <2> QED
      BY <1>5, <2>1 DEF StartConfirm
  <1>6. ASSUME NEW r \in Requests, NEW i \in Ingredients,
               SkipOptional(r, i) \/ ListIngredient(r, i) \/ RefuseIngredient(r, i)
        PROVE  TypeOK'
    <2>1. req[r].entry \in Entries
      BY <1>6, LoopShapes, RequestShapes
    <2>2. req' \in [Requests -> Confirming \cup {Idle, Generating}]
      BY <1>6, LoopShapes
    <2>3. listed' \in [Entries -> [Ingredients -> Nat]]
      BY <1>6, <2>1 DEF SkipOptional, ListIngredient, RefuseIngredient
    <2>4. status' \in [Entries -> Statuses]
      BY <1>6, <2>1 DEF SkipOptional, ListIngredient, RefuseIngredient, Approved, Statuses
    <2>5. undone' \in SUBSET Entries /\ faults' \in 0..MaxFaults
      BY <1>6, <2>1, PlanAssumption DEF SkipOptional, ListIngredient, RefuseIngredient
    <2> QED
      BY <1>6, <2>2, <2>3, <2>4, <2>5 DEF SkipOptional, ListIngredient, RefuseIngredient
  <1>7. ASSUME NEW r \in Requests, IngredientGone(r) PROVE TypeOK'
    BY <1>7 DEF IngredientGone
  <1>8. ASSUME NEW r \in Requests, FinishConfirm(r) PROVE TypeOK'
    <2>1. req[r].entry \in Entries
      BY <1>8, RequestShapes DEF FinishConfirm
    <2>2. status' \in [Entries -> Statuses]
      BY <1>8, <2>1 DEF FinishConfirm, Approved, Statuses
    <2> QED
      BY <1>8, <2>1, <2>2 DEF FinishConfirm
  <1>9. ASSUME NEW r \in Requests, Fail(r) PROVE TypeOK'
    BY <1>9, PlanAssumption DEF Fail
  <1>10. CASE UNCHANGED vars
    BY <1>10 DEF vars
  <1> QED
    BY <1>1, <1>2, <1>3, <1>4, <1>5, <1>6, <1>7, <1>8, <1>9, <1>10 DEF Next

\* Nothing is taken off an approved entry or off the list, and what has been taken
\* back stays on record.
LEMMA Monotone ==
  ASSUME TypeOK, [Next]_vars
  PROVE  /\ \A e \in Entries : status[e] = "approved" => status'[e] = "approved"
         /\ \A e \in Entries : \A i \in Ingredients : listed[e][i] > 0 => listed'[e][i] > 0
         /\ undone \subseteq undone'
  <1> USE DEF TypeOK
  <1> DEFINE Goal == /\ \A e \in Entries : status[e] = "approved" => status'[e] = "approved"
                     /\ \A e \in Entries : \A i \in Ingredients : listed[e][i] > 0 => listed'[e][i] > 0
                     /\ undone \subseteq undone'
  <1>1. ASSUME NEW e \in Manual, CreateEntry(e) PROVE Goal
    BY <1>1 DEF CreateEntry
  <1>2. ASSUME UNCHANGED <<status, listed>>, undone \subseteq undone' PROVE Goal
    BY <1>2
  <1>4. ASSUME NEW r \in Requests, NEW p \in Plans, CommitGenerate(r, p) PROVE Goal
    BY <1>4 DEF CommitGenerate
  <1>6. ASSUME NEW r \in Requests, NEW i \in Ingredients, ListIngredient(r, i) PROVE Goal
    <2>1. req[r].entry \in Entries
      BY <1>6, RequestShapes DEF ListIngredient
    <2>2. \A e \in Entries : status[e] = "approved" => status'[e] = "approved"
      BY <1>6, <2>1 DEF ListIngredient, Approved
    <2>3. \A e \in Entries : \A j \in Ingredients : listed[e][j] > 0 => listed'[e][j] > 0
      BY <1>6, <2>1 DEF ListIngredient
    <2> QED
      BY <1>6, <2>2, <2>3 DEF ListIngredient
  <1>8. ASSUME NEW r \in Requests, FinishConfirm(r) PROVE Goal
    <2>1. req[r].entry \in Entries
      BY <1>8, RequestShapes DEF FinishConfirm
    <2> QED
      BY <1>8, <2>1 DEF FinishConfirm, Approved
  <1> QED
    BY <1>1, <1>2, <1>4, <1>6, <1>8
       DEF Next, vars, AddIngredient, UpdateIngredient, DeleteIngredient, StartGenerate,
           StartConfirm, SkipOptional, RefuseIngredient, IngredientGone, Fail

\* A step that leaves the loop of handler r where it is; what the handler must
\* still list, its owner has left required.
Calm(r) ==
  /\ req'[r].entry = req[r].entry
  /\ req'[r].todo = req[r].todo
  /\ req'[r].loaded = req[r].loaded
  /\ req'[r].dirty = req[r].dirty
  /\ req'[r].kept \subseteq req[r].kept
  /\ \A i \in Required : i \in req'[r].kept \cap req[r].todo => i \in Required'

\* A handler that is confirming after a step either was at it before and has not
\* moved, or has done one round of its loop, or has just begun.
LEMMA HandlerSteps ==
  ASSUME TypeOK, [Next]_vars, NEW r \in Requests, Works(r)'
  PROVE  \/ Works(r) /\ Calm(r)
         \/ \E i \in Ingredients :
              SkipOptional(r, i) \/ ListIngredient(r, i) \/ RefuseIngredient(r, i)
         \/ \E e \in Entries : StartConfirm(r, e)
  <1> USE DEF TypeOK
  <1> DEFINE Goal == \/ Works(r) /\ Calm(r)
                     \/ \E i \in Ingredients :
                          SkipOptional(r, i) \/ ListIngredient(r, i) \/ RefuseIngredient(r, i)
                     \/ \E e \in Entries : StartConfirm(r, e)
  <1>1. ASSUME req'[r] = req[r], recipe' = recipe PROVE Goal
    BY <1>1 DEF Works, Calm, Required
  <1>2. ASSUME NEW q \in Requests, q # r, req' = [req EXCEPT ![q] = req'[q]],
               recipe' = recipe
        PROVE  Goal
    BY <1>1, <1>2
  <1>3. ASSUME NEW q \in Requests, StartGenerate(q) PROVE Goal
    <2>1. CASE q = r
      BY <1>3, <2>1 DEF StartGenerate, Works, Generating
    <2> QED
      BY <1>3, <2>1, <1>2 DEF StartGenerate
  <1>4. ASSUME NEW q \in Requests, req' = [req EXCEPT ![q] = Idle], recipe' = recipe
        PROVE  Goal
    <2>1. CASE q = r
      BY <1>4, <2>1 DEF Works, Idle
    <2> QED
      BY <1>4, <2>1, <1>2
  <1>5. ASSUME NEW q \in Requests, NEW e \in Entries, StartConfirm(q, e) PROVE Goal
    <2>1. CASE q = r
      BY <1>5, <2>1
    <2> QED
      BY <1>5, <2>1, <1>2 DEF StartConfirm
  <1>6. ASSUME NEW q \in Requests, NEW i \in Ingredients,
               SkipOptional(q, i) \/ ListIngredient(q, i) \/ RefuseIngredient(q, i)
        PROVE  Goal
    <2>1. CASE q = r
      BY <1>6, <2>1
    <2>2. CASE q # r
      <3>1. req' = [req EXCEPT ![q] = req'[q]] /\ recipe' = recipe
        BY <1>6, LoopShapes DEF SkipOptional, ListIngredient, RefuseIngredient
      <3> QED
        BY <2>2, <3>1, <1>2
    <2> QED
      BY <2>1, <2>2
  <1>7. ASSUME NEW i \in Ingredients, NEW s \in {"required", "optional"}, AddIngredient(i, s)
        PROVE  Goal
    <2>1. req' = req /\ \A j \in Required : j \in Required'
      BY <1>7 DEF AddIngredient, Required
    <2> QED
      BY <2>1 DEF Works, Calm
  <1>8. ASSUME NEW i \in Ingredients, UpdateIngredient(i) \/ DeleteIngredient(i)
        PROVE  Goal
    <2>1. req' = NotKept(i)
      BY <1>8 DEF UpdateIngredient, DeleteIngredient
    <2>2. \A j \in Required : j # i => j \in Required'
      BY <1>8 DEF UpdateIngredient, DeleteIngredient, Required
    <2>3. Works(r)
      BY <2>1, NotKeptShapes DEF Works
    <2> QED
      BY <2>1, <2>2, <2>3, NotKeptShapes DEF Calm
  <1>9. ASSUME NEW q \in Requests,
               \/ \E p \in Plans : CommitGenerate(q, p)
               \/ IngredientGone(q) \/ FinishConfirm(q) \/ Fail(q)
        PROVE Goal
    BY <1>9, <1>4 DEF CommitGenerate, IngredientGone, FinishConfirm, Fail
  <1>10. CASE UNCHANGED <<req, recipe>>
    BY <1>10, <1>1
  <1> QED
    BY <1>3, <1>5, <1>6, <1>7, <1>8, <1>9, <1>10 DEF Next, vars, CreateEntry

\* The commit that lists an ingredient has approved the entry, unless that has
\* been taken back.
LEMMA ListingApproves ==
  ASSUME TypeOK, CleanIsApproved, NEW r \in Requests, NEW i \in Ingredients,
         ListIngredient(r, i)
  PROVE  /\ req[r].entry \in Entries
         /\ status'[req[r].entry] = "approved" \/ req[r].entry \in undone
         /\ undone' = undone
         /\ listed' = [listed EXCEPT ![req[r].entry][i] = @ + 1]
         /\ req'[r].todo = req[r].todo \ {i}
  <1> USE DEF TypeOK
  <1>1. Works(r) /\ req[r].entry \in Entries /\ req[r].dirty \in BOOLEAN
    BY RequestShapes DEF ListIngredient
  <1>2. status'[req[r].entry] = "approved" \/ req[r].entry \in undone
    <2>1. CASE req[r].dirty
      BY <1>1, <2>1 DEF ListIngredient, Approved
    <2>2. CASE ~req[r].dirty
      BY <1>1, <2>2 DEF ListIngredient, Approved, CleanIsApproved
    <2> QED
      BY <2>1, <2>2, <1>1
  <1> QED
    BY <1>1, <1>2, LoopShapes DEF ListIngredient

\* A draft stays without grocery items.
LEMMA DraftsStep ==
  TypeOK /\ CleanIsApproved /\ DraftsListNothing /\ [Next]_vars => DraftsListNothing'
  <1> SUFFICES ASSUME TypeOK, CleanIsApproved, DraftsListNothing, [Next]_vars,
                      NEW e \in Entries, e \notin undone', status'[e] # "approved",
                      NEW i \in Ingredients
               PROVE  listed'[e][i] = 0
    BY DEF DraftsListNothing
  <1>1. status[e] # "approved" /\ e \notin undone
    BY Monotone
  <1>2. listed[e][i] = 0
    BY <1>1 DEF DraftsListNothing
  <1>3. ASSUME NEW r \in Requests, NEW j \in Ingredients, ListIngredient(r, j)
        PROVE  listed'[e][i] = 0
    <2>1. req[r].entry # e
      BY <1>1, <1>3, ListingApproves
    <2> QED
      BY <1>2, <1>3, <2>1, ListingApproves DEF TypeOK
  <1>4. CASE UNCHANGED listed
    BY <1>2, <1>4
  <1> QED
    BY <1>3, <1>4
       DEF Next, vars, CreateEntry, AddIngredient, UpdateIngredient, DeleteIngredient,
           StartGenerate, CommitGenerate, StartConfirm, SkipOptional, RefuseIngredient,
           IngredientGone, FinishConfirm, Fail

\* A handler that has nothing of the status left to write finds it written.
LEMMA CleanStep ==
  TypeOK /\ CleanIsApproved /\ [Next]_vars => CleanIsApproved'
  <1> DEFINE Fine(e) == status[e] = "approved" \/ e \in undone
             Stays(e) == status'[e] = "approved" \/ e \in undone'
  <1> SUFFICES ASSUME TypeOK, CleanIsApproved, [Next]_vars,
                      NEW r \in Requests, Works(r)', ~req'[r].dirty
               PROVE  Stays(req'[r].entry)
    BY DEF CleanIsApproved
  <1>1. ASSUME NEW e \in Entries, Fine(e) PROVE Stays(e)
    BY <1>1, Monotone
  <1>2. ASSUME Works(r), ~req[r].dirty, req'[r].entry = req[r].entry
        PROVE  Stays(req'[r].entry)
    <2>1. req[r].entry \in Entries /\ Fine(req[r].entry)
      BY <1>2, RequestShapes DEF CleanIsApproved
    <2> QED
      BY <1>1, <1>2, <2>1
  <1>3. CASE Works(r) /\ Calm(r)
    BY <1>2, <1>3 DEF Calm
  <1>4. ASSUME NEW i \in Ingredients, SkipOptional(r, i) PROVE Stays(req'[r].entry)
    BY <1>2, <1>4, LoopShapes
  <1>5. ASSUME NEW i \in Ingredients, ListIngredient(r, i) PROVE Stays(req'[r].entry)
    BY <1>5, LoopShapes, ListingApproves
  <1>6. ASSUME NEW i \in Ingredients, RefuseIngredient(r, i) PROVE Stays(req'[r].entry)
    <2>1. CASE req[r].dirty
      <3>1. req[r].entry \in undone'
        BY <1>6, <2>1 DEF RefuseIngredient
      <3> QED
        BY <1>6, <3>1, LoopShapes
    <2> QED
      BY <1>2, <1>6, <2>1, LoopShapes
  <1>7. ASSUME NEW e \in Entries, StartConfirm(r, e) PROVE FALSE
    BY <1>7 DEF StartConfirm, Confirm, TypeOK
  <1> QED
    BY <1>3, <1>4, <1>5, <1>6, <1>7, HandlerSteps

\* What a handler must list and has still to do is required, and in its copy.
LEMMA KeptStep ==
  TypeOK /\ KeptIsRequired /\ [Next]_vars => KeptIsRequired'
  <1> SUFFICES ASSUME TypeOK, KeptIsRequired, [Next]_vars, NEW r \in Requests, Works(r)'
               PROVE  /\ req'[r].kept \cap req'[r].todo \subseteq Required'
                      /\ req'[r].dirty => req'[r].kept \subseteq req'[r].loaded
    BY DEF KeptIsRequired
  <1>1. Works(r) => /\ req[r].kept \cap req[r].todo \subseteq Required
                    /\ req[r].dirty => req[r].kept \subseteq req[r].loaded
    BY DEF KeptIsRequired
  <1>2. CASE Works(r) /\ Calm(r)
    BY <1>1, <1>2 DEF Calm
  <1>3. ASSUME NEW i \in Ingredients,
               SkipOptional(r, i) \/ ListIngredient(r, i) \/ RefuseIngredient(r, i)
        PROVE  /\ req'[r].kept \cap req'[r].todo \subseteq Required'
               /\ req'[r].dirty => req'[r].kept \subseteq req'[r].loaded
    <2>1. Required' = Required
      BY <1>3 DEF SkipOptional, ListIngredient, RefuseIngredient, Required
    <2> QED
      BY <1>1, <1>3, <2>1, LoopShapes
  <1>4. ASSUME NEW e \in Entries, StartConfirm(r, e)
        PROVE  /\ req'[r].kept \cap req'[r].todo \subseteq Required'
               /\ req'[r].dirty => req'[r].kept \subseteq req'[r].loaded
    <2>1. req'[r] = Confirm(e) /\ Required' = Required
      BY <1>4 DEF StartConfirm, TypeOK, Required
    <2> QED
      BY <2>1 DEF Confirm
  <1> QED
    BY <1>2, <1>3, <1>4, HandlerSteps

\* What a handler must list and does not have to do any more is on the list.
LEMMA TodoStep ==
  IInv /\ [Next]_vars => ListedOrTodo'
  <1> SUFFICES ASSUME IInv, [Next]_vars, NEW r \in Requests, Works(r)',
                      NEW i \in req'[r].kept, i \notin req'[r].todo
               PROVE  listed'[req'[r].entry][i] > 0
    BY DEF ListedOrTodo
  <1>0. TypeOK /\ CleanIsApproved /\ KeptIsRequired /\ ListedOrTodo /\ TypeOK'
    BY TypeStep DEF IInv
  <1>1. i \in Ingredients
    BY <1>0 DEF TypeOK, Works, Confirming, Idle, Generating
  <1>2. ASSUME Works(r), req'[r].entry = req[r].entry, i \in req[r].kept, i \notin req[r].todo
        PROVE  listed'[req'[r].entry][i] > 0
    <2>1. req[r].entry \in Entries /\ listed[req[r].entry][i] > 0
      BY <1>0, <1>2, RequestShapes DEF ListedOrTodo
    <2> QED
      BY <1>0, <1>1, <1>2, <2>1, Monotone
  <1>3. CASE Works(r) /\ Calm(r)
    BY <1>2, <1>3 DEF Calm
  <1>4. ASSUME NEW j \in Ingredients, SkipOptional(r, j)
        PROVE  listed'[req'[r].entry][i] > 0
    <2>1. Works(r) /\ i \in req[r].kept /\ req'[r].entry = req[r].entry
          /\ req'[r].todo = req[r].todo \ {j} /\ j \in req[r].todo
      BY <1>0, <1>4, LoopShapes
    <2>2. i # j
      <3> SUFFICES ASSUME i = j PROVE FALSE
        OBVIOUS
      <3>1. i \in Required /\ (req[r].dirty => i \in req[r].loaded)
        BY <1>0, <2>1 DEF KeptIsRequired
      <3> QED
        BY <1>4, <3>1 DEF SkipOptional, SeesOptional, Required
    <2> QED
      BY <1>2, <2>1, <2>2
  <1>5. ASSUME NEW j \in Ingredients, ListIngredient(r, j)
        PROVE  listed'[req'[r].entry][i] > 0
    <2>0. /\ req[r].entry \in Entries /\ req'[r].entry = req[r].entry
          /\ listed' = [listed EXCEPT ![req[r].entry][j] = @ + 1]
          /\ req'[r].todo = req[r].todo \ {j}
          /\ req'[r].kept = req[r].kept \cup {j}
          /\ Works(r)
      BY <1>0, <1>5, LoopShapes, ListingApproves
    <2>1. CASE i = j
      <3>1. listed[req[r].entry][i] \in Nat
        BY <1>0, <1>1, <2>0 DEF TypeOK
      <3>2. listed'[req[r].entry][i] = listed[req[r].entry][i] + 1
        BY <1>0, <1>1, <2>0, <2>1 DEF TypeOK
      <3> QED
        BY <2>0, <3>1, <3>2
    <2>2. CASE i # j
      BY <1>2, <2>0, <2>2
    <2> QED
      BY <2>1, <2>2
  <1>6. ASSUME NEW j \in Ingredients, RefuseIngredient(r, j)
        PROVE  listed'[req'[r].entry][i] > 0
    <2>1. /\ Works(r) /\ req'[r].entry = req[r].entry
          /\ req'[r].todo = req[r].todo \ {j}
          /\ req'[r].kept = req[r].kept \ {j}
      BY <1>0, <1>6, LoopShapes
    <2> QED
      BY <1>2, <2>1
  <1>7. ASSUME NEW e \in Entries, StartConfirm(r, e) PROVE FALSE
    <2>1. req'[r] = Confirm(e)
      BY <1>0, <1>7 DEF StartConfirm, TypeOK
    <2>2. i \in Dish[e] /\ i \in Required /\ i \notin Loadable
      BY <2>1 DEF Confirm
    <2> QED
      BY <2>2 DEF Required, Loadable
  <1> QED
    BY <1>0, <1>3, <1>4, <1>5, <1>6, <1>7, HandlerSteps

\* The invariant is inductive.
LEMMA Inductive == IInv /\ [Next]_vars => IInv'
  <1>1. IInv /\ [Next]_vars => TypeOK'
    BY TypeStep DEF IInv
  <1>2. IInv /\ [Next]_vars => DraftsListNothing'
    BY DraftsStep DEF IInv
  <1>3. IInv /\ [Next]_vars => CleanIsApproved'
    BY CleanStep DEF IInv
  <1>4. IInv /\ [Next]_vars => KeptIsRequired'
    BY KeptStep DEF IInv
  <1> QED
    BY <1>1, <1>2, <1>3, <1>4, TodoStep DEF IInv

\* A handler that answers 200 has nothing left to do, and its last commit writes
\* the status if that is not written yet.
LEMMA OkStep ==
  IInv /\ [Next]_vars =>
    [\A r \in Requests : FinishConfirm(r) =>
       /\ status'[req[r].entry] = "approved" \/ req[r].entry \in undone
       /\ \A i \in req[r].kept : listed'[req[r].entry][i] > 0]_vars
  <1> SUFFICES ASSUME IInv, NEW r \in Requests, FinishConfirm(r)
               PROVE  /\ status'[req[r].entry] = "approved" \/ req[r].entry \in undone
                      /\ \A i \in req[r].kept : listed'[req[r].entry][i] > 0
    OBVIOUS
  <1>1. TypeOK /\ CleanIsApproved /\ ListedOrTodo
    BY DEF IInv
  <1>2. Works(r) /\ req[r].entry \in Entries /\ req[r].dirty \in BOOLEAN
    BY <1>1, RequestShapes DEF FinishConfirm
  <1>3. status'[req[r].entry] = "approved" \/ req[r].entry \in undone
    BY <1>1, <1>2 DEF FinishConfirm, Approved, CleanIsApproved, TypeOK
  <1>4. \A i \in req[r].kept : listed[req[r].entry][i] > 0
    BY <1>1, <1>2 DEF FinishConfirm, ListedOrTodo
  <1> QED
    BY <1>3, <1>4 DEF FinishConfirm

LEMMA Invariance == Spec => []IInv
  BY InitIInv, Inductive, PTL DEF Spec

-----------------------------------------------------------------------------
(* Counting the handlers.                                                  *)

\* Every set of handlers is finite and no larger than the pool.
LEMMA Pool ==
  ASSUME NEW S, S \subseteq Requests
  PROVE  /\ IsFiniteSet(S)
         /\ Cardinality(S) \in Nat
         /\ Cardinality(S) <= Cardinality(Requests)
         /\ Cardinality(Requests) \in Nat
  <1>1. IsFiniteSet(S) /\ Cardinality(S) <= Cardinality(Requests)
    BY PlanAssumption, FS_Subset
  <1> QED
    BY <1>1, PlanAssumption, FS_CardinalityType

\* A set of handlers that lost one of them counts one less, at least.
LEMMA OneLess ==
  ASSUME NEW S, S \subseteq Requests, NEW r \in S, NEW T, T \subseteq S \ {r}
  PROVE  Cardinality(T) + 1 <= Cardinality(S)
  <1>1. IsFiniteSet(S) /\ Cardinality(S) \in Nat /\ Cardinality(T) \in Nat
    BY Pool
  <1>2. IsFiniteSet(S \ {r}) /\ Cardinality(S \ {r}) = Cardinality(S) - 1
    BY <1>1, FS_RemoveElement
  <1>3. Cardinality(T) <= Cardinality(S \ {r})
    BY <1>2, FS_Subset
  <1> QED
    BY <1>1, <1>2, <1>3

\* Sets of handlers are counted monotonically.
LEMMA NoMore ==
  ASSUME NEW S, S \subseteq Requests, NEW T, T \subseteq S
  PROVE  Cardinality(T) <= Cardinality(S)
  BY Pool, FS_Subset

\* Only a handler that lists ingredient i for entry e adds to their count.
LEMMA ListedOnlyBy ==
  ASSUME TypeOK, [Next]_vars, NEW e \in Entries, NEW i \in Ingredients,
         ~ \E r \in Requests : ListIngredient(r, i) /\ req[r].entry = e
  PROVE  listed'[e][i] = listed[e][i]
  <1>1. ASSUME NEW r \in Requests, NEW j \in Ingredients, ListIngredient(r, j)
        PROVE  listed'[e][i] = listed[e][i]
    <2>1. listed' = [listed EXCEPT ![req[r].entry][j] = @ + 1]
      BY <1>1 DEF ListIngredient
    <2>2. req[r].entry # e \/ j # i
      BY <1>1
    <2> QED
      BY <2>1, <2>2 DEF TypeOK
  <1>2. CASE UNCHANGED listed
    BY <1>2
  <1> QED
    BY <1>1, <1>2
       DEF Next, vars, CreateEntry, AddIngredient, UpdateIngredient, DeleteIngredient,
           StartGenerate, CommitGenerate, StartConfirm, SkipOptional, RefuseIngredient,
           IngredientGone, FinishConfirm, Fail

\* Only a confirmation that begins has more of an entry to list.
LEMMA PendingOnlyBy ==
  ASSUME TypeOK, CleanIsApproved, [Next]_vars, NEW e \in Entries, NEW i \in Ingredients,
         ~ \E r \in Requests : StartConfirm(r, e)
  PROVE  Pending(e, i)' \subseteq Pending(e, i)
  <1> SUFFICES ASSUME NEW r \in Requests, Works(r)',
                      req'[r].entry = e, i \in req'[r].todo
               PROVE  Works(r) /\ req[r].entry = e /\ i \in req[r].todo
    BY DEF Pending
  <1>1. ASSUME NEW j \in Ingredients,
               SkipOptional(r, j) \/ ListIngredient(r, j) \/ RefuseIngredient(r, j)
        PROVE  Works(r) /\ req[r].entry = e /\ i \in req[r].todo
    BY <1>1, LoopShapes
  <1>2. ASSUME NEW d \in Entries, StartConfirm(r, d) PROVE FALSE
    <2>1. req'[r].entry = d
      BY <1>2 DEF StartConfirm, Confirm, TypeOK
    <2> QED
      BY <1>2, <2>1
  <1>3. CASE Works(r) /\ Calm(r)
    BY <1>3 DEF Calm
  <1> QED
    BY <1>1, <1>2, <1>3, HandlerSteps

\* What is on the list for an ingredient, and what is to come, stays within the
\* pool: an ingredient listed is no longer to come, and a confirmation begins
\* only on a draft, of which nothing is listed.
LEMMA ListedStep ==
  IInv /\ ListedOrPending /\ [Next]_vars => ListedOrPending'
  <1> SUFFICES ASSUME IInv, ListedOrPending, [Next]_vars,
                      NEW e \in Entries, e \notin undone', NEW i \in Ingredients
               PROVE  listed'[e][i] + Cardinality(Pending(e, i)') <= Cardinality(Requests)
    BY DEF ListedOrPending
  <1>0. TypeOK /\ CleanIsApproved /\ DraftsListNothing /\ e \notin undone
    BY Monotone DEF IInv
  <1>1. listed[e][i] \in Nat /\ listed[e][i] + Cardinality(Pending(e, i)) <= Cardinality(Requests)
    BY <1>0 DEF ListedOrPending, TypeOK
  <1>2. Pending(e, i) \subseteq Requests /\ Pending(e, i)' \subseteq Requests
    BY DEF Pending
  <1>3. /\ Cardinality(Pending(e, i)) \in Nat /\ Cardinality(Pending(e, i)') \in Nat
        /\ Cardinality(Pending(e, i)') <= Cardinality(Requests)
        /\ Cardinality(Requests) \in Nat
    BY <1>2, Pool
  <1>4. ASSUME NEW r \in Requests, ListIngredient(r, i), req[r].entry = e
        PROVE  listed'[e][i] + Cardinality(Pending(e, i)') <= Cardinality(Requests)
    <2>1. /\ listed'[e][i] = listed[e][i] + 1
          /\ i \notin req'[r].todo
      <3>1. /\ listed' = [listed EXCEPT ![e][i] = @ + 1]
            /\ req'[r].todo = req[r].todo \ {i}
        BY <1>0, <1>4, ListingApproves
      <3> QED
        BY <1>0, <3>1 DEF TypeOK
    <2>2. r \in Pending(e, i) /\ r \notin Pending(e, i)'
      BY <1>4, <2>1 DEF Pending, ListIngredient
    <2>3. ~ \E q \in Requests : StartConfirm(q, e)
      <3> SUFFICES ASSUME NEW q \in Requests, StartConfirm(q, e) PROVE FALSE
        OBVIOUS
      <3>1. listed' = listed
        BY DEF StartConfirm
      <3> QED
        BY <1>1, <2>1, <3>1
    <2>4. Pending(e, i)' \subseteq Pending(e, i) \ {r}
      BY <1>0, <2>2, <2>3, PendingOnlyBy
    <2>5. Cardinality(Pending(e, i)') + 1 <= Cardinality(Pending(e, i))
      BY <1>2, <2>2, <2>4, OneLess
    <2> QED
      BY <1>1, <1>3, <2>1, <2>5
  <1>5. ASSUME NEW r \in Requests, StartConfirm(r, e)
        PROVE  listed'[e][i] + Cardinality(Pending(e, i)') <= Cardinality(Requests)
    <2>1. listed'[e][i] = 0
      BY <1>0, <1>5 DEF StartConfirm, DraftsListNothing
    <2> QED
      BY <1>3, <2>1
  <1>6. CASE /\ ~ \E r \in Requests : ListIngredient(r, i) /\ req[r].entry = e
             /\ ~ \E r \in Requests : StartConfirm(r, e)
    <2>1. listed'[e][i] = listed[e][i]
      BY <1>0, <1>6, ListedOnlyBy
    <2>2. Cardinality(Pending(e, i)') <= Cardinality(Pending(e, i))
      BY <1>0, <1>2, <1>6, PendingOnlyBy, NoMore
    <2> QED
      BY <1>1, <1>3, <2>1, <2>2
  <1> QED
    BY <1>4, <1>5, <1>6

-----------------------------------------------------------------------------
(* Counting the plans in draft.                                            *)

\* The slots of a week are entries, and none of them is added by hand.
LEMMA WeekEntries ==
  ASSUME NEW p \in Plans, NEW e \in Week(p)
  PROVE  e \in Entries /\ e \notin Manual
  BY PlanAssumption DEF Week, Entries

\* A slot comes into draft only with the commit of its plan.
LEMMA DraftOnlyBy ==
  ASSUME TypeOK, [Next]_vars, NEW p \in Plans, p \in DraftPlans', p \notin DraftPlans
  PROVE  \E r \in Requests : CommitGenerate(r, p)
  <1> USE DEF TypeOK
  <1>1. PICK e \in Week(p) : e \in Entries /\ status'[e] = "draft"
    BY DEF DraftPlans, Drafts
  <1>2. status[e] # "draft"
    BY <1>1 DEF DraftPlans, Drafts
  <1>3. ASSUME NEW m \in Manual, CreateEntry(m) PROVE FALSE
    BY <1>1, <1>2, <1>3, WeekEntries DEF CreateEntry
  <1>4. ASSUME NEW r \in Requests, NEW q \in Plans, CommitGenerate(r, q)
        PROVE  CommitGenerate(r, p)
    <2>1. e \in Week(q)
      BY <1>1, <1>2, <1>4 DEF CommitGenerate
    <2>2. p = q
      BY <1>1, <2>1 DEF Week
    <2> QED
      BY <1>4, <2>2
  <1>5. ASSUME NEW r \in Requests, status' = Approved(r) PROVE FALSE
    BY <1>1, <1>2, <1>5 DEF Approved
  <1>6. ASSUME UNCHANGED status PROVE FALSE
    BY <1>1, <1>2, <1>6
  <1>7. ASSUME NEW r \in Requests, FinishConfirm(r) PROVE FALSE
    BY <1>5, <1>7 DEF FinishConfirm
  <1>8. ASSUME NEW r \in Requests, NEW i \in Ingredients,
               SkipOptional(r, i) \/ ListIngredient(r, i) \/ RefuseIngredient(r, i)
        PROVE  FALSE
    BY <1>5, <1>6, <1>8 DEF SkipOptional, ListIngredient, RefuseIngredient
  <1>9. ASSUME NEW i \in Ingredients, NEW t \in {"required", "optional"},
               AddIngredient(i, t) \/ UpdateIngredient(i) \/ DeleteIngredient(i)
        PROVE  FALSE
    BY <1>6, <1>9 DEF AddIngredient, UpdateIngredient, DeleteIngredient
  <1> QED
    BY <1>3, <1>4, <1>6, <1>7, <1>8, <1>9
       DEF Next, vars, StartGenerate, StartConfirm, IngredientGone, Fail

\* A handler comes to generate only by the handler's own first step.
LEMMA GeneratorOnlyBy ==
  ASSUME TypeOK, [Next]_vars, NEW r \in Requests, r \in Generators', r \notin Generators
  PROVE  StartGenerate(r)
  <1> USE DEF TypeOK
  <1>1. req'[r] = Generating /\ req[r] # Generating
    BY DEF Generators
  <1>2. ASSUME NEW q \in Requests, StartGenerate(q) PROVE StartGenerate(r)
    BY <1>1, <1>2 DEF StartGenerate
  <1>3. ASSUME NEW q \in Requests, req' = [req EXCEPT ![q] = Idle] PROVE FALSE
    BY <1>1, <1>3 DEF Idle, Generating
  <1>4. ASSUME NEW q \in Requests, NEW e \in Entries, StartConfirm(q, e) PROVE FALSE
    BY <1>1, <1>4 DEF StartConfirm, Confirm, Generating
  <1>5. ASSUME NEW q \in Requests, NEW i \in Ingredients,
               SkipOptional(q, i) \/ ListIngredient(q, i) \/ RefuseIngredient(q, i)
        PROVE  FALSE
    <2>1. Works(q)' /\ req' = [req EXCEPT ![q] = req'[q]]
      BY <1>5, LoopShapes
    <2> QED
      BY <1>1, <2>1 DEF Works, Generating
  <1>6. ASSUME NEW i \in Ingredients, req' = NotKept(i) PROVE FALSE
    BY <1>1, <1>6, NotKeptShapes DEF Generating
  <1>7. ASSUME UNCHANGED req PROVE FALSE
    BY <1>1, <1>7
  <1> QED
    BY <1>2, <1>3, <1>4, <1>5, <1>6, <1>7
       DEF Next, vars, CreateEntry, AddIngredient, UpdateIngredient, DeleteIngredient,
           CommitGenerate, IngredientGone, FinishConfirm, Fail

\* What is in draft, and what is about to be written, stays within the pool: a
\* plan comes with the commit of a handler that then is no longer at it, and a
\* handler begins only when nothing is in draft.
LEMMA DraftedStep ==
  TypeOK /\ DraftedOrGenerating /\ [Next]_vars => DraftedOrGenerating'
  <1> SUFFICES ASSUME TypeOK, DraftedOrGenerating, [Next]_vars PROVE DraftedOrGenerating'
    OBVIOUS
  <1>1. /\ IsFiniteSet(DraftPlans)
        /\ Cardinality(DraftPlans) + Cardinality(Generators) <= Cardinality(Requests)
        /\ Cardinality(DraftPlans) \in Nat
    BY FS_CardinalityType DEF DraftedOrGenerating, DraftsPerOverlap
  <1>2. Generators \subseteq Requests /\ Generators' \subseteq Requests
    BY DEF Generators
  <1>3. /\ Cardinality(Generators) \in Nat /\ Cardinality(Generators') \in Nat
        /\ Cardinality(Generators') <= Cardinality(Requests)
        /\ Cardinality(Requests) \in Nat
    BY <1>2, Pool
  <1>4. DraftPlans \subseteq Plans /\ DraftPlans' \subseteq Plans
    BY DEF DraftPlans
  <1>5. ASSUME NEW r \in Requests, NEW p \in Plans, CommitGenerate(r, p)
        PROVE  DraftedOrGenerating'
    <2>1. r \in Generators /\ r \notin Generators'
      BY <1>5 DEF CommitGenerate, Generators, Generating, Idle, TypeOK
    <2>2. ~ \E q \in Requests : StartGenerate(q)
      BY <1>5, <2>1 DEF StartGenerate, CommitGenerate, Generators, Generating, Idle, TypeOK
    <2>3. Generators' \subseteq Generators \ {r}
      BY <1>2, <2>1, <2>2, GeneratorOnlyBy
    <2>4. Cardinality(Generators') + 1 <= Cardinality(Generators)
      BY <1>2, <2>1, <2>3, OneLess
    <2>5. \A q \in DraftPlans' : q \in DraftPlans \/ q = p
      <3> SUFFICES ASSUME NEW q \in Plans, q \in DraftPlans', q \notin DraftPlans
                   PROVE  q = p
        BY <1>4
      <3>1. PICK k \in Requests : CommitGenerate(k, q)
        BY DraftOnlyBy
      <3>2. PICK e \in Week(q) : e \in Entries /\ status'[e] = "draft"
        BY DEF DraftPlans, Drafts
      <3>3. status[e] # "draft"
        BY <3>2 DEF DraftPlans, Drafts
      <3>4. e \in Week(p)
        BY <1>5, <3>2, <3>3 DEF CommitGenerate, TypeOK
      <3> QED
        BY <3>2, <3>4 DEF Week
    <2>6. IsFiniteSet(DraftPlans \cup {p}) /\ Cardinality(DraftPlans \cup {p}) <= Cardinality(DraftPlans) + 1
      BY <1>1, FS_AddElement
    <2>7. IsFiniteSet(DraftPlans') /\ Cardinality(DraftPlans') <= Cardinality(DraftPlans \cup {p})
      BY <2>5, <2>6, FS_Subset
    <2>8. Cardinality(DraftPlans') \in Nat /\ Cardinality(DraftPlans \cup {p}) \in Nat
      BY <2>6, <2>7, FS_CardinalityType
    <2> QED
      BY <1>1, <1>3, <2>4, <2>6, <2>7, <2>8 DEF DraftedOrGenerating, DraftsPerOverlap
  <1>6. CASE ~ \E r \in Requests : \E p \in Plans : CommitGenerate(r, p)
    <2>1. DraftPlans' \subseteq DraftPlans
      BY <1>4, <1>6, DraftOnlyBy
    <2>2. IsFiniteSet(DraftPlans') /\ Cardinality(DraftPlans') <= Cardinality(DraftPlans)
      BY <1>1, <2>1, FS_Subset
    <2>3. Cardinality(DraftPlans') \in Nat
      BY <2>2, FS_CardinalityType
    <2>4. ASSUME NEW r \in Requests, StartGenerate(r) PROVE DraftedOrGenerating'
      <3>1. DraftPlans' = {}
        BY <2>1, <2>4 DEF StartGenerate, DraftPlans
      <3>2. Cardinality(DraftPlans') = 0
        BY <3>1, FS_EmptySet
      <3> QED
        BY <1>3, <2>2, <3>2 DEF DraftedOrGenerating, DraftsPerOverlap
    <2>5. CASE ~ \E r \in Requests : StartGenerate(r)
      <3>1. Generators' \subseteq Generators
        BY <1>2, <2>5, GeneratorOnlyBy
      <3>2. Cardinality(Generators') <= Cardinality(Generators)
        BY <1>2, <3>1, NoMore
      <3> QED
        BY <1>1, <1>3, <2>2, <2>3, <3>2 DEF DraftedOrGenerating, DraftsPerOverlap
    <2> QED
      BY <2>4, <2>5
  <1> QED
    BY <1>5, <1>6

-----------------------------------------------------------------------------

\* Type correctness of the plan, its handlers and what they have listed.
THEOREM TypeCorrect == Spec => []TypeOK
  <1>1. IInv => TypeOK
    BY DEF IInv
  <1> QED
    BY <1>1, Invariance, PTL

\* A draft never has an impact on the grocery list, not even in the middle of a
\* confirmation or after one that failed (confirm_entry sets the status before
\* its loop, so that the first commit of create_item writes both).
THEOREM DraftsTheorem == Spec => []DraftsListNothing
  <1>1. IInv => DraftsListNothing
    BY DEF IInv
  <1> QED
    BY <1>1, Invariance, PTL

\* An answer 200 of confirm_entry is the truth: the entry is approved (unless a
\* refused item has rolled that back) and every ingredient that was required when
\* it was loaded and until the loop came to it, and was not refused, is on the
\* grocery list, for any changes the owner of the recipe makes meanwhile.
THEOREM OkTheorem == Spec => OkMeansListed
  BY Invariance, OkStep, PTL DEF Spec, OkMeansListed

\* An ingredient of an entry is on the list at most once for each handler that
\* can be at work: confirm_entry takes drafts only and approves with the first
\* item, so only confirmations that overlap list the same ingredient twice.
THEOREM ListedTheorem == Spec => []ListedPerOverlap
  <1>1. Init => ListedOrPending
    <2> SUFFICES ASSUME Init, NEW e \in Entries \ undone, NEW i \in Ingredients
                 PROVE  listed[e][i] + Cardinality(Pending(e, i)) <= Cardinality(Requests)
      BY DEF ListedOrPending
    <2>1. listed[e][i] = 0
      BY DEF Init
    <2>2. Pending(e, i) \subseteq Requests
      BY DEF Pending
    <2> QED
      BY <2>1, <2>2, Pool
  <1>2. Spec => []ListedOrPending
    BY <1>1, Invariance, ListedStep, PTL DEF Spec
  <1>3. TypeOK /\ ListedOrPending => ListedPerOverlap
    <2> SUFFICES ASSUME TypeOK, ListedOrPending, NEW e \in Entries \ undone, NEW i \in Ingredients
                 PROVE  listed[e][i] <= Cardinality(Requests)
      BY DEF ListedPerOverlap
    <2>1. listed[e][i] \in Nat /\ listed[e][i] + Cardinality(Pending(e, i)) <= Cardinality(Requests)
      BY DEF TypeOK, ListedOrPending
    <2>2. Pending(e, i) \subseteq Requests
      BY DEF Pending
    <2> QED
      BY <2>1, <2>2, Pool
  <1> QED
    BY <1>2, <1>3, TypeCorrect, PTL

\* No more plans of the week are in draft, or about to be, than handlers can be at
\* work: the look
\* for drafts and the commit of the new ones are two steps, so only generations
\* that overlap (generate_draft_meal_plan) leave more than one.
THEOREM PlansTheorem == Spec => []DraftsPerOverlap
  <1>1. Init => DraftedOrGenerating
    <2> SUFFICES ASSUME Init PROVE DraftedOrGenerating
      OBVIOUS
    <2>1. DraftPlans = {}
      BY DEF Init, DraftPlans, Drafts
    <2>2. IsFiniteSet(DraftPlans) /\ Cardinality(DraftPlans) = 0
      BY <2>1, FS_EmptySet
    <2>3. Generators \subseteq Requests
      BY DEF Generators
    <2> QED
      BY <2>2, <2>3, Pool DEF DraftedOrGenerating, DraftsPerOverlap
  <1>2. Spec => []DraftedOrGenerating
    BY <1>1, TypeCorrect, DraftedStep, PTL DEF Spec
  <1>3. DraftedOrGenerating => DraftsPerOverlap
    BY DEF DraftedOrGenerating
  <1> QED
    BY <1>2, <1>3, PTL

-----------------------------------------------------------------------------
(* One at a time.                                                          *)

LEMMA ListedOnceStep ==
  IInv /\ ListedOnce /\ ConfirmsApart /\ [Next]_vars => ListedOnce'
  <1> SUFFICES ASSUME IInv, ListedOnce, ConfirmsApart, [Next]_vars,
                      NEW e \in Entries, e \notin undone', NEW i \in Ingredients
               PROVE  listed'[e][i] <= 1 /\ (listed'[e][i] > 0 => Pending(e, i)' = {})
    BY DEF ListedOnce
  <1>0. TypeOK /\ CleanIsApproved /\ DraftsListNothing /\ e \notin undone
    BY Monotone DEF IInv
  <1>1. listed[e][i] \in Nat /\ listed[e][i] <= 1 /\ (listed[e][i] > 0 => Pending(e, i) = {})
    BY <1>0 DEF ListedOnce, TypeOK
  <1>2. ASSUME NEW r \in Requests, ListIngredient(r, i), req[r].entry = e
        PROVE  listed'[e][i] = 1 /\ Pending(e, i)' = {}
    <2>1. listed' = [listed EXCEPT ![e][i] = @ + 1] /\ req'[r].todo = req[r].todo \ {i}
      BY <1>0, <1>2, ListingApproves
    <2>2. r \in Pending(e, i) /\ r \notin Pending(e, i)'
      BY <1>2, <2>1 DEF Pending, ListIngredient
    <2>3. listed[e][i] = 0 /\ listed'[e][i] = 1
      BY <1>0, <1>1, <2>1, <2>2 DEF TypeOK
    <2>4. ~ \E q \in Requests : StartConfirm(q, e)
      <3> SUFFICES ASSUME NEW q \in Requests, StartConfirm(q, e) PROVE FALSE
        OBVIOUS
      <3>1. listed' = listed
        BY DEF StartConfirm
      <3> QED
        BY <2>3, <3>1
    <2>5. Pending(e, i)' \subseteq Pending(e, i)
      BY <1>0, <2>4, PendingOnlyBy
    <2>6. \A q \in Pending(e, i) : q = r
      BY <2>2 DEF ConfirmsApart, Pending
    <2> QED
      BY <2>2, <2>3, <2>5, <2>6
  <1>3. ASSUME NEW r \in Requests, StartConfirm(r, e)
        PROVE  listed'[e][i] = 0
    BY <1>0, <1>3 DEF StartConfirm, DraftsListNothing
  <1>4. CASE /\ ~ \E r \in Requests : ListIngredient(r, i) /\ req[r].entry = e
             /\ ~ \E r \in Requests : StartConfirm(r, e)
    <2>1. listed'[e][i] = listed[e][i]
      BY <1>0, <1>4, ListedOnlyBy
    <2>2. Pending(e, i)' \subseteq Pending(e, i)
      BY <1>0, <1>4, PendingOnlyBy
    <2> QED
      BY <1>1, <2>1, <2>2
  <1> QED
    BY <1>2, <1>3, <1>4

\* As long as no two members confirm one entry at the same time, every ingredient
\* of it is on the grocery list at most once, whatever fails in between (unless a
\* refused item has rolled back the approval).
THEOREM ConfirmsApartTheorem ==
  Spec /\ []ConfirmsApart =>
    [](\A e \in Entries \ undone : \A i \in Ingredients : listed[e][i] <= 1)
  <1>1. Init => ListedOnce
    BY DEF Init, ListedOnce
  <1>2. ListedOnce => \A e \in Entries \ undone : \A i \in Ingredients : listed[e][i] <= 1
    BY DEF ListedOnce
  <1> QED
    BY <1>1, <1>2, Invariance, ListedOnceStep, PTL DEF Spec

LEMMA DraftedOnceStep ==
  TypeOK /\ DraftedOnce /\ GenerationsApart /\ [Next]_vars => DraftedOnce'
  <1> SUFFICES ASSUME TypeOK, DraftedOnce, GenerationsApart, [Next]_vars PROVE DraftedOnce'
    OBVIOUS
  <1>1. /\ DraftPlans' \subseteq Plans /\ DraftPlans \subseteq Plans
        /\ Generators' \subseteq Requests /\ Generators \subseteq Requests
    BY DEF DraftPlans, Generators
  <1>2. ASSUME NEW r \in Requests, NEW p \in Plans, CommitGenerate(r, p) PROVE DraftedOnce'
    <2>1. r \in Generators /\ r \notin Generators'
      BY <1>2 DEF CommitGenerate, Generators, Generating, Idle, TypeOK
    <2>2. ~ \E q \in Requests : StartGenerate(q)
      BY <1>2, <2>1 DEF StartGenerate, CommitGenerate, Generators, Generating, Idle, TypeOK
    <2>3. Generators' = {}
      <3>1. Generators' \subseteq Generators
        BY <1>1, <2>2, GeneratorOnlyBy
      <3> QED
        BY <2>1, <3>1 DEF GenerationsApart
    <2>4. DraftPlans = {}
      BY <2>1 DEF DraftedOnce
    <2>5. ASSUME NEW q \in DraftPlans' PROVE q = p
      <3>1. q \in Plans /\ q \notin DraftPlans
        BY <1>1, <2>4
      <3>2. PICK e \in Week(q) : e \in Entries /\ status'[e] = "draft"
        BY DEF DraftPlans, Drafts
      <3>3. status[e] # "draft"
        BY <3>1, <3>2 DEF DraftPlans, Drafts
      <3>4. e \in Week(p)
        BY <1>2, <3>2, <3>3 DEF CommitGenerate, TypeOK
      <3> QED
        BY <3>2, <3>4 DEF Week
    <2> QED
      BY <2>3, <2>5 DEF DraftedOnce
  <1>3. CASE ~ \E r \in Requests : \E p \in Plans : CommitGenerate(r, p)
    <2>1. DraftPlans' \subseteq DraftPlans
      BY <1>1, <1>3, DraftOnlyBy
    <2>2. ASSUME NEW r \in Requests, StartGenerate(r) PROVE DraftPlans' = {}
      BY <2>1, <2>2 DEF StartGenerate, DraftPlans
    <2>3. CASE ~ \E r \in Requests : StartGenerate(r)
      <3>1. Generators' \subseteq Generators
        BY <1>1, <2>3, GeneratorOnlyBy
      <3> QED
        BY <2>1, <3>1 DEF DraftedOnce
    <2> QED
      BY <2>2, <2>3 DEF DraftedOnce
  <1> QED
    BY <1>2, <1>3

\* As long as no two members generate at the same time, the week has at most one
\* plan in draft.
THEOREM GenerationsApartTheorem ==
  Spec /\ []GenerationsApart => [](\A p, q \in DraftPlans : p = q)
  <1>1. Init => DraftedOnce
    BY DEF Init, DraftedOnce, DraftPlans, Drafts
  <1>2. DraftedOnce => \A p, q \in DraftPlans : p = q
    BY DEF DraftedOnce
  <1> QED
    BY <1>1, <1>2, TypeCorrect, DraftedOnceStep, PTL DEF Spec
=============================================================================
