--------------------------- MODULE CookbookProofs ---------------------------
(***************************************************************************)
(* What Cookbook promises for any recipes, members, URLs and threads.      *)
(***************************************************************************)
EXTENDS Cookbook, FiniteSetTheorems, TLAPS

\* What handler g has read and decided fits together and with its recipe.
Right(g) ==
  /\ g.op = "mark" /\ ~g.keep => g.marks \subseteq g.seen.marks
  /\ g.op = "cook" =>
       /\ g.keep
       /\ state[g.recipe] # "absent"
       /\ g.recipe \in There => g.count <= events[g.recipe]

HandlersRight == \A h \in Requests : req[h] # Idle => up /\ Right(req[h])

\* A recipe that is not there has left nothing behind, and a relation that is
\* not there has no marks.
NothingLeft ==
  /\ \A r \in Recipes : state[r] # "there" =>
       cooked[r] = 0 /\ events[r] = 0 /\ \A u \in Users : relation[u][r] = NoRelation
  /\ \A u \in Users, r \in Recipes : ~relation[u][r].there => relation[u][r].marks = {}

CookbookInv ==
  TypeOK /\ HandlersRight /\ NothingLeft /\ EngagedIsKept /\ CooksAreCounted

LEMMA InitInvariants == Init => CookbookInv
  <1> SUFFICES ASSUME Init PROVE CookbookInv
    OBVIOUS
  <1>1. TypeOK
    BY DEF Init, TypeOK, Relations, NoRelation
  <1>2. HandlersRight
    BY DEF Init, HandlersRight
  <1>3. NothingLeft
    BY DEF Init, NothingLeft, NoRelation
  <1>4. EngagedIsKept /\ CooksAreCounted
    BY DEF Init, EngagedIsKept, CooksAreCounted, There
  <1> QED
    BY <1>1, <1>2, <1>3, <1>4 DEF CookbookInv

\* What has an operation is a handler.
LEMMA HandlerShape ==
  ASSUME TypeOK, NEW h \in Requests
  PROVE  /\ req[h] # Idle => req[h] \in Handlers
         /\ req[h].op # "none" => req[h] \in Handlers /\ req[h] # Idle
         /\ req[h] = Idle => req[h].op = "none"
  BY DEF TypeOK, Idle

\* What g has just read is what there is: times_cooked, and that nobody has the URL.
Fresh(h, g) ==
  /\ g.op = "cook" => g.count = cooked[g.recipe]
  /\ g.op = "import" => h \in Importers /\ Unknown(g.url)

\* Loading starts a handler that is right and fresh, and touches nothing else.
LEMMA Loading ==
  ASSUME CookbookInv, NEW h \in Requests, Begin(h)
  PROVE  /\ up /\ req[h] = Idle
         /\ UNCHANGED <<up, recipe, held, relation, cooks, missed>>
         /\ \E g \in Handlers :
              req' = [req EXCEPT ![h] = g] /\ g.op # "persist" /\ Right(g) /\ Fresh(h, g)
  <1> DEFINE Goal == /\ up /\ req[h] = Idle
                     /\ UNCHANGED <<up, recipe, held, relation, cooks, missed>>
                     /\ \E g \in Handlers :
                          req' = [req EXCEPT ![h] = g] /\ g.op # "persist" /\ Right(g) /\ Fresh(h, g)
  <1> USE DEF CookbookInv
  <1>1. ASSUME NEW op \in {"mark", "unrate", "cook", "delete", "import"},
               NEW u \in Users \cup {NoUser}, NEW r \in Recipes,
               NEW marks \in SUBSET Marks, NEW keep \in BOOLEAN, NEW x \in Urls \cup {NoUrl},
               op = "mark" => u \in Users,
               op = "mark" /\ ~keep => marks \subseteq relation[u][r].marks,
               op = "cook" => keep /\ r \in There,
               op = "import" => h \in Importers /\ Unknown(x),
               Load(h, op, u, r, marks, keep, x)
        PROVE  Goal
    <2> DEFINE g == [op |-> op, user |-> u, recipe |-> r, marks |-> marks, keep |-> keep, url |-> x,
                     seen  |-> IF op = "mark" THEN relation[u][r] ELSE NoRelation,
                     count |-> IF op = "cook" THEN cooked[r] ELSE 0]
    <2>1. g.seen \in Relations /\ g.count \in Nat
      BY <1>1 DEF TypeOK, Relations, NoRelation
    <2>2. g \in Handlers
      BY <1>1, <2>1 DEF Handlers
    <2>3. op = "cook" => cooked[r] <= events[r] /\ state[r] # "absent"
      BY <1>1 DEF CooksAreCounted, There
    <2>4. Right(g)
      BY <1>1, <2>3 DEF Right
    <2>5. Fresh(h, g)
      BY <1>1 DEF Fresh
    <2>6. /\ up /\ req[h] = Idle /\ req' = [req EXCEPT ![h] = g]
          /\ UNCHANGED <<up, recipe, held, relation, cooks, missed>>
      BY <1>1 DEF Load
    <2> QED
      BY <2>2, <2>4, <2>5, <2>6
  <1>2. \A u \in Users, r \in Recipes : relation[u][r].marks \in SUBSET Marks
    BY DEF TypeOK, Relations
  <1>3. ASSUME NEW u \in Users, NEW r \in Recipes, NEW mark \in Marks,
               LoadMark(h, u, r, mark) \/ LoadUnmark(h, u, r, mark)
        PROVE  Goal
    <2>1. relation[u][r].marks \cup {mark} \in SUBSET Marks /\ relation[u][r].marks \ {mark} \in SUBSET Marks
      BY <1>2
    <2>2. CASE LoadMark(h, u, r, mark)
      BY <1>1, <2>1, <2>2 DEF LoadMark
    <2>3. CASE LoadUnmark(h, u, r, mark)
      BY <1>1, <2>1, <2>3 DEF LoadUnmark
    <2> QED
      BY <1>3, <2>2, <2>3
  <1>4. ASSUME NEW u \in Users, NEW r \in Recipes, NEW marks \in SUBSET Marks, LoadRate(h, u, r, marks)
        PROVE  Goal
    BY <1>1, <1>4 DEF LoadRate, Keeps
  <1>5. ASSUME NEW u \in Users, NEW r \in Recipes,
               LoadUnrate(h, u, r) \/ LoadCook(h, u, r) \/ LoadDelete(h, u, r)
        PROVE  Goal
    BY <1>1, <1>5 DEF LoadUnrate, LoadCook, LoadDelete
  <1>6. ASSUME NEW r \in Recipes, NEW x \in Urls, LoadImport(h, r, x)
        PROVE  Goal
    BY <1>1, <1>6 DEF LoadImport
  <1> QED
    BY <1>3, <1>4, <1>5, <1>6 DEF Begin

\* The first commit of a handler ends it or makes it persist its recipe.
LEMMA Proceeding ==
  ASSUME TypeOK, NEW h \in Requests, req[h] \in Handlers, req[h].op # "persist", Proceed(h)
  PROVE  \E g \in Handlers \cup {Idle} :
           /\ req' = [req EXCEPT ![h] = g] /\ g # req[h]
           /\ IF req[h].keep THEN g \in Handlers /\ g.op = "persist" /\ g.recipe = req[h].recipe
              ELSE g = Idle
  <1> DEFINE g == IF req[h].keep
                  THEN [req[h] EXCEPT !.op = "persist", !.seen = NoRelation, !.marks = {}, !.count = 0]
                  ELSE Idle
  <1>1. req' = [req EXCEPT ![h] = g]
    BY DEF Proceed
  <1>2. req[h].keep => g \in Handlers /\ g.op = "persist" /\ g.recipe = req[h].recipe
    BY DEF Handlers, NoRelation, Relations
  <1>3. g # req[h]
    BY HandlerShape, <1>2 DEF Handlers, Idle
  <1> QED
    BY <1>1, <1>2, <1>3

LEMMA TypeStep == CookbookInv /\ [Next]_vars => TypeOK'
  <1> SUFFICES ASSUME CookbookInv, [Next]_vars PROVE TypeOK'
    OBVIOUS
  <1>0. TypeOK
    BY DEF CookbookInv
  <1> USE DEF recipe, cooks
  <1>1. ASSUME NEW h \in Requests, Begin(h) PROVE TypeOK'
    BY <1>0, <1>1, Loading DEF TypeOK
  <1>2. ASSUME NEW h \in Requests, req[h].op # "none", req[h].op # "persist", Proceed(h)
        PROVE  /\ req' \in [Requests -> Handlers \cup {Idle}]
               /\ req[h].user \in Users \cup {NoUser} /\ req[h].recipe \in Recipes
               /\ req[h].marks \subseteq Marks /\ req[h].count \in Nat
               /\ req[h].url \in Urls \cup {NoUrl}
    <2>1. req[h] \in Handlers
      BY <1>0, <1>2, HandlerShape
    <2> QED
      BY <1>0, <1>2, <2>1, Proceeding, SMTT(40) DEF TypeOK, Handlers
  <1>3. ASSUME NEW h \in Requests, CommitMark(h) PROVE TypeOK'
    <2>1. req' \in [Requests -> Handlers \cup {Idle}] /\ req[h].marks \subseteq Marks
      BY <1>2, <1>3 DEF CommitMark
    <2> DEFINE g == req[h]
               before == relation[g.user][g.recipe].marks
               new == [there |-> TRUE,
                       marks |-> (before \ (g.seen.marks \ g.marks)) \cup (g.marks \ g.seen.marks)]
    <2>2. relation' = [relation EXCEPT ![g.user][g.recipe] = new] /\ g.recipe \in Recipes
      BY <1>3 DEF CommitMark, There
    <2>3. CASE g.user \in Users
      <3>1. before \subseteq Marks
        BY <1>0, <2>2, <2>3 DEF TypeOK, Relations
      <3>2. new \in Relations
        BY <2>1, <3>1 DEF Relations
      <3> HIDE DEF new
      <3>3. relation' \in [Users -> [Recipes -> Relations]]
        BY <1>0, <2>2, <2>3, <3>2 DEF TypeOK
      <3> QED
        BY <1>0, <1>3, <2>1, <3>3 DEF CommitMark, TypeOK
    <2>4. CASE g.user \notin Users
      BY <1>0, <1>3, <2>1, <2>2, <2>4, ZenonT(40) DEF CommitMark, TypeOK
    <2> QED
      BY <2>3, <2>4
  <1>4. ASSUME NEW h \in Requests, CommitUnrate(h) PROVE TypeOK'
    <2>1. req' \in [Requests -> Handlers \cup {Idle}]
      BY <1>2, <1>4 DEF CommitUnrate
    <2>2. relation' \in [Users -> [Recipes -> Relations]]
      BY <1>0, <1>4 DEF CommitUnrate, TypeOK, Relations, NoRelation
    <2> QED
      BY <1>0, <1>4, <2>1, <2>2 DEF CommitUnrate, TypeOK
  <1>5. ASSUME NEW h \in Requests, CommitCook(h) PROVE TypeOK'
    <2>1. req' \in [Requests -> Handlers \cup {Idle}] /\ req[h].count \in Nat /\ req[h].recipe \in Recipes
      BY <1>2, <1>5 DEF CommitCook
    <2> QED
      BY <1>0, <1>5, <2>1 DEF CommitCook, TypeOK, Counted
  <1>6. ASSUME NEW h \in Requests, Persist(h) PROVE TypeOK'
    BY <1>0, <1>6 DEF Persist, TypeOK
  <1>7. ASSUME NEW S \in SUBSET Recipes, Remove(S)
        PROVE  /\ state' \in [Recipes -> {"absent", "there", "gone"}]
               /\ held' \in [Recipes -> SUBSET Referrers]
               /\ relation' \in [Users -> [Recipes -> Relations]]
               /\ cooked' \in [Recipes -> Nat] /\ events' \in [Recipes -> Nat]
               /\ UNCHANGED <<owner, url, kept, old, lost>>
    BY <1>0, <1>7 DEF Remove, TypeOK, Relations, NoRelation
  <1>8. ASSUME NEW h \in Requests, CommitDelete(h) PROVE TypeOK'
    <2>1. req' \in [Requests -> Handlers \cup {Idle}] /\ req[h].recipe \in Recipes
      BY <1>2, <1>8 DEF CommitDelete
    <2> QED
      BY <1>0, <1>7, <1>8, <2>1 DEF CommitDelete, TypeOK
  <1>9. ASSUME NEW r \in Recipes, NEW u \in Users \cup {NoUser}, NEW x \in Urls \cup {NoUrl},
               NEW keep \in BOOLEAN, NEW rows \in SUBSET Referrers, Insert(r, u, x, keep, rows),
               req' \in [Requests -> Handlers \cup {Idle}]
        PROVE  TypeOK'
    BY <1>0, <1>9 DEF Insert, TypeOK
  <1>10. ASSUME NEW h \in Requests, CommitImport(h) PROVE TypeOK'
    <2>1. /\ req' \in [Requests -> Handlers \cup {Idle}] /\ req[h].recipe \in Recipes
          /\ req[h].url \in Urls \cup {NoUrl}
      BY <1>2, <1>10 DEF CommitImport
    <2> QED
      BY <1>9, <1>10, <2>1 DEF CommitImport
  <1>11. ASSUME NEW h \in Requests, Abort(h) PROVE TypeOK'
    BY <1>0, <1>11 DEF Abort, TypeOK, Unkept, There
  <1>12. ASSUME NEW r \in Recipes, Edit(r) PROVE TypeOK'
    <2>1. ASSUME NEW u \in Users, NEW x \in Urls \cup {NoUrl}, CreateRecipe(u, r, x) PROVE TypeOK'
      BY <1>0, <1>9, <2>1 DEF CreateRecipe, TypeOK
    <2>2. ASSUME NEW x \in Urls \cup {NoUrl}, UpdateRecipe(r, x) PROVE TypeOK'
      BY <1>0, <2>2 DEF UpdateRecipe, TypeOK
    <2>3. ASSUME NEW rows \in SUBSET {"ingredient"}, EditIngredients(r, rows) PROVE TypeOK'
      BY <1>0, <2>3 DEF EditIngredients, TypeOK
    <2>4. ASSUME NEW rows \in SUBSET (Referrers \ {"ingredient"}), Refer(r, rows) PROVE TypeOK'
      BY <1>0, <2>4 DEF Refer, TypeOK
    <2>5. CASE Age(r)
      BY <1>0, <2>5 DEF Age, TypeOK
    <2> QED
      BY <1>12, <2>1, <2>2, <2>3, <2>4, <2>5 DEF Edit
  <1>13. CASE Crash
    BY <1>0, <1>13 DEF Crash, TypeOK, Unkept, There
  <1>14. CASE Prune
    <2>1. Expired \subseteq Recipes
      BY DEF Expired, There
    <2> QED
      BY <1>0, <1>7, <1>14, <2>1 DEF Prune, TypeOK
  <1>15. CASE UNCHANGED vars
    BY <1>0, <1>15 DEF vars, TypeOK
  <1> QED
    BY <1>1, <1>3, <1>4, <1>5, <1>6, <1>8, <1>10, <1>11, <1>12, <1>13, <1>14, <1>15 DEF Next, End

\* A recipe that has been there is never absent again, and its cook events stay as
\* long as it does.
LEMMA Staying ==
  ASSUME CookbookInv, [Next]_vars, NEW r \in Recipes, state[r] # "absent"
  PROVE  state'[r] # "absent" /\ (r \in There' => r \in There /\ events[r] <= events'[r])
  <1> DEFINE Goal == state'[r] # "absent" /\ (r \in There' => r \in There /\ events[r] <= events'[r])
  <1> USE DEF recipe, cooks, There
  <1>0. TypeOK
    BY DEF CookbookInv
  <1>1. ASSUME UNCHANGED <<state, events>> PROVE Goal
    BY <1>0, <1>1 DEF TypeOK
  <1>2. ASSUME NEW h \in Requests, Begin(h) PROVE Goal
    BY <1>1, <1>2, Loading, SMTT(40)
  <1>3. ASSUME NEW h \in Requests, CommitMark(h) \/ CommitUnrate(h) \/ Persist(h) \/ Abort(h) PROVE Goal
    BY <1>1, <1>3 DEF CommitMark, CommitUnrate, Persist, Abort
  <1>4. ASSUME NEW h \in Requests, CommitCook(h) PROVE Goal
    BY <1>0, <1>4 DEF CommitCook, TypeOK
  <1>5. ASSUME NEW S \in SUBSET Recipes, Remove(S) PROVE Goal
    BY <1>0, <1>5 DEF Remove, TypeOK
  <1>6. ASSUME NEW h \in Requests, CommitDelete(h) PROVE Goal
    <2>1. req[h].recipe \in Recipes /\ Remove({req[h].recipe})
      BY <1>6 DEF CommitDelete
    <2> QED
      BY <1>5, <2>1
  <1>7. ASSUME NEW q, NEW u, NEW x, NEW keep, NEW rows, Insert(q, u, x, keep, rows) PROVE Goal
    BY <1>0, <1>7 DEF Insert, TypeOK
  <1>8. ASSUME NEW h \in Requests, CommitImport(h) PROVE Goal
    BY <1>7, <1>8 DEF CommitImport
  <1>9. ASSUME NEW q \in Recipes, Edit(q) PROVE Goal
    <2>1. ASSUME NEW u \in Users, NEW x \in Urls \cup {NoUrl}, CreateRecipe(u, q, x) PROVE Goal
      BY <1>7, <2>1 DEF CreateRecipe
    <2>2. CASE UNCHANGED <<state, events>>
      BY <1>1, <2>2
    <2> QED
      BY <1>9, <2>1, <2>2 DEF Edit, UpdateRecipe, EditIngredients, Refer, Age
  <1>10. CASE Crash
    BY <1>1, <1>10 DEF Crash
  <1>11. CASE Prune
    BY <1>1, <1>5, <1>11 DEF Prune, Expired
  <1>12. CASE UNCHANGED vars
    BY <1>1, <1>12 DEF vars
  <1> QED
    BY <1>2, <1>3, <1>4, <1>6, <1>8, <1>9, <1>10, <1>11, <1>12 DEF Next, End

\* A handler at work has been so, unchanged, unless it has just been loaded or has
\* gone on to its second commit.
LEMMA HandlersKeep ==
  ASSUME CookbookInv, [Next]_vars, NEW k \in Requests, req'[k] # Idle
  PROVE  up' /\ (req'[k] = req[k] \/ req'[k].op = "persist" \/ Begin(k))
  <1> DEFINE Goal == up' /\ (req'[k] = req[k] \/ req'[k].op = "persist" \/ Begin(k))
  <1>0. TypeOK /\ (req[k] # Idle => up)
    BY DEF CookbookInv, HandlersRight
  <1> USE DEF recipe, cooks
  <1>1. ASSUME UNCHANGED <<up, req>> PROVE Goal
    BY <1>0, <1>1
  <1>2. ASSUME NEW h \in Requests, Begin(h) PROVE Goal
    BY <1>0, <1>2, Loading DEF TypeOK
  <1>3. ASSUME NEW h \in Requests, req[h] # Idle, req[h].op # "persist", Proceed(h), UNCHANGED up PROVE Goal
    <2>1. req[h] \in Handlers /\ up
      BY <1>0, <1>3, HandlerShape, SMTT(40) DEF CookbookInv, HandlersRight
    <2> QED
      BY <1>0, <1>3, <2>1, Proceeding DEF TypeOK
  <1>4. ASSUME NEW h \in Requests, CommitMark(h) \/ CommitUnrate(h) \/ CommitCook(h) \/ CommitDelete(h) PROVE Goal
    BY <1>0, <1>3, <1>4, HandlerShape DEF CommitMark, CommitUnrate, CommitCook, CommitDelete
  <1>5. ASSUME NEW h \in Requests, CommitImport(h) PROVE Goal
    BY <1>0, <1>3, <1>5, HandlerShape DEF CommitImport, Insert
  <1>6. ASSUME NEW h \in Requests, Persist(h) \/ Abort(h) PROVE Goal
    BY <1>0, <1>6 DEF Persist, Abort, TypeOK
  <1>7. ASSUME NEW r \in Recipes, Edit(r) PROVE Goal
    BY <1>1, <1>7 DEF Edit, CreateRecipe, Insert, UpdateRecipe, EditIngredients, Refer, Age
  <1>8. CASE Crash
    BY <1>0, <1>8 DEF Crash, TypeOK
  <1>9. CASE Prune
    BY <1>0, <1>9 DEF Prune
  <1>10. CASE UNCHANGED vars
    BY <1>1, <1>10 DEF vars
  <1> QED
    BY <1>2, <1>4, <1>5, <1>6, <1>7, <1>8, <1>9, <1>10 DEF Next, End

LEMMA HandlersStep == CookbookInv /\ [Next]_vars => HandlersRight'
  <1> SUFFICES ASSUME CookbookInv, [Next]_vars, NEW k \in Requests, req'[k] # Idle
               PROVE  up' /\ Right(req[k])'
    BY DEF HandlersRight
  <1>0. TypeOK /\ TypeOK'
    BY TypeStep DEF CookbookInv
  <1>1. CASE req'[k] = req[k]
    <2>1. req[k] \in Handlers /\ up /\ Right(req[k])
      BY <1>0, <1>1, HandlerShape DEF CookbookInv, HandlersRight
    <2>2. req[k].recipe \in Recipes /\ req[k].count \in Nat
      BY <2>1 DEF Handlers
    <2>3. req[k].op = "cook" =>
            /\ req[k].keep /\ state'[req[k].recipe] # "absent"
            /\ req[k].recipe \in There' => req[k].count <= events'[req[k].recipe]
      BY <1>0, <2>1, <2>2, Staying DEF Right, TypeOK
    <2> QED
      BY <1>1, <2>1, <2>3, HandlersKeep DEF Right
  <1>2. CASE req'[k].op = "persist"
    BY <1>2, HandlersKeep DEF Right
  <1>3. CASE Begin(k)
    <2>1. PICK g \in Handlers : req' = [req EXCEPT ![k] = g] /\ Right(g)
      BY <1>3, Loading
    <2>2. req'[k] = g /\ UNCHANGED <<up, state, events>> /\ up
      BY <1>0, <1>3, <2>1, Loading DEF TypeOK, recipe, cooks
    <2> QED
      BY <2>1, <2>2 DEF Right, There
  <1> QED
    BY <1>1, <1>2, <1>3, HandlersKeep

\* A recipe that is inserted was absent, and has nothing.
LEMMA Inserting ==
  ASSUME CookbookInv, NEW r \in Recipes, NEW u, NEW x, NEW keep, NEW rows,
         Insert(r, u, x, keep, rows)
  PROVE  NothingLeft' /\ CooksAreCounted'
  <1>0. TypeOK /\ NothingLeft /\ CooksAreCounted
    BY DEF CookbookInv
  <1>1. state[r] # "there" /\ state' = [state EXCEPT ![r] = "there"] /\ UNCHANGED <<cooks, relation>>
    BY DEF Insert
  <1>2. NothingLeft'
    BY <1>0, <1>1 DEF NothingLeft, TypeOK, cooks
  <1>3. cooked[r] = 0 /\ events[r] = 0
    BY <1>0, <1>1 DEF NothingLeft
  <1>4. CooksAreCounted'
    BY <1>0, <1>1, <1>3 DEF CooksAreCounted, TypeOK, cooks, There
  <1> QED
    BY <1>2, <1>4

LEMMA Removing ==
  ASSUME CookbookInv, NEW S \in SUBSET Recipes, Remove(S)
  PROVE  NothingLeft' /\ CooksAreCounted'
  BY DEF CookbookInv, TypeOK, NothingLeft, CooksAreCounted, Remove, There, NoRelation

LEMMA BooksStep == CookbookInv /\ [Next]_vars => NothingLeft' /\ CooksAreCounted'
  <1> DEFINE Goal == NothingLeft' /\ CooksAreCounted'
  <1> SUFFICES ASSUME CookbookInv, [Next]_vars PROVE Goal
    OBVIOUS
  <1>0. TypeOK /\ NothingLeft /\ CooksAreCounted
    BY DEF CookbookInv
  <1> USE DEF recipe, cooks
  <1>1. ASSUME UNCHANGED <<state, relation, cooks>> PROVE Goal
    BY <1>0, <1>1 DEF NothingLeft, CooksAreCounted, There
  <1>2. ASSUME NEW h \in Requests, Begin(h) PROVE Goal
    BY <1>1, <1>2, Loading
  <1>3. ASSUME NEW h \in Requests, CommitMark(h) PROVE Goal
    <2>1. /\ UNCHANGED <<state, cooks>> /\ req[h].recipe \in There
          /\ relation' = [relation EXCEPT ![req[h].user][req[h].recipe] =
               [there |-> TRUE,
                marks |-> (@.marks \ (req[h].seen.marks \ req[h].marks))
                            \cup (req[h].marks \ req[h].seen.marks)]]
      BY <1>3 DEF CommitMark
    <2>2. \A u \in Users, r \in Recipes :
            \/ relation'[u][r] = relation[u][r]
            \/ r = req[h].recipe /\ relation'[u][r].there
      BY <1>0, <2>1, SMTT(40) DEF TypeOK
    <2>3. NothingLeft'
      BY <1>0, <2>1, <2>2 DEF NothingLeft, There
    <2> QED
      BY <1>0, <2>1, <2>3 DEF CooksAreCounted, There
  <1>4. ASSUME NEW h \in Requests, CommitUnrate(h) PROVE Goal
    <2>1. UNCHANGED <<state, cooks>> /\ relation' = [relation EXCEPT ![req[h].user][req[h].recipe] = NoRelation]
      BY <1>4 DEF CommitUnrate
    <2>2. \A u \in Users, r \in Recipes : relation'[u][r] \in {relation[u][r], NoRelation}
      BY <1>0, <2>1 DEF TypeOK
    <2>3. NothingLeft'
      BY <1>0, <2>1, <2>2 DEF NothingLeft, NoRelation
    <2> QED
      BY <1>0, <2>1, <2>3 DEF CooksAreCounted, There
  <1>5. ASSUME NEW h \in Requests, CommitCook(h) PROVE Goal
    <2> DEFINE r == req[h].recipe
    <2>1. req[h] \in Handlers /\ Right(req[h]) /\ r \in There /\ r \in Recipes /\ req[h].op = "cook"
      BY <1>0, <1>5, HandlerShape DEF CommitCook, CookbookInv, HandlersRight, There
    <2>2. req[h].count \in Nat /\ req[h].count <= events[r]
      BY <2>1 DEF Right, Handlers
    <2>3. /\ UNCHANGED <<state, relation>>
          /\ cooked' = [cooked EXCEPT ![r] = req[h].count + 1]
          /\ events' = [events EXCEPT ![r] = @ + 1]
          /\ lost' = IF req[h].count # cooked[r] THEN lost \cup {r} ELSE lost
      BY <1>5 DEF CommitCook, Counted
    <2>4. NothingLeft'
      BY <1>0, <2>1, <2>3 DEF NothingLeft, There, TypeOK
    <2>5. CooksAreCounted'
      BY <1>0, <2>1, <2>2, <2>3 DEF CooksAreCounted, There, TypeOK
    <2> QED
      BY <2>4, <2>5
  <1>6. ASSUME NEW h \in Requests, Persist(h) \/ Abort(h) PROVE Goal
    BY <1>1, <1>6 DEF Persist, Abort
  <1>7. ASSUME NEW h \in Requests, CommitDelete(h) PROVE Goal
    <2>1. req[h].recipe \in Recipes /\ Remove({req[h].recipe})
      BY <1>7 DEF CommitDelete, There
    <2> QED
      BY <2>1, Removing
  <1>8. ASSUME NEW h \in Requests, CommitImport(h) PROVE Goal
    <2>1. req[h].recipe \in Recipes
      BY <1>0, <1>8, HandlerShape DEF CommitImport, Handlers
    <2> QED
      BY <1>8, <2>1, Inserting DEF CommitImport
  <1>9. ASSUME NEW r \in Recipes, Edit(r) PROVE Goal
    <2>1. ASSUME NEW u \in Users, NEW x \in Urls \cup {NoUrl}, CreateRecipe(u, r, x) PROVE Goal
      BY <2>1, Inserting DEF CreateRecipe
    <2>2. CASE UNCHANGED <<state, relation, cooks>>
      BY <1>1, <2>2
    <2> QED
      BY <1>9, <2>1, <2>2 DEF Edit, UpdateRecipe, EditIngredients, Refer, Age
  <1>10. CASE Crash
    BY <1>1, <1>10 DEF Crash
  <1>11. CASE Prune
    BY <1>1, <1>11, Removing DEF Prune, Expired, There
  <1>12. CASE UNCHANGED vars
    BY <1>1, <1>12 DEF vars
  <1> QED
    BY <1>2, <1>3, <1>4, <1>5, <1>6, <1>7, <1>8, <1>9, <1>10, <1>11, <1>12 DEF Next, End

\* Has a member engaged with r?
Engaged(r) == (\E u \in Users : relation[u][r].marks # {}) \/ events[r] > 0

\* Is r persisted, or going to be, or has that failed?
Cared(r) == kept[r] \/ r \in Pending \/ r \in missed

\* What an engagement leaves behind is dealt with by its handler.
LEMMA Engaging ==
  ASSUME CookbookInv, [Next]_vars, NEW r \in There', Engaged(r)', ~(r \in There /\ Engaged(r))
  PROVE  \E h \in Requests :
           /\ req[h] # Idle /\ req[h].op \in {"mark", "cook"}
           /\ req[h].keep /\ req[h].recipe = r /\ Proceed(h)
  <1> DEFINE Goal == \E h \in Requests :
                       /\ req[h] # Idle /\ req[h].op \in {"mark", "cook"}
                       /\ req[h].keep /\ req[h].recipe = r /\ Proceed(h)
  <1>0. TypeOK /\ NothingLeft /\ r \in Recipes
    BY DEF CookbookInv, There
  <1> USE DEF recipe, cooks
  <1>1. r \notin There => ~Engaged(r)
    BY <1>0 DEF NothingLeft, NoRelation, Engaged, There
  <1>2. ASSUME UNCHANGED <<relation, cooks>> PROVE FALSE
    BY <1>1, <1>2 DEF Engaged
  <1>3. ASSUME NEW h \in Requests, Begin(h) PROVE FALSE
    BY <1>2, <1>3, Loading
  <1>4. ASSUME NEW h \in Requests, CommitMark(h) PROVE Goal
    <2>1. req[h] \in Handlers /\ Right(req[h]) /\ req[h] # Idle
      BY <1>0, <1>4, HandlerShape DEF CommitMark, CookbookInv, HandlersRight
    <2>2. state' = state /\ UNCHANGED cooks /\ req[h].op = "mark" /\ Proceed(h)
      BY <1>4 DEF CommitMark
    <2> DEFINE before == relation[req[h].user][req[h].recipe].marks
               new == [there |-> TRUE,
                       marks |-> (before \ (req[h].seen.marks \ req[h].marks))
                                   \cup (req[h].marks \ req[h].seen.marks)]
    <2>3. relation' = [relation EXCEPT ![req[h].user][req[h].recipe] = new]
      BY <1>4 DEF CommitMark
    <2>4. There' = There
      BY <2>2, Zenon DEF There
    <2>5. ~Engaged(r)
      BY <2>4
    <2>6. PICK u \in Users : relation'[u][r].marks # {}
      BY <2>2, <2>5 DEF Engaged
    <2>7. relation[u][r].marks = {}
      BY <2>5, Zenon DEF Engaged
    <2>8. u = req[h].user /\ r = req[h].recipe /\ relation'[u][r] = new
      <3> HIDE DEF new
      <3> QED
        BY <1>0, <2>3, <2>6, <2>7 DEF TypeOK
    <2>9. relation'[u][r].marks = req[h].marks \ req[h].seen.marks
      BY <2>7, <2>8
    <2>10. req[h].keep
      BY <2>1, <2>2, <2>6, <2>9 DEF Right
    <2> QED
      BY <2>1, <2>2, <2>8, <2>10
  <1>5. ASSUME NEW h \in Requests, CommitUnrate(h) PROVE FALSE
    <2>1. UNCHANGED <<state, cooks>> /\ relation' = [relation EXCEPT ![req[h].user][req[h].recipe] = NoRelation]
      BY <1>5 DEF CommitUnrate
    <2>2. \A u \in Users : relation'[u][r] \in {relation[u][r], NoRelation}
      BY <1>0, <2>1 DEF TypeOK
    <2> QED
      BY <1>1, <2>1, <2>2 DEF Engaged, There, NoRelation
  <1>6. ASSUME NEW h \in Requests, CommitCook(h) PROVE Goal
    <2>1. req[h] \in Handlers /\ Right(req[h]) /\ req[h] # Idle
      BY <1>0, <1>6, HandlerShape DEF CommitCook, CookbookInv, HandlersRight
    <2>2. /\ UNCHANGED <<state, relation>> /\ req[h].op = "cook" /\ Proceed(h)
          /\ events' = [events EXCEPT ![req[h].recipe] = @ + 1]
      BY <1>6 DEF CommitCook
    <2>3. r = req[h].recipe
      BY <1>0, <1>1, <2>2 DEF Engaged, TypeOK, There
    <2> QED
      BY <2>1, <2>2, <2>3 DEF Right
  <1>7. ASSUME NEW h \in Requests, Persist(h) \/ Abort(h) PROVE FALSE
    BY <1>2, <1>7 DEF Persist, Abort
  <1>8. ASSUME NEW S \in SUBSET Recipes, Remove(S) PROVE FALSE
    BY <1>0, <1>1, <1>8 DEF Remove, There, Engaged, TypeOK, NoRelation
  <1>9. ASSUME NEW h \in Requests, CommitDelete(h) PROVE FALSE
    <2>1. req[h].recipe \in Recipes /\ Remove({req[h].recipe})
      BY <1>9 DEF CommitDelete, There
    <2> QED
      BY <1>8, <2>1
  <1>10. ASSUME NEW h \in Requests, CommitImport(h) PROVE FALSE
    BY <1>2, <1>10 DEF CommitImport, Insert
  <1>11. ASSUME NEW q \in Recipes, Edit(q) PROVE FALSE
    BY <1>2, <1>11 DEF Edit, CreateRecipe, Insert, UpdateRecipe, EditIngredients, Refer, Age
  <1>12. CASE Crash
    BY <1>2, <1>12 DEF Crash
  <1>13. CASE Prune
    BY <1>2, <1>8, <1>13 DEF Prune, Expired, There
  <1>14. CASE UNCHANGED vars
    BY <1>2, <1>14 DEF vars
  <1> QED
    BY <1>3, <1>4, <1>5, <1>6, <1>7, <1>9, <1>10, <1>11, <1>12, <1>13, <1>14 DEF Next, End

LEMMA CaredStays ==
  ASSUME CookbookInv, [Next]_vars, NEW r \in There, r \in There', Cared(r)
  PROVE  Cared(r)'
  <1>0. TypeOK /\ r \in Recipes
    BY DEF CookbookInv, There
  <1> USE DEF recipe, cooks
  <1>1. ASSUME kept'[r] = kept[r], r \in missed => r \in missed',
               \A k \in Requests : req[k] # Idle /\ req[k].op = "persist" => req'[k] = req[k]
        PROVE  Cared(r)'
    BY <1>0, <1>1 DEF Cared, Pending
  <1>2. ASSUME NEW h \in Requests, req[h].op # "persist", NEW g, req' = [req EXCEPT ![h] = g],
               kept'[r] = kept[r], r \in missed => r \in missed'
        PROVE  Cared(r)'
    BY <1>0, <1>1, <1>2 DEF TypeOK
  <1>3. ASSUME NEW h \in Requests, Begin(h) PROVE Cared(r)'
    BY <1>2, <1>3, Loading, HandlerShape, <1>0
  <1>4. ASSUME NEW h \in Requests, CommitMark(h) \/ CommitUnrate(h) \/ CommitCook(h) PROVE Cared(r)'
    <2>1. req[h] \in Handlers /\ req[h].op # "persist" /\ Proceed(h) /\ UNCHANGED <<kept, missed>>
      BY <1>0, <1>4, HandlerShape DEF CommitMark, CommitUnrate, CommitCook
    <2> QED
      BY <1>0, <1>2, <2>1 DEF Proceed
  <1>5. ASSUME NEW h \in Requests, CommitDelete(h) PROVE Cared(r)'
    <2>1. req[h] \in Handlers /\ req[h].op # "persist" /\ Proceed(h) /\ UNCHANGED <<kept, missed>>
      BY <1>0, <1>5, HandlerShape DEF CommitDelete, Remove
    <2> QED
      BY <1>0, <1>2, <2>1 DEF Proceed
  <1>6. ASSUME NEW q, NEW u, NEW x, NEW keep, NEW rows, Insert(q, u, x, keep, rows)
        PROVE  kept'[r] = kept[r] /\ missed' = missed
    BY <1>0, <1>6 DEF Insert, There, TypeOK
  <1>7. ASSUME NEW h \in Requests, CommitImport(h) PROVE Cared(r)'
    BY <1>2, <1>6, <1>7 DEF CommitImport, Proceed
  <1>8. ASSUME NEW h \in Requests, Persist(h) PROVE Cared(r)'
    <2>1. /\ kept' = [kept EXCEPT ![req[h].recipe] = TRUE]
          /\ missed' = missed \ {req[h].recipe}
          /\ req' = [req EXCEPT ![h] = Idle]
      BY <1>8 DEF Persist
    <2>2. CASE req[h].recipe = r
      BY <1>0, <2>1, <2>2 DEF Cared, TypeOK
    <2>3. CASE req[h].recipe # r
      BY <1>0, <2>1, <2>3 DEF Cared, TypeOK, Pending
    <2> QED
      BY <2>2, <2>3
  <1>9. ASSUME NEW h \in Requests, Abort(h) PROVE Cared(r)'
    <2>1. /\ req[h] # Idle /\ req' = [req EXCEPT ![h] = Idle] /\ kept' = kept
          /\ missed' = IF req[h].op = "persist" THEN missed \cup Unkept({req[h].recipe}) ELSE missed
      BY <1>9 DEF Abort
    <2>2. CASE req[h].op = "persist" /\ req[h].recipe = r
      BY <1>0, <2>1, <2>2 DEF Cared, Unkept
    <2>3. CASE ~(req[h].op = "persist" /\ req[h].recipe = r)
      BY <1>0, <2>1, <2>3 DEF Cared, TypeOK, Pending
    <2> QED
      BY <2>2, <2>3
  <1>10. ASSUME NEW q \in Recipes, Edit(q) PROVE Cared(r)'
    <2>1. ASSUME NEW u \in Users, NEW x \in Urls \cup {NoUrl}, CreateRecipe(u, q, x) PROVE Cared(r)'
      BY <1>1, <1>6, <2>1 DEF CreateRecipe
    <2>2. CASE UNCHANGED <<kept, missed, req>>
      BY <1>1, <2>2
    <2> QED
      BY <1>10, <2>1, <2>2 DEF Edit, UpdateRecipe, EditIngredients, Refer, Age
  <1>11. CASE Crash
    BY <1>11 DEF Crash, Cared, Unkept
  <1>12. CASE Prune
    BY <1>1, <1>12 DEF Prune, Remove
  <1>13. CASE UNCHANGED vars
    BY <1>1, <1>13 DEF vars
  <1> QED
    BY <1>3, <1>4, <1>5, <1>7, <1>8, <1>9, <1>10, <1>11, <1>12, <1>13 DEF Next, End

LEMMA EngagedStep == CookbookInv /\ [Next]_vars => EngagedIsKept'
  <1> SUFFICES ASSUME CookbookInv, [Next]_vars, NEW r \in There', Engaged(r)'
               PROVE  Cared(r)'
    BY DEF EngagedIsKept, Engaged, Cared
  <1>1. CASE r \in There /\ Engaged(r)
    <2>1. Cared(r)
      BY <1>1 DEF CookbookInv, EngagedIsKept, Engaged, Cared
    <2> QED
      BY <1>1, <2>1, CaredStays
  <1>2. CASE ~(r \in There /\ Engaged(r))
    <2>1. PICK h \in Requests : /\ req[h] # Idle /\ req[h].op \in {"mark", "cook"}
                                /\ req[h].keep /\ req[h].recipe = r /\ Proceed(h)
      BY <1>2, Engaging
    <2>2. TypeOK /\ req[h] \in Handlers
      BY <2>1, HandlerShape DEF CookbookInv
    <2>3. PICK g \in Handlers : req' = [req EXCEPT ![h] = g] /\ g.op = "persist" /\ g.recipe = r
      BY <2>1, <2>2, Proceeding
    <2>4. req'[h] = g /\ g # Idle
      BY <2>2, <2>3 DEF TypeOK, Idle
    <2> QED
      BY <2>3, <2>4 DEF Cared, Pending
  <1> QED
    BY <1>1, <1>2

THEOREM Invariance == Spec => []CookbookInv
  <1>1. CookbookInv /\ [Next]_vars => CookbookInv'
    BY TypeStep, HandlersStep, BooksStep, EngagedStep DEF CookbookInv
  <1> QED
    BY <1>1, InitInvariants, PTL DEF Spec

\* Every variable keeps its type, of any number of recipes, members and handlers.
THEOREM TypeCorrect == Spec => []TypeOK
  <1>1. CookbookInv => TypeOK
    BY DEF CookbookInv
  <1> QED
    BY <1>1, Invariance, PTL

\* Whoever has engaged with a recipe finds it kept, unless its second commit fails.
THEOREM EngagedTheorem == Spec => []EngagedIsKept
  <1>1. CookbookInv => EngagedIsKept
    BY DEF CookbookInv
  <1> QED
    BY <1>1, Invariance, PTL

\* No cook event is counted twice, and none is lost but where cooks overlap.
THEOREM CountTheorem == Spec => []CooksAreCounted
  <1>1. CookbookInv => CooksAreCounted
    BY DEF CookbookInv
  <1> QED
    BY <1>1, Invariance, PTL

\* Why a mark vanishes in a step.
Explained(u, r) ==
  \/ ~up /\ r \in missed
  \/ \E h \in Requests :
       /\ req[h] # Idle /\ req'[h] # req[h]
       /\ req[h].op \in {"mark", "unrate"}
       /\ req[h].user = u /\ req[h].recipe = r

LEMMA MarksStep ==
  ASSUME CookbookInv, [Next]_vars, NEW u \in Users, NEW r \in Recipes,
         relation[u][r].marks \ relation'[u][r].marks # {}
  PROVE  Explained(u, r)
  <1>0. TypeOK /\ NothingLeft
    BY DEF CookbookInv
  <1> USE DEF recipe, cooks
  <1>1. relation # relation'
    OBVIOUS
  <1>2. ASSUME NEW h \in Requests, Begin(h) PROVE FALSE
    BY <1>1, <1>2, Loading
  <1>3. ASSUME NEW h \in Requests, CommitMark(h) \/ CommitUnrate(h) PROVE Explained(u, r)
    <2>1. req[h] \in Handlers /\ req[h].op \in {"mark", "unrate"} /\ Proceed(h) /\ req[h] # Idle
      BY <1>0, <1>3, HandlerShape DEF CommitMark, CommitUnrate
    <2>2. req'[h] # req[h]
      <3>1. PICK g : req' = [req EXCEPT ![h] = g] /\ g # req[h]
        BY <1>0, <2>1, Proceeding
      <3> QED
        BY <1>0, <3>1 DEF TypeOK
    <2>3. req[h].user = u /\ req[h].recipe = r
      <3>1. PICK e : relation' = [relation EXCEPT ![req[h].user][req[h].recipe] = e]
        BY <1>3 DEF CommitMark, CommitUnrate
      <3> QED
        BY <1>0, <1>1, <3>1 DEF TypeOK
    <2> QED
      BY <2>1, <2>2, <2>3 DEF Explained
  <1>4. ASSUME NEW h \in Requests, CommitCook(h) \/ Persist(h) \/ Abort(h) PROVE FALSE
    BY <1>1, <1>4 DEF CommitCook, Persist, Abort
  <1>5. ASSUME NEW S \in SUBSET Recipes, Remove(S) PROVE r \in S
    BY <1>0, <1>5 DEF Remove, TypeOK
  <1>6. ASSUME NEW h \in Requests, CommitDelete(h) PROVE FALSE
    <2>1. req[h].recipe \in Recipes /\ Remove({req[h].recipe}) /\ Deletable(req[h].recipe)
      BY <1>6 DEF CommitDelete, There
    <2>2. r = req[h].recipe
      BY <1>5, <2>1
    <2> QED
      BY <1>0, <2>1, <2>2 DEF Deletable, NothingLeft
  <1>7. ASSUME NEW h \in Requests, CommitImport(h) PROVE FALSE
    BY <1>1, <1>7 DEF CommitImport, Insert
  <1>8. ASSUME NEW q \in Recipes, Edit(q) PROVE FALSE
    BY <1>1, <1>8 DEF Edit, CreateRecipe, Insert, UpdateRecipe, EditIngredients, Refer, Age
  <1>9. CASE Crash
    BY <1>1, <1>9 DEF Crash
  <1>10. CASE Prune
    <2>1. Remove(Expired) /\ Expired \subseteq Recipes /\ ~up
      BY <1>1, <1>10 DEF Prune, Expired, There
    <2>2. r \in There /\ ~kept[r]
      BY <1>5, <2>1 DEF Expired
    <2>3. Pending = {}
      BY <2>1 DEF Pending, CookbookInv, HandlersRight
    <2>4. r \in missed
      BY <2>2, <2>3 DEF CookbookInv, EngagedIsKept
    <2> QED
      BY <2>1, <2>4 DEF Explained
  <1>11. CASE UNCHANGED vars
    BY <1>1, <1>11 DEF vars
  <1> QED
    BY <1>2, <1>3, <1>4, <1>6, <1>7, <1>8, <1>9, <1>10, <1>11 DEF Next, End

\* Nobody loses a mark to another's request, to the deletion of the recipe or to
\* its age, unless the commit that was to persist the recipe has failed.
THEOREM MarksTheorem == Spec => MarksOutlive
  <1>1. CookbookInv /\ [Next]_vars =>
          [\A u \in Users, r \in Recipes :
             relation[u][r].marks \ relation'[u][r].marks # {} => Explained(u, r)]_vars
    BY MarksStep
  <1>2. CookbookInv /\ [Next]_vars =>
          [\A u \in Users, r \in Recipes :
             relation[u][r].marks \ relation'[u][r].marks # {} =>
               \/ ~up /\ r \in missed
               \/ \E h \in Requests :
                    /\ req[h] # Idle /\ req'[h] # req[h]
                    /\ req[h].op \in {"mark", "unrate"}
                    /\ req[h].user = u /\ req[h].recipe = r]_vars
    BY <1>1 DEF Explained
  <1> QED
    BY <1>2, Invariance, PTL DEF Spec, MarksOutlive

-----------------------------------------------------------------------------
(* Imports of one URL.                                                     *)

\* A recipe is newly imported by the handler that ends with it.
LEMMA ImportedBy ==
  ASSUME CookbookInv, [Next]_vars, NEW x \in Urls, NEW r \in Imported(x)', r \notin Imported(x)
  PROVE  \E h \in Requests :
           /\ h \in Importing(x) /\ Importing(x)' \subseteq Importing(x) \ {h}
           /\ Imported(x)' = Imported(x) \cup {r}
  <1> DEFINE Goal == \E h \in Requests :
                       /\ h \in Importing(x) /\ Importing(x)' \subseteq Importing(x) \ {h}
                       /\ Imported(x)' = Imported(x) \cup {r}
  <1>0. TypeOK /\ r \in Recipes
    BY DEF CookbookInv, Imported, There
  <1> USE DEF recipe, cooks, Imported, There
  <1>1. ASSUME UNCHANGED <<state, owner, url>> PROVE FALSE
    BY <1>1
  <1>2. ASSUME NEW h \in Requests, Begin(h) PROVE FALSE
    BY <1>1, <1>2, Loading, SMTT(40)
  <1>3. ASSUME NEW h \in Requests,
               CommitMark(h) \/ CommitUnrate(h) \/ CommitCook(h) \/ Persist(h) \/ Abort(h)
        PROVE  FALSE
    BY <1>1, <1>3 DEF CommitMark, CommitUnrate, CommitCook, Persist, Abort
  <1>4. ASSUME NEW S, Remove(S) PROVE FALSE
    BY <1>0, <1>4 DEF Remove
  <1>5. ASSUME NEW h \in Requests, CommitDelete(h) PROVE FALSE
    BY <1>4, <1>5 DEF CommitDelete
  <1>6. ASSUME NEW h \in Requests, CommitImport(h) PROVE Goal
    <2>1. req[h] \in Handlers /\ req[h].op = "import" /\ req[h].recipe \in Recipes
      BY <1>0, <1>6, HandlerShape DEF CommitImport, Handlers
    <2> DEFINE q == req[h].recipe
    <2>2. /\ state[q] = "absent"
          /\ state' = [state EXCEPT ![q] = "there"]
          /\ owner' = [owner EXCEPT ![q] = NoUser]
          /\ url' = [url EXCEPT ![q] = req[h].url]
          /\ Proceed(h)
      BY <1>6 DEF CommitImport, Insert
    <2> HIDE DEF q
    <2>3. r = q
      BY <1>0, <2>1, <2>2 DEF TypeOK
    <2>4. req[h].url = x
      BY <1>0, <2>2, <2>3 DEF TypeOK
    <2>5. Imported(x)' = Imported(x) \cup {r}
      BY <1>0, <2>2, <2>3, <2>4 DEF TypeOK
    <2>6. PICK g : req' = [req EXCEPT ![h] = g] /\ g.op # "import"
      BY <1>0, <2>1, <2>2, Proceeding, HandlerShape DEF Idle
    <2>7. Importing(x)' \subseteq Importing(x) \ {h}
      BY <1>0, <2>6 DEF Importing, TypeOK
    <2> QED
      BY <2>1, <2>4, <2>5, <2>7 DEF Importing
  <1>7. ASSUME NEW q \in Recipes, Edit(q) PROVE FALSE
    <2>1. ASSUME NEW u \in Users, NEW y \in Urls \cup {NoUrl}, CreateRecipe(u, q, y) PROVE FALSE
      BY <1>0, <2>1, CookbookAssumption DEF CreateRecipe, Insert, TypeOK
    <2>2. ASSUME NEW y \in Urls \cup {NoUrl}, UpdateRecipe(q, y) PROVE FALSE
      BY <1>0, <2>2 DEF UpdateRecipe, TypeOK
    <2>3. CASE UNCHANGED <<state, owner, url>>
      BY <1>1, <2>3
    <2> QED
      BY <1>7, <2>1, <2>2, <2>3 DEF Edit, EditIngredients, Refer, Age
  <1>8. CASE Crash
    BY <1>1, <1>8 DEF Crash
  <1>9. CASE Prune
    BY <1>1, <1>4, <1>9 DEF Prune
  <1>10. CASE UNCHANGED vars
    BY <1>1, <1>10 DEF vars
  <1> QED
    BY <1>2, <1>3, <1>5, <1>6, <1>7, <1>8, <1>9, <1>10 DEF Next, End

\* An import starts with a URL that nobody has, and ends nothing else.
LEMMA ImportingBy ==
  ASSUME CookbookInv, [Next]_vars, OnlyImporters, NEW x \in Urls,
         NEW h \in Importing(x)', h \notin Importing(x)
  PROVE  /\ Imported(x) = {} /\ Imported(x)' = {}
         /\ Importing(x)' = Importing(x) \cup {h} /\ h \in Importers
  <1>0. TypeOK /\ h \in Requests /\ req'[h].op = "import"
    BY DEF CookbookInv, Importing
  <1>1. req'[h] # Idle
    BY <1>0 DEF Idle
  <1>2. req'[h] # req[h]
    BY <1>0 DEF Importing
  <1>3. Begin(h)
    BY <1>0, <1>1, <1>2, HandlersKeep
  <1>4. PICK g : req' = [req EXCEPT ![h] = g] /\ Fresh(h, g)
    BY <1>0, <1>3, Loading
  <1>5. req'[h] = g
    BY <1>0, <1>4 DEF TypeOK
  <1>6. g.op = "import" /\ g.url = x
    BY <1>0, <1>5 DEF Importing
  <1>7. Imported(x) = {} /\ h \in Importers
    BY <1>4, <1>6 DEF Fresh, Unknown, Imported
  <1>8. Imported(x)' = {}
    BY <1>0, <1>3, <1>7, Loading DEF Imported, There, recipe
  <1>9. Importing(x)' = Importing(x) \cup {h}
    BY <1>0, <1>4, <1>5, <1>6 DEF Importing, TypeOK
  <1> QED
    BY <1>7, <1>8, <1>9

LEMMA OnlyImportersStep == CookbookInv /\ OnlyImporters /\ [Next]_vars => OnlyImporters'
  <1> SUFFICES ASSUME CookbookInv, OnlyImporters, [Next]_vars,
                      NEW h \in Requests, req'[h].op = "import", h \notin Importers
               PROVE  FALSE
    BY DEF OnlyImporters
  <1>0. TypeOK
    BY DEF CookbookInv
  <1>1. req'[h] # Idle /\ req'[h] # req[h]
    BY DEF OnlyImporters, Idle
  <1>2. Begin(h)
    BY <1>1, HandlersKeep
  <1>3. PICK g : req' = [req EXCEPT ![h] = g] /\ Fresh(h, g)
    BY <1>2, Loading
  <1> QED
    BY <1>0, <1>3 DEF Fresh, TypeOK

\* The importers at work on a URL, and what they have made of it, stay within them.
LEMMA ImportsStep ==
  ASSUME CookbookInv, ImportedOrImporting, [Next]_vars, NEW x \in Urls
  PROVE  /\ IsFiniteSet(Imported(x)')
         /\ Cardinality(Imported(x)') + Cardinality(Importing(x)') <= Cardinality(Importers)
  <1> DEFINE I == Imported(x)  W == Importing(x)  II == Imported(x)'  WW == Importing(x)'
  <1>0. /\ IsFiniteSet(Importers) /\ OnlyImporters /\ OnlyImporters'
        /\ IsFiniteSet(I) /\ Cardinality(I) + Cardinality(W) <= Cardinality(Importers)
    BY CookbookAssumption, OnlyImportersStep DEF ImportedOrImporting
  <1>1. W \subseteq Importers /\ WW \subseteq Importers
    BY <1>0 DEF OnlyImporters, Importing
  <1>2. IsFiniteSet(W) /\ IsFiniteSet(WW)
    BY <1>0, <1>1, FS_Subset
  <1>3. /\ Cardinality(I) \in Nat /\ Cardinality(W) \in Nat /\ Cardinality(WW) \in Nat
        /\ Cardinality(Importers) \in Nat
    BY <1>0, <1>2, FS_CardinalityType
  <1>4. CASE \E r \in II : r \notin I
    <2>1. PICK r \in II, h \in W : r \notin I /\ II = I \cup {r} /\ WW \subseteq W \ {h}
      BY <1>4, ImportedBy
    <2>2. IsFiniteSet(II) /\ Cardinality(II) = Cardinality(I) + 1
      BY <1>0, <2>1, FS_AddElement
    <2>3. Cardinality(W \ {h}) = Cardinality(W) - 1 /\ IsFiniteSet(W \ {h})
      BY <1>2, FS_RemoveElement
    <2>4. Cardinality(WW) <= Cardinality(W) - 1
      BY <2>1, <2>3, FS_Subset
    <2> QED
      BY <1>0, <1>3, <2>2, <2>4
  <1>5. CASE II \subseteq I /\ \E h \in WW : h \notin W
    <2>1. I = {} /\ II = {}
      BY <1>5, <1>0, ImportingBy
    <2>2. Cardinality(WW) <= Cardinality(Importers)
      BY <1>0, <1>1, FS_Subset
    <2> QED
      BY <1>3, <2>1, <2>2, FS_EmptySet
  <1>6. CASE II \subseteq I /\ WW \subseteq W
    <2>1. IsFiniteSet(II) /\ Cardinality(II) <= Cardinality(I) /\ Cardinality(II) \in Nat
      BY <1>0, <1>6, FS_Subset, FS_CardinalityType
    <2>2. Cardinality(WW) <= Cardinality(W)
      BY <1>2, <1>6, FS_Subset
    <2> QED
      BY <1>0, <1>3, <2>1, <2>2
  <1> QED
    BY <1>4, <1>5, <1>6

\* A URL is imported no more often than imports can overlap: whoever looks for it
\* later finds it.
THEOREM ImportsTheorem == Spec => []ImportsPerOverlap
  <1>1. Init => ImportedOrImporting
    <2> SUFFICES ASSUME Init PROVE ImportedOrImporting
      OBVIOUS
    <2>1. /\ \A x \in Urls : Imported(x) = {} /\ Importing(x) = {}
          /\ OnlyImporters
      BY DEF Init, Imported, Importing, There, OnlyImporters, Idle
    <2>2. Cardinality(Importers) \in Nat
      BY CookbookAssumption, FS_CardinalityType
    <2> QED
      BY <2>1, <2>2, FS_EmptySet DEF ImportedOrImporting
  <1>2. CookbookInv /\ ImportedOrImporting /\ [Next]_vars => ImportedOrImporting'
    BY ImportsStep, OnlyImportersStep DEF ImportedOrImporting
  <1>3. ImportedOrImporting => ImportsPerOverlap
    <2> SUFFICES ASSUME ImportedOrImporting, NEW x \in Urls
                 PROVE  Cardinality(Imported(x)) <= Cardinality(Importers)
      BY DEF ImportsPerOverlap
    <2>1. /\ IsFiniteSet(Imported(x))
          /\ Cardinality(Imported(x)) + Cardinality(Importing(x)) <= Cardinality(Importers)
      BY DEF ImportedOrImporting
    <2>2. Importing(x) \subseteq Importers
      BY DEF ImportedOrImporting, OnlyImporters, Importing
    <2>3. /\ Cardinality(Imported(x)) \in Nat /\ Cardinality(Importing(x)) \in Nat
          /\ Cardinality(Importers) \in Nat
      BY <2>1, <2>2, CookbookAssumption, FS_Subset, FS_CardinalityType
    <2> QED
      BY <2>1, <2>3
  <1> QED
    BY <1>1, <1>2, <1>3, Invariance, PTL DEF Spec

-----------------------------------------------------------------------------
(* Cooks of one recipe.                                                    *)

\* times_cooked changes by a cook's commit, or with the recipe.
LEMMA CookedBy ==
  ASSUME CookbookInv, [Next]_vars
  PROVE  \/ lost' = lost /\ \A r \in There : r \in There' => cooked'[r] = cooked[r]
         \/ \E h \in Requests : CommitCook(h) /\ req'[h].op # "cook"
  <1> DEFINE Kept == lost' = lost /\ \A r \in There : r \in There' => cooked'[r] = cooked[r]
             Commits == \E h \in Requests : CommitCook(h) /\ req'[h].op # "cook"
  <1>0. TypeOK
    BY DEF CookbookInv
  <1> USE DEF recipe, cooks
  <1>1. ASSUME UNCHANGED cooks PROVE Kept
    BY <1>1
  <1>2. ASSUME NEW h \in Requests, Begin(h) PROVE Kept
    BY <1>1, <1>2, Loading
  <1>3. ASSUME NEW h \in Requests, CommitMark(h) \/ CommitUnrate(h) \/ Persist(h) \/ Abort(h) PROVE Kept
    BY <1>1, <1>3 DEF CommitMark, CommitUnrate, Persist, Abort
  <1>4. ASSUME NEW S, Remove(S) PROVE Kept
    BY <1>0, <1>4 DEF Remove, There, TypeOK
  <1>5. ASSUME NEW h \in Requests, CommitDelete(h) PROVE Kept
    BY <1>4, <1>5 DEF CommitDelete
  <1>6. ASSUME NEW h \in Requests, CommitImport(h) PROVE Kept
    BY <1>1, <1>6 DEF CommitImport, Insert
  <1>7. ASSUME NEW h \in Requests, CommitCook(h) PROVE Commits
    <2>1. req[h].op = "cook" /\ Proceed(h)
      BY <1>7 DEF CommitCook
    <2>2. PICK g : req' = [req EXCEPT ![h] = g] /\ g.op # "cook"
      BY <1>0, <2>1, Proceeding, HandlerShape DEF Idle
    <2>3. req'[h].op # "cook"
      BY <1>0, <2>2 DEF TypeOK
    <2> QED
      BY <1>7, <2>3
  <1>8. ASSUME NEW q \in Recipes, Edit(q) PROVE Kept
    BY <1>1, <1>8 DEF Edit, CreateRecipe, Insert, UpdateRecipe, EditIngredients, Refer, Age
  <1>9. CASE Crash
    BY <1>1, <1>9 DEF Crash
  <1>10. CASE Prune
    BY <1>1, <1>4, <1>10 DEF Prune
  <1>11. CASE UNCHANGED vars
    BY <1>1, <1>11 DEF vars
  <1> QED
    BY <1>2, <1>3, <1>5, <1>6, <1>7, <1>8, <1>9, <1>10, <1>11 DEF Next, End

LEMMA LostStep ==
  ASSUME CookbookInv, NoCookLost, [Next]_vars
  PROVE  lost' = {}
  <1>1. CASE lost' = lost
    BY <1>1 DEF NoCookLost
  <1>2. CASE \E h \in Requests : CommitCook(h)
    <2>1. PICK h \in Requests : CommitCook(h)
      BY <1>2
    <2>2. req[h].op = "cook" /\ req[h].recipe \in There
      BY <2>1 DEF CommitCook
    <2>3. req[h].count = cooked[req[h].recipe]
      BY <2>2 DEF NoCookLost, CooksSee
    <2> QED
      BY <2>1, <2>3 DEF CommitCook, NoCookLost
  <1> QED
    BY <1>1, <1>2, CookedBy

\* Whoever has read times_cooked is the next to write it.
LEMMA CooksSeeStep ==
  ASSUME CookbookInv, NoCookLost, CooksApart, [Next]_vars
  PROVE  CooksSee'
  <1> SUFFICES ASSUME NEW k \in Requests, req'[k].op = "cook", req'[k].recipe \in There'
               PROVE  req'[k].count = cooked'[req'[k].recipe]
    BY DEF CooksSee
  <1> DEFINE r == req'[k].recipe
  <1>0. TypeOK /\ req'[k] # Idle
    BY DEF CookbookInv, Idle
  <1>1. CASE req'[k] = req[k]
    <2>1. req[k] \in Handlers /\ Right(req[k]) /\ req[k].op = "cook" /\ req[k].recipe = r
      BY <1>0, <1>1, HandlerShape DEF CookbookInv, HandlersRight
    <2>2. r \in Recipes /\ state[r] # "absent"
      BY <2>1 DEF Right, Handlers
    <2>3. r \in There
      BY <2>2, Staying
    <2>4. req[k].count = cooked[r]
      BY <2>1, <2>3 DEF NoCookLost, CooksSee
    <2>5. CASE \A q \in There : q \in There' => cooked'[q] = cooked[q]
      BY <1>1, <2>3, <2>4, <2>5
    <2>6. CASE \E h \in Requests : CommitCook(h) /\ req'[h].op # "cook"
      <3>1. PICK h \in Requests : CommitCook(h) /\ req'[h].op # "cook"
        BY <2>6
      <3>2. /\ req[h].op = "cook"
            /\ cooked' = [cooked EXCEPT ![req[h].recipe] = Counted(req[h].count)]
        BY <3>1 DEF CommitCook
      <3>3. req[h].recipe # r
        BY <2>1, <3>1, <3>2 DEF CooksApart
      <3> QED
        BY <1>0, <1>1, <2>2, <2>4, <3>2, <3>3 DEF TypeOK
    <2> QED
      BY <2>5, <2>6, CookedBy
  <1>2. CASE Begin(k)
    <2>1. PICK g : req' = [req EXCEPT ![k] = g] /\ Fresh(k, g)
      BY <1>2, Loading
    <2>2. req'[k] = g
      BY <1>0, <2>1 DEF TypeOK
    <2>3. cooked' = cooked
      BY <1>2, Loading DEF cooks
    <2> QED
      BY <2>1, <2>2, <2>3 DEF Fresh
  <1> QED
    BY <1>0, <1>1, <1>2, HandlersKeep

\* As long as no two members cook one recipe at the same time, times_cooked is the
\* number of its cook events.
THEOREM CooksApartTheorem ==
  Spec /\ []CooksApart => [](\A r \in There : cooked[r] = events[r])
  <1>1. Init => NoCookLost
    BY DEF Init, NoCookLost, CooksSee, Idle
  <1>2. CookbookInv /\ NoCookLost /\ CooksApart /\ [Next]_vars => NoCookLost'
    BY LostStep, CooksSeeStep DEF NoCookLost
  <1>3. CookbookInv /\ NoCookLost => \A r \in There : cooked[r] = events[r]
    BY DEF CookbookInv, NoCookLost, CooksAreCounted
  <1> QED
    BY <1>1, <1>2, <1>3, Invariance, PTL DEF Spec
=============================================================================
