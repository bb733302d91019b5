------------------------------ MODULE Cookbook ------------------------------
(***************************************************************************)
(* Recipes, what members do with them, and the browse cache                *)
(* (src/src/routers/recipes.py, src/src/services/import_service.py,        *)
(* recipe_service.py and cleanup_service.py).                              *)
(*                                                                         *)
(* An imported recipe is kept for some days only, until a member engages   *)
(* with it.  An engagement is two commits: the member's own row, and then  *)
(* is_persisted of the recipe, whose failure is only logged.  What is left *)
(* over is pruned when the application starts.                             *)
(*                                                                         *)
(* Of a relation the two marks are modelled, not the rating or the menu;   *)
(* of the tables that refer to a recipe and hold on to it, whether they    *)
(* have any such rows.  Views and cook events go with their recipe.        *)
(***************************************************************************)
EXTENDS Integers, FiniteSets

CONSTANTS Recipes, Users, NoUser,
          Urls, NoUrl,
          Requests,   \* the threads of the pool
          Importers,  \* those of them, or processes of the CLI, that import
          Marks,      \* is_bookmarked, is_liked
          Referrers,  \* the tables that hold recipes: "ingredient", "menu",
                      \* "prepared", and those of plans and of the grocery list
          MaxCooks    \* bound on cook events

ASSUME CookbookAssumption ==
  /\ NoUser \notin Users
  /\ NoUrl \notin Urls
  /\ Importers \subseteq Requests /\ IsFiniteSet(Importers)
  /\ MaxCooks \in Nat

VARIABLES
  up,        \* is the application past its start?
  state,     \* "absent", "there" or "gone"
  owner,     \* created_by; NoUser of an imported recipe
  url,       \* source_url
  kept,      \* is_persisted
  old,       \* is the recipe older than BROWSE_CACHE_TTL_DAYS?
  held,      \* the tables with rows that refer to the recipe
  relation,  \* the rows of UserRecipeRelation
  cooked,    \* times_cooked
  events,    \* the number of UserCookEvents
  req,       \* the handlers
  missed,    \* history: recipes whose second commit has not come
  lost       \* history: recipes with overlapping cooks

recipe == <<state, owner, url, kept, old>>
cooks == <<cooked, events, lost>>
vars == <<up, recipe, held, relation, cooks, req, missed>>

NoRelation == [there |-> FALSE, marks |-> {}]

Relations == [there : BOOLEAN, marks : SUBSET Marks]

Idle == [op |-> "none"]

\* A handler at work: the relation and times_cooked it has read, the marks it
\* wants, whether it then persists the recipe, the URL it imports.
Handlers ==
  [op : {"mark", "unrate", "cook", "delete", "import", "persist"},
   user : Users \cup {NoUser}, recipe : Recipes, seen : Relations,
   marks : SUBSET Marks, keep : BOOLEAN, count : Nat, url : Urls \cup {NoUrl}]

There == {r \in Recipes : state[r] = "there"}

Init ==
  /\ up       = TRUE
  /\ state    = [r \in Recipes |-> "absent"]
  /\ owner    = [r \in Recipes |-> NoUser]
  /\ url      = [r \in Recipes |-> NoUrl]
  /\ kept     = [r \in Recipes |-> FALSE]
  /\ old      = [r \in Recipes |-> FALSE]
  /\ held     = [r \in Recipes |-> {}]
  /\ relation = [u \in Users |-> [r \in Recipes |-> NoRelation]]
  /\ cooked   = [r \in Recipes |-> 0]
  /\ events   = [r \in Recipes |-> 0]
  /\ req      = [h \in Requests |-> Idle]
  /\ missed   = {}
  /\ lost     = {}

-----------------------------------------------------------------------------
(* Making recipes.                                                         *)

Insert(r, u, x, keep, rows) ==
  /\ state[r] = "absent"
  /\ state' = [state EXCEPT ![r] = "there"]
  /\ owner' = [owner EXCEPT ![r] = u]
  /\ url'   = [url EXCEPT ![r] = x]
  /\ kept'  = [kept EXCEPT ![r] = keep]
  /\ held'  = [held EXCEPT ![r] = rows]
  /\ UNCHANGED <<up, old, relation, cooks, missed>>

\* create_recipe, create_ad_hoc_recipe: a member's recipe is never pruned; the
\* one has no ingredients yet, the other comes with them.
CreateRecipe(u, r, x) ==
  /\ up
  /\ \E rows \in {{}, {"ingredient"}} : rows \subseteq Referrers /\ Insert(r, u, x, TRUE, rows)
  /\ UNCHANGED req

\* update_recipe: of what it changes the URL matters.
UpdateRecipe(r, x) ==
  /\ up /\ r \in There /\ owner[r] # NoUser
  /\ url' = [url EXCEPT ![r] = x]
  /\ UNCHANGED <<up, state, owner, kept, old, held, relation, cooks, req, missed>>

\* add_recipe_ingredient and delete_recipe_ingredient (there may be others left)
EditIngredients(r, rows) ==
  /\ up /\ r \in There /\ owner[r] # NoUser
  /\ rows \subseteq Referrers
  /\ held' = [held EXCEPT ![r] = (@ \ {"ingredient"}) \cup rows]
  /\ UNCHANGED <<up, recipe, relation, cooks, req, missed>>

\* Menus, meal plans, the grocery list and prepared foods refer to recipes.
Refer(r, rows) ==
  /\ up /\ r \in There
  /\ held' = [held EXCEPT ![r] = (@ \cap {"ingredient"}) \cup rows]
  /\ UNCHANGED <<up, recipe, relation, cooks, req, missed>>

\* A recipe outlives its time in the cache.
Age(r) ==
  /\ r \in There
  /\ old' = [old EXCEPT ![r] = TRUE]
  /\ UNCHANGED <<up, state, owner, url, kept, held, relation, cooks, req, missed>>

-----------------------------------------------------------------------------
(* Reading.                                                                *)

Load(h, op, u, r, marks, keep, x) ==
  /\ up /\ req[h] = Idle
  /\ req' = [req EXCEPT ![h] =
       [op |-> op, user |-> u, recipe |-> r, marks |-> marks, keep |-> keep, url |-> x,
        seen  |-> IF op = "mark" THEN relation[u][r] ELSE NoRelation,
        count |-> IF op = "cook" THEN cooked[r] ELSE 0]]
  /\ UNCHANGED <<up, recipe, held, relation, cooks, missed>>

\* bookmark_recipe and like_recipe
LoadMark(h, u, r, mark) ==
  r \in There /\ Load(h, "mark", u, r, relation[u][r].marks \cup {mark}, TRUE, NoUrl)

\* unbookmark_recipe and unlike_recipe
LoadUnmark(h, u, r, mark) ==
  r \in There /\ Load(h, "mark", u, r, relation[u][r].marks \ {mark}, FALSE, NoUrl)

\* Mutant: only bookmarks and likes that come one by one are kept.
KeepsNever(marks) == FALSE

Keeps(marks) == marks # {}

\* rate_recipe writes both marks, whatever they were.
LoadRate(h, u, r, marks) ==
  r \in There /\ Load(h, "mark", u, r, marks, Keeps(marks), NoUrl)

\* delete_my_rating
LoadUnrate(h, u, r) ==
  r \in There /\ relation[u][r].there /\ Load(h, "unrate", u, r, {}, FALSE, NoUrl)

\* cook_recipe
LoadCook(h, u, r) ==
  r \in There /\ events[r] < MaxCooks /\ Load(h, "cook", u, r, {}, TRUE, NoUrl)

\* delete_recipe
LoadDelete(h, u, r) ==
  r \in There /\ owner[r] = u /\ Load(h, "delete", u, r, {}, FALSE, NoUrl)

Unknown(x) == \A r \in There : url[r] # x

\* import_recipe_from_url looks for the URL, and then scrapes.
LoadImport(h, r, x) ==
  h \in Importers /\ Unknown(x) /\ Load(h, "import", NoUser, r, {}, FALSE, x)

-----------------------------------------------------------------------------
(* Committing.                                                             *)

\* Once it has committed, h persists the recipe or ends.
Proceed(h) ==
  req' = [req EXCEPT ![h] =
            IF req[h].keep
            THEN [req[h] EXCEPT !.op = "persist", !.seen = NoRelation, !.marks = {}, !.count = 0]
            ELSE Idle]

\* The marks that h changes are written, the others stay; the row that h has not
\* found must still be missing, the one it has found must be there.
CommitMark(h) ==
  LET g == req[h]
  IN  /\ g.op = "mark" /\ g.recipe \in There
      /\ g.seen.there = relation[g.user][g.recipe].there
      /\ relation' = [relation EXCEPT ![g.user][g.recipe] =
           [there |-> TRUE,
            marks |-> (@.marks \ (g.seen.marks \ g.marks)) \cup (g.marks \ g.seen.marks)]]
      /\ Proceed(h)
      /\ UNCHANGED <<up, recipe, held, cooks, missed>>

CommitUnrate(h) ==
  LET g == req[h]
  IN  /\ g.op = "unrate"
      /\ relation' = [relation EXCEPT ![g.user][g.recipe] = NoRelation]
      /\ Proceed(h)
      /\ UNCHANGED <<up, recipe, held, cooks, missed>>

\* Mutant: the count runs backwards.
CountedDown(n) == n - 1

\* Mutant: a cook event, and no count.
CountedNot(n) == n

Counted(n) == n + 1

\* The event is inserted, the count written from what was read.
CommitCook(h) ==
  LET g == req[h]  r == g.recipe
  IN  /\ g.op = "cook" /\ r \in There /\ events[r] < MaxCooks
      /\ cooked' = [cooked EXCEPT ![r] = Counted(g.count)]
      /\ events' = [events EXCEPT ![r] = @ + 1]
      /\ lost' = IF g.count # cooked[r] THEN lost \cup {r} ELSE lost
      /\ Proceed(h)
      /\ UNCHANGED <<up, recipe, held, relation, missed>>

\* trigger_persistence; from then on nothing is missed.
Persist(h) ==
  LET r == req[h].recipe
  IN  /\ req[h].op = "persist" /\ r \in There
      /\ kept' = [kept EXCEPT ![r] = TRUE]
      /\ missed' = missed \ {r}
      /\ req' = [req EXCEPT ![h] = Idle]
      /\ UNCHANGED <<up, state, owner, url, old, held, relation, cooks>>

\* Mutant: whoever still holds the recipe loses it.
DeletableAlways(r) == TRUE

\* The ORM takes the recipe from the rows that refer to it, which but for prepared
\* foods their columns do not allow; the database does the rest.
Deletable(r) == held[r] \subseteq {"prepared"} /\ \A u \in Users : ~relation[u][r].there

Remove(S) ==
  /\ state' = [r \in Recipes |-> IF r \in S THEN "gone" ELSE state[r]]
  /\ held'  = [r \in Recipes |-> IF r \in S THEN {} ELSE held[r]]
  /\ relation' = [u \in Users |-> [r \in Recipes |-> IF r \in S THEN NoRelation ELSE relation[u][r]]]
  /\ cooked' = [r \in Recipes |-> IF r \in S THEN 0 ELSE cooked[r]]
  /\ events' = [r \in Recipes |-> IF r \in S THEN 0 ELSE events[r]]
  /\ UNCHANGED <<owner, url, kept, old, lost>>

CommitDelete(h) ==
  LET g == req[h]
  IN  /\ g.op = "delete" /\ g.recipe \in There /\ Deletable(g.recipe)
      /\ Remove({g.recipe})
      /\ Proceed(h)
      /\ UNCHANGED <<up, missed>>

\* No constraint keeps two recipes from having one URL.
CommitImport(h) ==
  LET g == req[h]
  IN  /\ g.op = "import"
      /\ \E rows \in {{}, {"ingredient"}} :
           rows \subseteq Referrers /\ Insert(g.recipe, NoUser, g.url, FALSE, rows)
      /\ Proceed(h)

\* The recipes that a member has engaged with, and that the prune may take.
Unkept(S) == {r \in S \cap There : ~kept[r]}

\* The commit raises; if it was the second, that is only logged.
Abort(h) ==
  /\ req[h] # Idle
  /\ req' = [req EXCEPT ![h] = Idle]
  /\ missed' = IF req[h].op = "persist" THEN missed \cup Unkept({req[h].recipe}) ELSE missed
  /\ UNCHANGED <<up, recipe, held, relation, cooks>>

-----------------------------------------------------------------------------
(* Ending and starting.                                                    *)

Pending == {req[h].recipe : h \in {g \in Requests : req[g] # Idle /\ req[g].op = "persist"}}

\* The process ends, in the midst of whatever its handlers do.
Crash ==
  /\ up
  /\ up' = FALSE
  /\ req' = [h \in Requests |-> Idle]
  /\ missed' = missed \cup Unkept(Pending)
  /\ UNCHANGED <<recipe, held, relation, cooks>>

\* Mutant: age alone decides.
ExpiredByAge == {r \in There : old[r]}

Expired == {r \in There : old[r] /\ ~kept[r]}

\* prune_unpersisted_recipes: one transaction, which fails if one of the recipes
\* is held by anything but menus, whose entries the database deletes; the
\* application starts all the same.
Prune ==
  /\ ~up
  /\ up' = TRUE
  /\ IF \A r \in Expired : held[r] \subseteq {"menu"}
     THEN Remove(Expired)
     ELSE UNCHANGED <<recipe, held, relation, cooks>>
  /\ UNCHANGED <<req, missed>>

Begin(h) ==
  \E r \in Recipes :
    \/ \E u \in Users :
         \/ \E mark \in Marks : LoadMark(h, u, r, mark) \/ LoadUnmark(h, u, r, mark)
         \/ \E marks \in SUBSET Marks : LoadRate(h, u, r, marks)
         \/ LoadUnrate(h, u, r)
         \/ LoadCook(h, u, r)
         \/ LoadDelete(h, u, r)
    \/ \E x \in Urls : LoadImport(h, r, x)

End(h) ==
  \/ CommitMark(h)
  \/ CommitUnrate(h)
  \/ CommitCook(h)
  \/ Persist(h)
  \/ CommitDelete(h)
  \/ CommitImport(h)
  \/ Abort(h)

Edit(r) ==
  \/ \E u \in Users, x \in Urls \cup {NoUrl} : CreateRecipe(u, r, x)
  \/ \E x \in Urls \cup {NoUrl} : UpdateRecipe(r, x)
  \/ \E rows \in SUBSET {"ingredient"} : EditIngredients(r, rows)
  \/ \E rows \in SUBSET (Referrers \ {"ingredient"}) : Refer(r, rows)
  \/ Age(r)

Next ==
  \/ \E r \in Recipes : Edit(r)
  \/ \E h \in Requests : Begin(h) \/ End(h)
  \/ Crash
  \/ Prune

Spec == Init /\ [][Next]_vars

-----------------------------------------------------------------------------
(* Properties.                                                             *)

TypeOK ==
  /\ up \in BOOLEAN
  /\ state \in [Recipes -> {"absent", "there", "gone"}]
  /\ owner \in [Recipes -> Users \cup {NoUser}]
  /\ url \in [Recipes -> Urls \cup {NoUrl}]
  /\ kept \in [Recipes -> BOOLEAN]
  /\ old \in [Recipes -> BOOLEAN]
  /\ held \in [Recipes -> SUBSET Referrers]
  /\ relation \in [Users -> [Recipes -> Relations]]
  /\ cooked \in [Recipes -> Nat]
  /\ events \in [Recipes -> Nat]
  /\ req \in [Requests -> Handlers \cup {Idle}]
  /\ missed \in SUBSET Recipes
  /\ lost \in SUBSET Recipes

\* A recipe that a member has bookmarked, liked or cooked is persisted, or about
\* to be by a handler that is between its commits, or the second of an
\* engagement's two commits has failed and none has succeeded since.
EngagedIsKept ==
  \A r \in There :
    (\E u \in Users : relation[u][r].marks # {}) \/ events[r] > 0 =>
      kept[r] \/ r \in Pending \/ r \in missed

\* A mark vanishes by a request of the member who made it, or in the prune of a
\* recipe whose second commit has never come: not by another's request, not with
\* the deletion of the recipe by its owner, nor with its age.
MarksOutlive ==
  [][\A u \in Users, r \in Recipes :
       relation[u][r].marks \ relation'[u][r].marks # {} =>
         \/ ~up /\ r \in missed
         \/ \E h \in Requests :
              /\ req[h] # Idle /\ req'[h] # req[h]
              /\ req[h].op \in {"mark", "unrate"}
              /\ req[h].user = u /\ req[h].recipe = r]_vars

\* times_cooked is the number of cook events, and short of it only where two
\* members have cooked at the same time.
CooksAreCounted ==
  \A r \in There :
    /\ cooked[r] <= events[r]
    /\ r \notin lost => cooked[r] = events[r]

\* Do no two members cook one recipe at the same time?
CooksApart ==
  \A h, k \in Requests :
    req[h].op = "cook" /\ req[k].op = "cook" /\ req[h].recipe = req[k].recipe => h = k

\* Then every cook counts on from what there is.
CooksSee ==
  \A h \in Requests : req[h].op = "cook" /\ req[h].recipe \in There =>
    req[h].count = cooked[req[h].recipe]

NoCookLost == lost = {} /\ CooksSee

\* Of one URL there are at no time more imported recipes than imports can overlap:
\* what has been imported, and is still there, is not imported again.
Imported(x) == {r \in There : owner[r] = NoUser /\ url[r] = x}

ImportsPerOverlap == \A x \in Urls : Cardinality(Imported(x)) <= Cardinality(Importers)

\* Behind it, each importer counts once: for the recipe it has made of a URL or is
\* about to make.
Importing(x) == {h \in Requests : req[h].op = "import" /\ req[h].url = x}

OnlyImporters == \A h \in Requests : req[h].op = "import" => h \in Importers

ImportedOrImporting ==
  /\ OnlyImporters
  /\ \A x \in Urls :
       /\ IsFiniteSet(Imported(x))
       /\ Cardinality(Imported(x)) + Cardinality(Importing(x)) <= Cardinality(Importers)

\* A prune leaves no recipe in the cache that has had its time.
PruneClears ==
  [][~up /\ up' => \A r \in Recipes : state'[r] = "there" /\ old'[r] => kept'[r]]_vars
=============================================================================
