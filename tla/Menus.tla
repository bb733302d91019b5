-------------------------------- MODULE Menus --------------------------------
(***************************************************************************)
(* A member's menus (src/src/services/menu_service.py): recipes put in by  *)
(* hand or, when a menu is generated, by the menu's filter rules, with     *)
(* flags that say where the member has overruled the rules.                *)
(*                                                                         *)
(* What rules look at in a recipe (a tag, where it comes from, whether it  *)
(* cooks in some time) is a tag here.  Names, images, the order and who    *)
(* made a menu do not matter to anything else and are left out.            *)
(*                                                                         *)
(* A recipe that nothing refers to can be deleted (delete_recipe of        *)
(* src/src/routers/recipes.py); none comes back.  What else may refer to   *)
(* it, and makes that fail, are ingredients, plans and grocery items; the  *)
(* prune at the start, before any request, is in Cookbook.                 *)
(***************************************************************************)
EXTENDS Integers, FiniteSets

CONSTANTS Menus, NoMenu, Recipes, Tags,
          Users, NoUser,
          Filters, NoRules,  \* the filter_rules that clients send; None
          Requests,          \* the threads of the pool
          MinSaves, MaxMenus \* what clients ask the generation for

Rule == [tag : Tags, contains : BOOLEAN]

FilterRules == [all : BOOLEAN, rules : SUBSET Rule]

ASSUME MenusAssumption ==
  /\ NoUser \notin Users
  /\ NoMenu \notin Menus
  /\ Filters \subseteq FilterRules
  /\ NoRules \notin FilterRules
  /\ MinSaves \in Nat \ {0}
  /\ MaxMenus \in Nat

VARIABLES
  owner,    \* user_id; NoUser of a menu that is not there
  rules,    \* filter_rules
  entry,    \* the rows of MenuRecipe
  stored,   \* the rows of Recipe
  tags,     \* of the recipes
  relation, \* members' rows of UserRecipeRelation
  req       \* the handlers

vars == <<owner, rules, entry, stored, tags, relation, req>>

\* Not there, there, or there with manually_removed; manually_added.
Entries == [at : {"absent", "shown", "hidden"}, added : BOOLEAN]

NoEntry == [at |-> "absent", added |-> FALSE]

\* "saved" is bookmarked, or rated 4 at least
Relations == {"none", "related", "saved"}

Idle == [op |-> "none"]

\* A handler at work: the recipes that it was given or has found, and how it will
\* add them; the tags it has still to make menus for; whether another handler has
\* since written to its menu, or deleted one of its recipes, or, of the recipe
\* that it is to delete itself, written a relation.
Handlers ==
  [op : {"add", "restore", "flag", "drop", "rules", "delete", "make", "made", "fill", "remove"},
   user : Users, menu : Menus \cup {NoMenu}, recipes : SUBSET Recipes,
   added : BOOLEAN, rules : FilterRules \cup {NoRules},
   todo : SUBSET Tags, stale : BOOLEAN]

There   == {m \in Menus : owner[m] # NoUser}
Working == {h \in Requests : req[h] # Idle}

In(m) == {r \in Recipes : entry[m][r].at # "absent"}

Init ==
  /\ owner = [m \in Menus |-> NoUser]
  /\ rules = [m \in Menus |-> NoRules]
  /\ entry = [m \in Menus |-> [r \in Recipes |-> NoEntry]]
  /\ stored = Recipes
  /\ tags \in [Recipes -> SUBSET Tags]
  /\ relation = [u \in Users |-> [r \in Recipes |-> "none"]]
  /\ req = [h \in Requests |-> Idle]

-----------------------------------------------------------------------------
(* Filter rules.                                                           *)

\* _evaluate_single_rule
Holds(rule, ts) == rule.tag \in ts <=> rule.contains

\* evaluate_filter_rules
Matches(r, f) ==
  \/ f.rules = {}
  \/ IF f.all THEN \A rule \in f.rules : Holds(rule, tags[r])
              ELSE \E rule \in f.rules : Holds(rule, tags[r])

\* Do the rules of menu m, if it has any, ask for r?
Selects(m, r) == rules[m] # NoRules /\ Matches(r, rules[m])

TagFilter(t) == [all |-> TRUE, rules |-> {[tag |-> t, contains |-> TRUE]}]

\* get_user_tag_patterns: any relation counts
Count(u, t) == Cardinality({r \in Recipes : relation[u][r] # "none" /\ t \in tags[r]})

Patterns(u) == {t \in Tags : Count(u, t) >= MinSaves}

-----------------------------------------------------------------------------
(* Reading.  get_menu_by_id finds a member's own menus only.               *)

Owned(u, m) == m \in There /\ owner[m] = u

Load(h, op, u, m, R, added, f, todo) ==
  /\ req[h] = Idle
  /\ req' = [req EXCEPT ![h] =
       [op |-> op, user |-> u, menu |-> m, recipes |-> R, added |-> added,
        rules |-> f, todo |-> todo, stale |-> FALSE]]
  /\ UNCHANGED <<owner, rules, entry, stored, tags, relation>>

\* Mutant: a recipe that was taken out is put in like a new one.
AddableIfHidden(m, r) == entry[m][r].at # "shown"

Addable(m, r) == entry[m][r].at = "absent"

\* add_recipe_to_menu; a recipe that is shown is refused, or that is gone
LoadAdd(h, u, m, r) ==
  /\ Owned(u, m) /\ Addable(m, r) /\ r \in stored
  /\ Load(h, "add", u, m, {r}, ~Selects(m, r), NoRules, {})

LoadRestore(h, u, m, r) ==
  /\ Owned(u, m) /\ entry[m][r].at = "hidden"
  /\ Load(h, "restore", u, m, {r}, FALSE, NoRules, {})

\* remove_recipe_from_menu: what the rules ask for is flagged, so that they do
\* not bring it back; anything else is deleted.
LoadFlag(h, u, m, r) ==
  /\ Owned(u, m) /\ entry[m][r].at = "shown" /\ Selects(m, r)
  /\ Load(h, "flag", u, m, {r}, FALSE, NoRules, {})

LoadDrop(h, u, m, r) ==
  /\ Owned(u, m) /\ entry[m][r].at # "absent" /\ ~Selects(m, r)
  /\ Load(h, "drop", u, m, {r}, FALSE, NoRules, {})

\* update_menu can set rules and replace them, never take them away.
LoadRules(h, u, m, f) ==
  Owned(u, m) /\ Load(h, "rules", u, m, {}, FALSE, f, {})

\* delete_menu deletes the entries that it has loaded.
LoadDelete(h, u, m) ==
  Owned(u, m) /\ Load(h, "delete", u, m, In(m), FALSE, NoRules, {})

\* generate_menus_from_patterns: the most frequent tags
LoadGenerate(h, u, todo) ==
  /\ todo # {} /\ todo \subseteq Patterns(u)
  /\ Cardinality(todo) <= MaxMenus
  /\ todo = Patterns(u) \/ Cardinality(todo) = MaxMenus
  /\ \A t \in todo, s \in Patterns(u) \ todo : Count(u, s) <= Count(u, t)
  /\ Load(h, "make", u, NoMenu, {}, FALSE, NoRules, todo)

\* delete_recipe, when the session prepares its commit: it cannot let go of the
\* relations and menu entries that it finds, and then fails.
LoadRemove(h, u, r) ==
  /\ r \in stored
  /\ \A m \in Menus : r \notin In(m)
  /\ \A v \in Users : relation[v][r] = "none"
  /\ Load(h, "remove", u, NoMenu, {r}, FALSE, NoRules, {})

-----------------------------------------------------------------------------
(* Committing.                                                             *)

OnMenu(m)   == {k \in Working : req[k].menu = m}
OnRecipe(r) == {k \in Working : r \in req[k].recipes}
Removing(r) == {k \in OnRecipe(r) : req[k].op = "remove"}

\* The handlers when those of K no longer know what they have read.
Disturbed(K) ==
  [k \in Requests |-> IF k \in K THEN [req[k] EXCEPT !.stale = TRUE] ELSE req[k]]

\* Handler h goes on as g; the others on its menu are stale.
Proceed(h, g) == req' = [Disturbed(OnMenu(req[h].menu)) EXCEPT ![h] = g]

\* Mutant: entries may be left without their menu.
EmptiedAlways(g) == TRUE

\* Are the entries that g deletes with the menu all that it has?
Emptied(g) == In(g.menu) \subseteq g.recipes

\* Mutant: what is in a menu already is written over.
InsertableTwice(g) == g.recipes # {} => g.menu \in There /\ g.recipes \subseteq stored

\* No row may be inserted twice, nor for a menu or a recipe that is gone.
Insertable(g) == g.recipes # {} => g.menu \in There /\ g.recipes \subseteq stored \ In(g.menu)

\* Can g's commit satisfy the constraints?  A row to update must be there; a menu
\* that has entries cannot go, nor a recipe that a member has a relation to.
Committable(g) ==
  CASE g.op \in {"add", "fill"}     -> Insertable(g)
    [] g.op \in {"restore", "flag"} -> g.recipes \subseteq In(g.menu)
    [] g.op = "rules"  -> g.menu \in There
    [] g.op = "delete" -> Emptied(g)
    [] g.op = "remove" -> \A u \in Users, r \in g.recipes : relation[u][r] = "none"
    [] OTHER           -> TRUE

\* The entries that g writes.
Written(g) ==
  LET e == entry[g.menu]
      New(r) == CASE g.op \in {"add", "fill"} -> [at |-> "shown", added |-> g.added]
                  [] g.op = "restore" -> [e[r] EXCEPT !.at = "shown"]
                  [] g.op = "flag"    -> [e[r] EXCEPT !.at = "hidden"]
                  [] OTHER            -> NoEntry
  IN  [entry EXCEPT ![g.menu] = [r \in Recipes |-> IF r \in g.recipes THEN New(r) ELSE e[r]]]

CommitEntry(h) ==
  LET g == req[h]
  IN  /\ g.op \in {"add", "restore", "flag", "drop"} /\ Committable(g)
      /\ entry' = Written(g)
      /\ Proceed(h, Idle)
      /\ UNCHANGED <<owner, rules, stored, tags, relation>>

CommitRules(h) ==
  LET g == req[h]
  IN  /\ g.op = "rules" /\ Committable(g)
      /\ rules' = [rules EXCEPT ![g.menu] = g.rules]
      /\ Proceed(h, Idle)
      /\ UNCHANGED <<owner, entry, stored, tags, relation>>

CommitDelete(h) ==
  LET g == req[h]  m == g.menu
  IN  /\ g.op = "delete" /\ Committable(g)
      /\ owner' = [owner EXCEPT ![m] = NoUser]
      /\ rules' = [rules EXCEPT ![m] = NoRules]
      /\ entry' = Written(g)
      /\ Proceed(h, Idle)
      /\ UNCHANGED <<stored, tags, relation>>

Insert(m, u, f) ==
  /\ m \notin There
  /\ owner' = [owner EXCEPT ![m] = u]
  /\ rules' = [rules EXCEPT ![m] = f]
  /\ UNCHANGED <<entry, stored, tags, relation>>

\* create_menu for a client
CreateMenu(u, m, f) ==
  /\ \A h \in Working : req[h].menu # m
  /\ Insert(m, u, f)
  /\ UNCHANGED req

\* create_menu for the generation, whose menu others see from now on
CommitMake(h, m, t) ==
  LET g == req[h]
  IN  /\ g.op = "make" /\ t \in g.todo
      /\ \A k \in Working \ {h} : req[k].menu # m
      /\ Insert(m, g.user, TagFilter(t))
      /\ req' = [req EXCEPT ![h] = [g EXCEPT !.op = "made", !.menu = m,
                                             !.rules = TagFilter(t), !.todo = @ \ {t}]]

\* Mutant: what is in the menu already is not skipped.
MissingOrNot(u, m, f) == {r \in Recipes : relation[u][r] = "saved" /\ Matches(r, f)}

\* The saved recipes that rules f ask for and the menu does not have.
Missing(u, m, f) ==
  {r \in Recipes \ In(m) : relation[u][r] = "saved" /\ Matches(r, f)}

\* _populate_menu_from_filter reads ...
LoadFill(h) ==
  LET g == req[h]
  IN  /\ g.op = "made"
      /\ req' = [req EXCEPT ![h] = [g EXCEPT !.op = "fill", !.stale = g.menu \notin There,
                                             !.recipes = Missing(g.user, g.menu, g.rules)]]
      /\ UNCHANGED <<owner, rules, entry, stored, tags, relation>>

\* ... and commits; then comes the next menu.
CommitFill(h) ==
  LET g == req[h]
  IN  /\ g.op = "fill" /\ Committable(g)
      /\ entry' = Written(g)
      /\ Proceed(h, IF g.todo = {} THEN Idle
                    ELSE [g EXCEPT !.op = "make", !.recipes = {}, !.menu = NoMenu, !.rules = NoRules, !.stale = FALSE])
      /\ UNCHANGED <<owner, rules, stored, tags, relation>>

\* delete_recipe commits; the database deletes the menu entries that have come
\* since the session looked (ON DELETE CASCADE).
CommitRemove(h, r) ==
  /\ req[h].op = "remove" /\ r \in req[h].recipes /\ Committable(req[h])
  /\ stored' = stored \ {r}
  /\ entry' = [m \in Menus |-> [entry[m] EXCEPT ![r] = NoEntry]]
  /\ req' = [Disturbed(OnRecipe(r)) EXCEPT ![h] = Idle]
  /\ UNCHANGED <<owner, rules, tags, relation>>

\* The commit raises, or the process ends.
Abort(h) ==
  /\ h \in Working
  /\ req' = [req EXCEPT ![h] = Idle]
  /\ UNCHANGED <<owner, rules, entry, stored, tags, relation>>

-----------------------------------------------------------------------------
(* The recipes change, and what members think of them.                     *)

UpdateRecipe(r, ts) ==
  /\ r \in stored
  /\ tags' = [tags EXCEPT ![r] = ts]
  /\ UNCHANGED <<owner, rules, entry, stored, relation, req>>

Engage(u, r, how) ==
  /\ r \in stored
  /\ relation' = [relation EXCEPT ![u][r] = how]
  /\ req' = Disturbed(Removing(r))
  /\ UNCHANGED <<owner, rules, entry, stored, tags>>

Begin(h) ==
  \E u \in Users :
    \/ \E m \in Menus :
         \/ \E r \in Recipes :
              \/ LoadAdd(h, u, m, r)
              \/ LoadRestore(h, u, m, r)
              \/ LoadFlag(h, u, m, r)
              \/ LoadDrop(h, u, m, r)
         \/ \E f \in Filters : LoadRules(h, u, m, f)
         \/ LoadDelete(h, u, m)
    \/ \E todo \in SUBSET Tags : LoadGenerate(h, u, todo)
    \/ \E r \in Recipes : LoadRemove(h, u, r)

End(h) ==
  \/ CommitEntry(h)
  \/ CommitRules(h)
  \/ CommitDelete(h)
  \/ \E m \in Menus, t \in Tags : CommitMake(h, m, t)
  \/ LoadFill(h)
  \/ CommitFill(h)
  \/ \E r \in Recipes : CommitRemove(h, r)
  \/ Abort(h)

Next ==
  \/ \E h \in Requests : Begin(h) \/ End(h)
  \/ \E u \in Users, m \in Menus, f \in Filters \cup {NoRules} : CreateMenu(u, m, f)
  \/ \E r \in Recipes, ts \in SUBSET Tags : UpdateRecipe(r, ts)
  \/ \E u \in Users, r \in Recipes, how \in Relations : Engage(u, r, how)

Spec == Init /\ [][Next]_vars

-----------------------------------------------------------------------------
(* Properties.                                                             *)

TypeOK ==
  /\ owner \in [Menus -> Users \cup {NoUser}]
  /\ rules \in [Menus -> FilterRules \cup {NoRules}]
  /\ entry \in [Menus -> [Recipes -> Entries]]
  /\ \A m \in Menus \ There : In(m) = {}
  /\ stored \in SUBSET Recipes
  /\ \A m \in Menus : In(m) \subseteq stored
  /\ tags \in [Recipes -> SUBSET Tags]
  /\ relation \in [Users -> [Recipes -> Relations]]
  /\ \A u \in Users, r \in Recipes \ stored : relation[u][r] = "none"
  /\ req \in [Requests -> Handlers \cup {Idle}]

\* A request fails on a constraint only if, since it has read, another has
\* written to its menu or deleted one of its recipes (or, if it deletes a recipe,
\* made a relation to it): what a handler looks up before it writes is all that
\* it needs, in the midst of a generation too, whose menus are there before they
\* are filled.
UndisturbedCommits ==
  \A h \in Working : req[h].stale \/ Committable(req[h])

\* What a member has taken out of a menu and the rules ask for stays out, whatever
\* requests that have read the menu before, generations among them, still write:
\* only a request to put it in again shows it (_populate_menu_from_filter,
\* "respects manual overrides").
Restored(m, r) ==
  \E h \in Working : req[h].op = "restore" /\ req[h].menu = m /\ r \in req[h].recipes

FlagStands(m, r) ==
  entry[m][r].at = "hidden" /\ entry'[m][r].at = "shown" => Restored(m, r)

FlagsStand == [][\A m \in Menus, r \in Recipes : FlagStands(m, r)]_vars
=============================================================================
