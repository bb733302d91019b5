---------------------------- MODULE MenusProofs ----------------------------
(***************************************************************************)
(* What Menus promises for any menus, recipes, rules, members and threads. *)
(***************************************************************************)
EXTENDS Menus, TLAPS

Menuless == {"make", "remove"}

\* A handler that knows its menu, unless it has yet to make it or needs none, and
\* that commits if it is not disturbed.
Fine(g) ==
  /\ g.op \in Menuless \/ g.menu \in Menus
  /\ g.stale \/ Committable(g)

MenusInv == TypeOK /\ \A h \in Working : Fine(req[h])

LEMMA InitInvariants == Init => MenusInv
  <1> SUFFICES ASSUME Init PROVE MenusInv
    OBVIOUS
  <1>1. TypeOK
    BY DEF Init, TypeOK, Entries, NoEntry, Relations, In
  <1>2. Working = {}
    BY DEF Init, Working
  <1> QED
    BY <1>1, <1>2 DEF MenusInv

LEMMA HandlerShape ==
  ASSUME TypeOK, NEW h \in Requests
  PROVE  /\ req[h] # Idle => req[h] \in Handlers
         /\ req[h].op # "none" => req[h] \in Handlers /\ req[h] # Idle
         /\ req[h] = Idle => req[h].op = "none"
  BY DEF TypeOK, Idle

\* Loading finds all that the commit needs.
LEMMA Loading ==
  ASSUME TypeOK, NEW h \in Requests, Begin(h)
  PROVE  /\ req[h] = Idle
         /\ UNCHANGED <<owner, rules, entry, stored, tags, relation>>
         /\ \E g \in Handlers : req' = [req EXCEPT ![h] = g] /\ Committable(g)
                              /\ (g.op \in Menuless \/ g.menu \in Menus)
  <1> DEFINE Goal == /\ req[h] = Idle
                     /\ UNCHANGED <<owner, rules, entry, stored, tags, relation>>
                     /\ \E g \in Handlers : req' = [req EXCEPT ![h] = g] /\ Committable(g)
                                            /\ (g.op \in Menuless \/ g.menu \in Menus)
             Handler(op, u, m, R, added, f, todo) ==
               [op |-> op, user |-> u, menu |-> m, recipes |-> R, added |-> added,
                rules |-> f, todo |-> todo, stale |-> FALSE]
  <1>1. ASSUME NEW u \in Users, NEW m \in Menus, NEW r \in Recipes, LoadAdd(h, u, m, r) PROVE Goal
    <2> DEFINE g == Handler("add", u, m, {r}, ~Selects(m, r), NoRules, {})
    <2>1. m \in There /\ {r} \subseteq stored \ In(m)
      BY <1>1 DEF LoadAdd, Owned, Addable, In
    <2>2. g \in Handlers
      BY DEF Handlers, Selects
    <2>3. Committable(g)
      BY <2>1 DEF Committable, Insertable
    <2>4. req[h] = Idle /\ req' = [req EXCEPT ![h] = g] /\ UNCHANGED <<owner, rules, entry, stored, tags, relation>>
      BY <1>1 DEF LoadAdd, Load
    <2> QED
      BY <2>2, <2>3, <2>4
  <1>2. ASSUME NEW u \in Users, NEW m \in Menus, NEW r \in Recipes, LoadRestore(h, u, m, r) PROVE Goal
    <2> DEFINE g == Handler("restore", u, m, {r}, FALSE, NoRules, {})
    <2>1. {r} \subseteq In(m)
      BY <1>2 DEF LoadRestore, In
    <2>2. g \in Handlers
      BY DEF Handlers
    <2>3. Committable(g)
      BY <2>1 DEF Committable
    <2>4. req[h] = Idle /\ req' = [req EXCEPT ![h] = g] /\ UNCHANGED <<owner, rules, entry, stored, tags, relation>>
      BY <1>2 DEF LoadRestore, Load
    <2> QED
      BY <2>2, <2>3, <2>4
  <1>3. ASSUME NEW u \in Users, NEW m \in Menus, NEW r \in Recipes, LoadFlag(h, u, m, r) PROVE Goal
    <2> DEFINE g == Handler("flag", u, m, {r}, FALSE, NoRules, {})
    <2>1. {r} \subseteq In(m)
      BY <1>3 DEF LoadFlag, In
    <2>2. g \in Handlers
      BY DEF Handlers
    <2>3. Committable(g)
      BY <2>1 DEF Committable
    <2>4. req[h] = Idle /\ req' = [req EXCEPT ![h] = g] /\ UNCHANGED <<owner, rules, entry, stored, tags, relation>>
      BY <1>3 DEF LoadFlag, Load
    <2> QED
      BY <2>2, <2>3, <2>4
  <1>4. ASSUME NEW u \in Users, NEW m \in Menus, NEW r \in Recipes, LoadDrop(h, u, m, r) PROVE Goal
    <2> DEFINE g == Handler("drop", u, m, {r}, FALSE, NoRules, {})
    <2>2. g \in Handlers
      BY DEF Handlers
    <2>3. Committable(g)
      BY DEF Committable
    <2>4. req[h] = Idle /\ req' = [req EXCEPT ![h] = g] /\ UNCHANGED <<owner, rules, entry, stored, tags, relation>>
      BY <1>4 DEF LoadDrop, Load
    <2> QED
      BY <2>2, <2>3, <2>4
  <1>5. ASSUME NEW u \in Users, NEW m \in Menus, NEW f \in Filters, LoadRules(h, u, m, f) PROVE Goal
    <2> DEFINE g == Handler("rules", u, m, {}, FALSE, f, {})
    <2>1. f \in FilterRules /\ m \in There
      BY <1>5, MenusAssumption DEF LoadRules, Owned
    <2>2. g \in Handlers
      BY <2>1 DEF Handlers
    <2>3. Committable(g)
      BY <2>1 DEF Committable
    <2>4. req[h] = Idle /\ req' = [req EXCEPT ![h] = g] /\ UNCHANGED <<owner, rules, entry, stored, tags, relation>>
      BY <1>5 DEF LoadRules, Load
    <2> QED
      BY <2>2, <2>3, <2>4
  <1>6. ASSUME NEW u \in Users, NEW m \in Menus, LoadDelete(h, u, m) PROVE Goal
    <2> DEFINE g == Handler("delete", u, m, In(m), FALSE, NoRules, {})
    <2>2. g \in Handlers
      BY DEF Handlers, In
    <2>3. Committable(g)
      BY DEF Committable, Emptied
    <2>4. req[h] = Idle /\ req' = [req EXCEPT ![h] = g] /\ UNCHANGED <<owner, rules, entry, stored, tags, relation>>
      BY <1>6 DEF LoadDelete, Load
    <2> QED
      BY <2>2, <2>3, <2>4
  <1>7. ASSUME NEW u \in Users, NEW todo \in SUBSET Tags, LoadGenerate(h, u, todo) PROVE Goal
    <2> DEFINE g == Handler("make", u, NoMenu, {}, FALSE, NoRules, todo)
    <2>2. g \in Handlers
      BY DEF Handlers
    <2>3. Committable(g)
      BY DEF Committable
    <2>4. req[h] = Idle /\ req' = [req EXCEPT ![h] = g] /\ UNCHANGED <<owner, rules, entry, stored, tags, relation>>
      BY <1>7 DEF LoadGenerate, Load
    <2> QED
      BY <2>2, <2>3, <2>4 DEF Menuless
  <1>8. ASSUME NEW u \in Users, NEW r \in Recipes, LoadRemove(h, u, r) PROVE Goal
    <2> DEFINE g == Handler("remove", u, NoMenu, {r}, FALSE, NoRules, {})
    <2>2. g \in Handlers
      BY DEF Handlers
    <2>3. Committable(g)
      BY <1>8 DEF LoadRemove, Committable
    <2>4. req[h] = Idle /\ req' = [req EXCEPT ![h] = g] /\ UNCHANGED <<owner, rules, entry, stored, tags, relation>>
      BY <1>8 DEF LoadRemove, Load
    <2> QED
      BY <2>2, <2>3, <2>4 DEF Menuless
  <1> QED
    BY <1>1, <1>2, <1>3, <1>4, <1>5, <1>6, <1>7, <1>8 DEF Begin

\* Whether a handler can commit depends on its own menu and recipes only.
LEMMA StaysFine ==
  ASSUME NEW g \in Handlers, Fine(g),
         g.menu \in Menus => /\ g.menu \in There => g.menu \in There'
                             /\ In(g.menu)' \subseteq In(g.menu)
                             /\ g.recipes \cap In(g.menu) \subseteq In(g.menu)',
         g.recipes \cap stored \subseteq stored',
         g.op = "remove" =>
           \A u \in Users, r \in g.recipes : relation'[u][r] = relation[u][r]
  PROVE  Fine(g)'
  <1>1. g.op \in Menuless \/ g.menu \in Menus
    BY DEF Fine
  <1>2. CASE g.op = "remove"
    BY <1>2 DEF Fine, Committable, Menuless
  <1>3. CASE g.op # "remove" /\ g.menu \in Menus
    BY <1>3 DEF Fine, Committable, Insertable, Emptied
  <1>4. CASE g.op = "make"
    BY <1>4 DEF Fine, Committable, Menuless
  <1> QED
    BY <1>1, <1>2, <1>3, <1>4 DEF Menuless

\* The handlers, when some of them are disturbed.
LEMMA Disturbing ==
  ASSUME TypeOK, NEW K, K \subseteq Working
  PROVE  /\ Disturbed(K) \in [Requests -> Handlers \cup {Idle}]
         /\ \A k \in Requests \ K : Disturbed(K)[k] = req[k]
         /\ \A k \in K : /\ Disturbed(K)[k].stale
                         /\ Disturbed(K)[k].op = req[k].op
                         /\ Disturbed(K)[k].menu = req[k].menu
  <1>1. \A k \in K : LET g == [req[k] EXCEPT !.stale = TRUE]
                     IN  g \in Handlers /\ g.stale /\ g.op = req[k].op /\ g.menu = req[k].menu
    BY HandlerShape, ZenonT(60) DEF Working, Handlers
  <1>2. K \subseteq Requests
    BY DEF Working
  <1> QED
    BY <1>1, <1>2 DEF Disturbed, TypeOK

LEMMA Changing ==
  ASSUME TypeOK, NEW K, K \subseteq Working, NEW h \in Requests, NEW g \in Handlers \cup {Idle},
         req' = [Disturbed(K) EXCEPT ![h] = g]
  PROVE  /\ req' \in [Requests -> Handlers \cup {Idle}]
         /\ req'[h] = g
         /\ \A k \in Requests \ {h} :
              \/ req'[k] = req[k] /\ k \notin K
              \/ /\ k \in Working /\ req'[k].stale
                 /\ req'[k].op = req[k].op /\ req'[k].menu = req[k].menu
  <1> DEFINE d == Disturbed(K)
  <1>1. /\ d \in [Requests -> Handlers \cup {Idle}]
        /\ \A k \in Requests \ K : d[k] = req[k]
        /\ \A k \in K : d[k].stale /\ d[k].op = req[k].op /\ d[k].menu = req[k].menu
    BY Disturbing
  <1>2. req' = [d EXCEPT ![h] = g]
    OBVIOUS
  <1> HIDE DEF d
  <1> QED
    BY <1>1, <1>2

LEMMA Proceeding ==
  ASSUME TypeOK, NEW h \in Requests, NEW g \in Handlers \cup {Idle}, Proceed(h, g)
  PROVE  /\ req' \in [Requests -> Handlers \cup {Idle}]
         /\ req'[h] = g
         /\ \A k \in Requests \ {h} :
              \/ req'[k] = req[k] /\ (k \in Working => req[k].menu # req[h].menu)
              \/ /\ k \in Working /\ req'[k].stale
                 /\ req'[k].op = req[k].op /\ req'[k].menu = req[k].menu
  <1>1. OnMenu(req[h].menu) \subseteq Working
    BY DEF OnMenu
  <1>2. \A k \in Working : k \notin OnMenu(req[h].menu) => req[k].menu # req[h].menu
    BY DEF OnMenu
  <1> QED
    BY <1>1, <1>2, Changing DEF Proceed

\* A handler writes entries, those of its recipes in its menu.
LEMMA Writing ==
  ASSUME TypeOK, NEW g \in Handlers, entry' = Written(g)
  PROVE  /\ entry' \in [Menus -> [Recipes -> Entries]]
         /\ \A m \in Menus : m # g.menu => entry'[m] = entry[m]
         /\ \A m \in Menus, r \in Recipes \ g.recipes : entry'[m][r] = entry[m][r]
         /\ g.op \in {"drop", "delete"} /\ g.menu \in Menus =>
              \A r \in g.recipes : entry'[g.menu][r].at = "absent"
  <1> DEFINE e == entry[g.menu]
             New(r) == CASE g.op \in {"add", "fill"} -> [at |-> "shown", added |-> g.added]
                         [] g.op = "restore" -> [e[r] EXCEPT !.at = "shown"]
                         [] g.op = "flag"    -> [e[r] EXCEPT !.at = "hidden"]
                         [] OTHER            -> NoEntry
             row == [r \in Recipes |-> IF r \in g.recipes THEN New(r) ELSE e[r]]
  <1>1. entry' = [entry EXCEPT ![g.menu] = row] /\ g.recipes \subseteq Recipes /\ g.added \in BOOLEAN
    BY DEF Written, Handlers
  <1>2. CASE g.menu \in Menus
    <2>1. \A r \in Recipes : e[r] \in Entries
      BY <1>2 DEF TypeOK
    <2>2. \A r \in Recipes : New(r) \in Entries
      BY <1>1, <2>1 DEF Entries, NoEntry
    <2>3. g.op \in {"drop", "delete"} => \A r \in Recipes : New(r).at = "absent"
      BY DEF NoEntry
    <2> HIDE DEF New
    <2>4. row \in [Recipes -> Entries]
      BY <2>1, <2>2
    <2>5. /\ \A r \in Recipes \ g.recipes : row[r] = e[r]
          /\ g.op \in {"drop", "delete"} => \A r \in g.recipes : row[r].at = "absent"
      BY <1>1, <2>3
    <2> HIDE DEF row
    <2> QED
      BY <1>1, <1>2, <2>4, <2>5 DEF TypeOK
  <1>3. CASE g.menu \notin Menus
    <2> HIDE DEF row
    <2> QED
      BY <1>1, <1>3 DEF TypeOK
  <1> QED
    BY <1>2, <1>3

\* No entry is left or made in a menu that is not there.
LEMMA EntriesHaveMenus ==
  ASSUME TypeOK, NEW g \in Handlers, Committable(g), entry' = Written(g),
         \/ g.op \in {"add", "restore", "flag", "drop", "fill"} /\ owner' = owner
         \/ g.op = "delete" /\ owner' = [owner EXCEPT ![g.menu] = NoUser]
  PROVE  \A m \in Menus, r \in Recipes : owner'[m] = NoUser => entry'[m][r].at = "absent"
  <1> SUFFICES ASSUME NEW m \in Menus, NEW r \in Recipes, owner'[m] = NoUser PROVE entry'[m][r].at = "absent"
    OBVIOUS
  <1>1. \A r1 \in Recipes : m \notin There => entry[m][r1].at = "absent"
    BY DEF TypeOK, In
  <1>2. CASE m \notin There /\ (r \notin g.recipes \/ m # g.menu)
    BY <1>1, <1>2, Writing
  <1>3. CASE m \notin There /\ r \in g.recipes /\ m = g.menu
    <2>1. r \notin In(g.menu) /\ g.recipes # {} /\ g.menu \notin There
      BY <1>1, <1>3 DEF In
    <2>2. g.op \notin {"add", "fill", "restore", "flag"}
      BY <1>3, <2>1 DEF Committable, Insertable
    <2> QED
      BY <1>3, <2>2, Writing
  <1>4. CASE m \in There
    <2>1. m = g.menu /\ g.op = "delete"
      BY <1>4 DEF There, TypeOK
    <2>2. In(m) \subseteq g.recipes
      BY <2>1 DEF Committable, Emptied
    <2>3. r \notin g.recipes => entry[m][r].at = "absent"
      BY <2>2 DEF In
    <2> QED
      BY <2>1, <2>3, Writing
  <1> QED
    BY <1>2, <1>3, <1>4

\* Nor of a recipe that is not there.
LEMMA EntriesHaveRecipes ==
  ASSUME TypeOK, NEW g \in Handlers, Committable(g), entry' = Written(g), stored' = stored,
         g.op \in {"add", "restore", "flag", "drop", "fill", "delete"}
  PROVE  \A m \in Menus, r \in Recipes : entry'[m][r].at # "absent" => r \in stored'
  <1> SUFFICES ASSUME NEW m \in Menus, NEW r \in Recipes, entry'[m][r].at # "absent"
               PROVE  r \in stored
    OBVIOUS
  <1>1. entry[m][r].at # "absent" => r \in stored
    BY DEF TypeOK, In
  <1>2. CASE r \notin g.recipes \/ m # g.menu
    BY <1>1, <1>2, Writing
  <1>3. CASE r \in g.recipes /\ m = g.menu
    <2>1. g.op \notin {"drop", "delete"}
      BY <1>3, Writing
    <2>2. CASE g.op \in {"add", "fill"}
      BY <1>3, <2>2 DEF Committable, Insertable
    <2>3. CASE g.op \in {"restore", "flag"}
      BY <1>1, <1>3, <2>3 DEF Committable, In
    <2> QED
      BY <2>1, <2>2, <2>3
  <1> QED
    BY <1>2, <1>3

LEMMA TypeStep == TypeOK /\ [Next]_vars => TypeOK'
  <1> SUFFICES ASSUME TypeOK, [Next]_vars PROVE TypeOK'
    OBVIOUS
  <1>1. ASSUME NEW h \in Requests, Begin(h) PROVE TypeOK'
    <2>1. PICK g \in Handlers : req' = [req EXCEPT ![h] = g]
      BY <1>1, Loading DEF Handlers
    <2>2. UNCHANGED <<owner, rules, entry, stored, tags, relation>>
      BY <1>1, Loading
    <2> QED
      BY <2>1, <2>2 DEF TypeOK, There, In
  <1>2. ASSUME NEW h \in Requests, CommitEntry(h) PROVE TypeOK'
    <2>1. req[h] \in Handlers
      BY <1>2, HandlerShape DEF CommitEntry
    <2>2. req' \in [Requests -> Handlers \cup {Idle}]
      BY <1>2, Proceeding DEF CommitEntry
    <2>3. /\ Committable(req[h]) /\ entry' = Written(req[h]) /\ owner' = owner
          /\ req[h].op \in {"add", "restore", "flag", "drop", "fill"}
      BY <1>2 DEF CommitEntry
    <2>4. entry' \in [Menus -> [Recipes -> Entries]]
      BY <2>1, <2>3, Writing
    <2>5. \A m \in Menus, r \in Recipes : owner'[m] = NoUser => entry'[m][r].at = "absent"
      BY <2>1, <2>3, EntriesHaveMenus
    <2>6. stored' = stored
      BY <1>2 DEF CommitEntry
    <2>7. \A m \in Menus, r \in Recipes : entry'[m][r].at # "absent" => r \in stored'
      BY <2>1, <2>3, <2>6, EntriesHaveRecipes
    <2> QED
      BY <1>2, <2>2, <2>4, <2>5, <2>7 DEF CommitEntry, TypeOK, There, In
  <1>3. ASSUME NEW h \in Requests, CommitRules(h) PROVE TypeOK'
    <2>1. req[h] \in Handlers /\ req[h].rules \in FilterRules \cup {NoRules}
      BY <1>3, HandlerShape DEF CommitRules, Handlers
    <2>2. req' \in [Requests -> Handlers \cup {Idle}]
      BY <1>3, Proceeding DEF CommitRules
    <2> QED
      BY <1>3, <2>1, <2>2, ZenonT(60) DEF CommitRules, TypeOK, There, In
  <1>4. ASSUME NEW h \in Requests, CommitDelete(h) PROVE TypeOK'
    <2>1. req[h] \in Handlers
      BY <1>4, HandlerShape DEF CommitDelete
    <2>2. req' \in [Requests -> Handlers \cup {Idle}]
      BY <1>4, Proceeding DEF CommitDelete
    <2>3. /\ entry' \in [Menus -> [Recipes -> Entries]]
          /\ \A m \in Menus, r \in Recipes : owner'[m] = NoUser => entry'[m][r].at = "absent"
      BY <1>4, <2>1, Writing, EntriesHaveMenus DEF CommitDelete
    <2>4. \A m \in Menus, r \in Recipes : entry'[m][r].at # "absent" => r \in stored'
      BY <1>4, <2>1, EntriesHaveRecipes DEF CommitDelete
    <2> QED
      BY <1>4, <2>2, <2>3, <2>4 DEF CommitDelete, TypeOK, There, In
  <1>5. ASSUME NEW m \in Menus, NEW u \in Users, NEW f \in FilterRules \cup {NoRules}, Insert(m, u, f),
               req' \in [Requests -> Handlers \cup {Idle}]
        PROVE  TypeOK'
    BY <1>5, MenusAssumption DEF Insert, TypeOK, There, In
  <1>6. ASSUME NEW u \in Users, NEW m \in Menus, NEW f \in Filters \cup {NoRules}, CreateMenu(u, m, f)
        PROVE  TypeOK'
    <2>1. f \in FilterRules \cup {NoRules}
      BY MenusAssumption
    <2> QED
      BY <1>5, <1>6, <2>1 DEF CreateMenu, TypeOK
  <1>7. ASSUME NEW t \in Tags PROVE TagFilter(t) \in FilterRules
    BY DEF TagFilter, FilterRules, Rule
  <1>8. ASSUME NEW h \in Requests, NEW m \in Menus, NEW t \in Tags, CommitMake(h, m, t) PROVE TypeOK'
    <2>1. req[h] \in Handlers
      BY <1>8, HandlerShape DEF CommitMake
    <2> DEFINE g == [req[h] EXCEPT !.op = "made", !.menu = m, !.rules = TagFilter(t), !.todo = @ \ {t}]
    <2>2. g \in Handlers /\ req[h].user \in Users
      BY <1>7, <2>1 DEF Handlers
    <2>3. Insert(m, req[h].user, TagFilter(t)) /\ req' = [req EXCEPT ![h] = g]
      BY <1>8 DEF CommitMake
    <2> HIDE DEF g
    <2>4. req' \in [Requests -> Handlers \cup {Idle}]
      BY <2>2, <2>3 DEF TypeOK
    <2> QED
      BY <1>5, <1>7, <2>2, <2>3, <2>4
  <1>9. ASSUME NEW h \in Requests, LoadFill(h) PROVE TypeOK'
    <2>1. req[h] \in Handlers
      BY <1>9, HandlerShape DEF LoadFill
    <2> DEFINE R == Missing(req[h].user, req[h].menu, req[h].rules)
               gone == req[h].menu \notin There
               g == [req[h] EXCEPT !.op = "fill", !.stale = gone, !.recipes = R]
    <2>2. R \subseteq Recipes /\ gone \in BOOLEAN
      BY DEF Missing
    <2>3. req' = [req EXCEPT ![h] = g] /\ UNCHANGED <<owner, rules, entry, stored, tags, relation>>
      BY <1>9 DEF LoadFill
    <2> HIDE DEF R, gone
    <2>4. g \in Handlers
      BY <2>1, <2>2 DEF Handlers
    <2> HIDE DEF g
    <2> QED
      BY <2>3, <2>4 DEF TypeOK, There, In
  <1>10. ASSUME NEW h \in Requests, CommitFill(h) PROVE TypeOK'
    <2>1. req[h] \in Handlers
      BY <1>10, HandlerShape DEF CommitFill
    <2> DEFINE g == IF req[h].todo = {} THEN Idle
                    ELSE [req[h] EXCEPT !.op = "make", !.recipes = {}, !.menu = NoMenu,
                                        !.rules = NoRules, !.stale = FALSE]
    <2>2. g \in Handlers \cup {Idle}
      BY <2>1 DEF Handlers
    <2>3. Proceed(h, g) /\ Committable(req[h]) /\ entry' = Written(req[h]) /\ req[h].op = "fill"
          /\ req[h].op \in {"add", "restore", "flag", "drop", "fill"}
          /\ UNCHANGED <<owner, rules, stored, tags, relation>>
      BY <1>10 DEF CommitFill
    <2> HIDE DEF g
    <2>4. req' \in [Requests -> Handlers \cup {Idle}]
      BY <2>2, <2>3, Proceeding
    <2>5. entry' \in [Menus -> [Recipes -> Entries]]
      BY <2>1, <2>3, Writing
    <2>6. \A m \in Menus, r \in Recipes : owner'[m] = NoUser => entry'[m][r].at = "absent"
      BY <2>1, <2>3, EntriesHaveMenus
    <2>7. \A m \in Menus, r \in Recipes : entry'[m][r].at # "absent" => r \in stored'
      BY <2>1, <2>3, EntriesHaveRecipes
    <2> QED
      BY <2>3, <2>4, <2>5, <2>6, <2>7 DEF TypeOK, There, In
  <1>11. ASSUME NEW h \in Requests, Abort(h) PROVE TypeOK'
    BY <1>11 DEF Abort, TypeOK, There, In
  <1>12. ASSUME NEW r \in Recipes, NEW ts \in SUBSET Tags, UpdateRecipe(r, ts) PROVE TypeOK'
    BY <1>12 DEF UpdateRecipe, TypeOK, There, In
  <1>13. ASSUME NEW u \in Users, NEW r \in Recipes, NEW how \in Relations, Engage(u, r, how) PROVE TypeOK'
    <2>1. Removing(r) \subseteq Working
      BY DEF Removing, OnRecipe
    <2>2. req' \in [Requests -> Handlers \cup {Idle}]
      BY <1>13, <2>1, Disturbing DEF Engage
    <2> QED
      BY <1>13, <2>2 DEF Engage, TypeOK, There, In
  <1>15. ASSUME NEW h \in Requests, NEW r \in Recipes, CommitRemove(h, r) PROVE TypeOK'
    <2>1. OnRecipe(r) \subseteq Working
      BY DEF OnRecipe
    <2>2. req' \in [Requests -> Handlers \cup {Idle}]
      BY <1>15, <2>1, Changing DEF CommitRemove
    <2>3. \A u \in Users : relation[u][r] = "none"
      BY <1>15 DEF CommitRemove, Committable
    <2>4. entry' \in [Menus -> [Recipes -> Entries]]
      BY <1>15 DEF CommitRemove, TypeOK, NoEntry, Entries
    <2>5. \A m \in Menus : In(m)' = In(m) \ {r}
      BY <1>15 DEF CommitRemove, TypeOK, In, NoEntry
    <2> QED
      BY <1>15, <2>2, <2>3, <2>4, <2>5 DEF CommitRemove, TypeOK, There
  <1>14. CASE UNCHANGED vars
    BY <1>14 DEF vars, TypeOK, There, In
  <1> QED
    BY <1>1, <1>2, <1>3, <1>4, <1>6, <1>8, <1>9, <1>10, <1>11, <1>12, <1>13, <1>14, <1>15 DEF Next, End

LEMMA FineCopied ==
  ASSUME NEW f, NEW k, req'[k] = f, Fine(f)'
  PROVE  Fine(req[k])'
  BY DEF Fine, Committable, Insertable, Emptied

\* A handler is as fine as before if nobody has touched its menu ...
LEMMA Untouched ==
  ASSUME MenusInv, NEW k \in Working', k \in Requests, req'[k] = req[k],
         req[k].menu \in Menus => /\ entry'[req[k].menu] = entry[req[k].menu]
                                  /\ owner'[req[k].menu] = owner[req[k].menu],
         stored' = stored,
         req[k].op = "remove" =>
           \A u \in Users, r \in req[k].recipes : relation'[u][r] = relation[u][r]
  PROVE  Fine(req[k])'
  <1>1. k \in Working /\ req[k] \in Handlers /\ Fine(req[k])
    BY HandlerShape DEF Working, MenusInv
  <1>2. PICK f : f = req[k]
    OBVIOUS
  <1>4. f \in Handlers /\ Fine(f) /\ f.recipes \cap stored \subseteq stored'
    BY <1>1, <1>2
  <1>5. f.op = "remove" => \A u \in Users, r \in f.recipes : relation'[u][r] = relation[u][r]
    BY <1>2
  <1>6. f.menu \in Menus => /\ f.menu \in There => f.menu \in There'
                            /\ In(f.menu)' \subseteq In(f.menu)
                            /\ f.recipes \cap In(f.menu) \subseteq In(f.menu)'
    BY <1>2 DEF In, There
  <1>3. Fine(f)'
    BY <1>4, <1>5, <1>6, StaysFine
  <1> QED
    BY <1>2, <1>3, FineCopied

\* ... or if a commit to that menu has made it stale.
LEMMA OthersFine ==
  ASSUME MenusInv, NEW h \in Working, NEW g \in Handlers \cup {Idle}, Proceed(h, g),
         \A m \in Menus : m # req[h].menu => entry'[m] = entry[m] /\ owner'[m] = owner[m],
         UNCHANGED <<stored, relation>>
  PROVE  \A k \in Working' \ {h} : Fine(req[k])'
  <1> SUFFICES ASSUME NEW k \in Working', k # h PROVE Fine(req[k])'
    OBVIOUS
  <1>1. TypeOK /\ k \in Requests /\ h \in Requests
    BY DEF MenusInv, Working
  <1>2. CASE req'[k] = req[k] /\ (k \in Working => req[k].menu # req[h].menu)
    <2>1. k \in Working
      BY <1>1, <1>2 DEF Working
    <2> QED
      BY <1>1, <1>2, <2>1, Untouched
  <1>3. CASE k \in Working /\ req'[k].stale /\ req'[k].op = req[k].op /\ req'[k].menu = req[k].menu
    BY <1>3 DEF MenusInv, Fine
  <1> QED
    BY <1>1, <1>2, <1>3, Proceeding

LEMMA FineStep == MenusInv /\ [Next]_vars => (\A h \in Working : Fine(req[h]))'
  <1> SUFFICES ASSUME MenusInv, [Next]_vars, NEW k \in Working' PROVE Fine(req[k])'
    OBVIOUS
  <1>0. TypeOK /\ k \in Requests
    BY DEF MenusInv, Working
  <1>1. ASSUME NEW h \in Requests, Begin(h) PROVE Fine(req[k])'
    <2>1. UNCHANGED <<owner, rules, entry, stored, tags, relation>>
      BY <1>0, <1>1, Loading
    <2>2. PICK g \in Handlers : /\ req' = [req EXCEPT ![h] = g] /\ Committable(g)
                               /\ (g.op \in Menuless \/ g.menu \in Menus)
      BY <1>0, <1>1, Loading
    <2>3. CASE k = h
      <3>1. Committable(g)'
        BY <2>1, <2>2 DEF Committable, Insertable, Emptied, In, There
      <3>2. req'[k] = g
        BY <1>0, <2>2, <2>3 DEF TypeOK
      <3> QED
        BY <2>2, <3>1, <3>2, FineCopied DEF Fine
    <2>4. CASE k # h
      BY <1>0, <2>1, <2>2, <2>4, Untouched DEF TypeOK
    <2> QED
      BY <2>3, <2>4
  <1>2. ASSUME NEW h \in Requests, NEW g \in Handlers \cup {Idle}, Proceed(h, g), req[h] # Idle,
               \A m \in Menus : m # req[h].menu => entry'[m] = entry[m] /\ owner'[m] = owner[m],
               UNCHANGED <<stored, relation>>,
               g \in Handlers => g.op = "make"
        PROVE  Fine(req[k])'
    <2>1. CASE k # h
      BY <1>2, <2>1, OthersFine DEF Working
    <2>2. CASE k = h
      <3>1. req'[k] = g
        BY <1>0, <1>2, <2>2, Proceeding
      <3> QED
        BY <1>2, <3>1 DEF Fine, Committable, Menuless, Working
    <2> QED
      BY <2>1, <2>2
  <1>3. ASSUME NEW h \in Requests, CommitEntry(h) PROVE Fine(req[k])'
    <2>1. req[h] \in Handlers /\ req[h] # Idle /\ Proceed(h, Idle) /\ owner' = owner /\ entry' = Written(req[h])
          /\ UNCHANGED <<stored, relation>>
      BY <1>0, <1>3, HandlerShape DEF CommitEntry
    <2>2. \A m \in Menus : m # req[h].menu => entry'[m] = entry[m] /\ owner'[m] = owner[m]
      BY <1>0, <2>1, Writing
    <2> QED
      BY <1>2, <2>1, <2>2 DEF Handlers, Idle
  <1>4. ASSUME NEW h \in Requests, CommitRules(h) PROVE Fine(req[k])'
    <2>1. req[h] # Idle /\ Proceed(h, Idle) /\ owner' = owner /\ entry' = entry
          /\ UNCHANGED <<stored, relation>>
      BY <1>0, <1>4, HandlerShape DEF CommitRules
    <2> QED
      BY <1>2, <2>1 DEF Handlers, Idle
  <1>5. ASSUME NEW h \in Requests, CommitDelete(h) PROVE Fine(req[k])'
    <2>1. req[h] \in Handlers /\ req[h] # Idle /\ Proceed(h, Idle) /\ entry' = Written(req[h])
          /\ owner' = [owner EXCEPT ![req[h].menu] = NoUser] /\ UNCHANGED <<stored, relation>>
      BY <1>0, <1>5, HandlerShape DEF CommitDelete
    <2>2. \A m \in Menus : m # req[h].menu => entry'[m] = entry[m] /\ owner'[m] = owner[m]
      BY <1>0, <2>1, Writing DEF TypeOK
    <2> QED
      BY <1>2, <2>1, <2>2 DEF Handlers, Idle
  <1>6. ASSUME NEW u \in Users, NEW m \in Menus, NEW f \in Filters \cup {NoRules}, CreateMenu(u, m, f)
        PROVE  Fine(req[k])'
    <2>1. k \in Working /\ req[k].menu # m /\ req' = req
      BY <1>6 DEF CreateMenu, Working
    <2>2. /\ \A n \in Menus \ {m} : entry'[n] = entry[n] /\ owner'[n] = owner[n]
          /\ UNCHANGED <<stored, relation>>
      BY <1>0, <1>6 DEF CreateMenu, Insert, TypeOK
    <2> QED
      BY <1>0, <2>1, <2>2, Untouched
  <1>7. ASSUME NEW h \in Requests, NEW m \in Menus, NEW t \in Tags, CommitMake(h, m, t) PROVE Fine(req[k])'
    <2>1. /\ \A n \in Menus \ {m} : entry'[n] = entry[n] /\ owner'[n] = owner[n]
          /\ UNCHANGED <<stored, relation>>
      BY <1>0, <1>7 DEF CommitMake, Insert, TypeOK
    <2>2. CASE k = h
      <3>1. req[h] \in Handlers
        BY <1>0, <1>7, HandlerShape DEF CommitMake
      <3>2. req'[k].op = "made" /\ req'[k].menu = m
        BY <1>0, <1>7, <2>2, <3>1 DEF CommitMake, TypeOK, Handlers
      <3> QED
        BY <3>2 DEF Fine, Committable, Menuless
    <2>3. CASE k # h
      <3>1. req'[k] = req[k] /\ k \in Working
        BY <1>0, <1>7, <2>3 DEF CommitMake, TypeOK, Working
      <3>2. req[k].menu # m
        BY <1>7, <2>3, <3>1 DEF CommitMake
      <3> QED
        BY <1>0, <2>1, <3>1, <3>2, Untouched
    <2> QED
      BY <2>2, <2>3
  <1>8. ASSUME NEW h \in Requests, LoadFill(h) PROVE Fine(req[k])'
    <2>1. UNCHANGED <<owner, entry, stored, relation>>
      BY <1>8 DEF LoadFill
    <2>2. CASE k = h
      <3>1. req[h] \in Handlers /\ req[h].op = "made" /\ Fine(req[h])
        BY <1>0, <1>8, HandlerShape DEF LoadFill, MenusInv, Working
      <3>2. req[h].menu \in Menus
        BY <3>1 DEF Fine, Menuless
      <3> DEFINE R == Missing(req[h].user, req[h].menu, req[h].rules)
                 gone == req[h].menu \notin There
      <3>3. R \cap In(req[h].menu) = {}
        BY DEF Missing
      <3>8. R \subseteq stored
        <4>1. req[h].user \in Users
          BY <3>1 DEF Handlers
        <4>2. \A r \in Recipes : relation[req[h].user][r] # "none" => r \in stored
          BY <1>0, <4>1 DEF TypeOK
        <4> QED
          BY <4>2 DEF Missing
      <3>4. req' = [req EXCEPT ![h] = [req[h] EXCEPT !.op = "fill", !.stale = gone, !.recipes = R]]
        BY <1>8 DEF LoadFill
      <3> HIDE DEF R, gone
      <3>5. /\ req'[k].op = "fill" /\ req'[k].stale = gone /\ req'[k].recipes = R
            /\ req'[k].menu = req[h].menu
        BY <1>0, <2>2, <3>1, <3>4 DEF TypeOK, Handlers
      <3>6. gone \/ req[h].menu \in There'
        BY <2>1 DEF gone, There
      <3>7. R \cap In(req[h].menu)' = {}
        <4>1. PICK m : m = req[h].menu
          OBVIOUS
        <4>2. R \cap In(m)' = {}
          BY <2>1, <3>3, <4>1 DEF In
        <4> QED
          BY <2>2, <3>5, <4>1, <4>2 DEF In
      <3> QED
        BY <2>1, <2>2, <3>2, <3>5, <3>6, <3>7, <3>8 DEF Fine, Committable, Insertable, In
    <2>3. CASE k # h
      BY <1>0, <1>8, <2>1, <2>3, Untouched DEF LoadFill, TypeOK
    <2> QED
      BY <2>2, <2>3
  <1>9. ASSUME NEW h \in Requests, CommitFill(h) PROVE Fine(req[k])'
    <2>1. req[h] \in Handlers /\ req[h] # Idle
      BY <1>0, <1>9, HandlerShape DEF CommitFill
    <2> DEFINE g == IF req[h].todo = {} THEN Idle
                    ELSE [req[h] EXCEPT !.op = "make", !.recipes = {}, !.menu = NoMenu,
                                        !.rules = NoRules, !.stale = FALSE]
    <2>2. g \in Handlers \cup {Idle} /\ (g \in Handlers => g.op = "make")
      BY <2>1 DEF Handlers, Idle
    <2>3. Proceed(h, g) /\ entry' = Written(req[h]) /\ UNCHANGED <<owner, stored, relation>>
      BY <1>9 DEF CommitFill
    <2> HIDE DEF g
    <2>4. \A m \in Menus : m # req[h].menu => entry'[m] = entry[m] /\ owner'[m] = owner[m]
      BY <1>0, <2>1, <2>3, Writing
    <2> QED
      BY <1>2, <2>1, <2>2, <2>3, <2>4
  <1>10. ASSUME NEW h \in Requests, Abort(h) PROVE Fine(req[k])'
    <2>1. k # h /\ req'[k] = req[k] /\ UNCHANGED <<owner, entry, stored, relation>>
      BY <1>0, <1>10 DEF Abort, TypeOK, Working
    <2> QED
      BY <1>0, <2>1, Untouched
  <1>11. ASSUME UNCHANGED <<owner, entry, stored, relation, req>> PROVE Fine(req[k])'
    BY <1>0, <1>11, Untouched
  <1>12. ASSUME NEW r \in Recipes, NEW ts \in SUBSET Tags, UpdateRecipe(r, ts) PROVE Fine(req[k])'
    BY <1>11, <1>12 DEF UpdateRecipe
  <1>13. ASSUME NEW u \in Users, NEW r \in Recipes, NEW how \in Relations, Engage(u, r, how) PROVE Fine(req[k])'
    <2>1. Removing(r) \subseteq Working
      BY DEF Removing, OnRecipe
    <2>2. CASE k \in Removing(r)
      <3>1. req'[k].stale /\ req'[k].op = req[k].op /\ req'[k].menu = req[k].menu
        BY <1>0, <1>13, <2>1, <2>2, Disturbing DEF Engage
      <3> QED
        BY <2>1, <2>2, <3>1 DEF MenusInv, Fine
    <2>3. CASE k \notin Removing(r)
      <3>1. req'[k] = req[k]
        BY <1>0, <1>13, <2>1, <2>3, Disturbing DEF Engage
      <3>2. k \in Working
        BY <1>0, <3>1 DEF Working
      <3>3. req[k].op = "remove" => r \notin req[k].recipes
        BY <2>3, <3>2 DEF Removing, OnRecipe
      <3>4. \A v \in Users, x \in Recipes : x # r => relation'[v][x] = relation[v][x]
        BY <1>0, <1>13 DEF Engage, TypeOK
      <3>5. req[k].recipes \subseteq Recipes
        BY <1>0, <3>2, HandlerShape DEF Working, Handlers
      <3>6. UNCHANGED <<owner, entry, stored>>
        BY <1>13 DEF Engage
      <3> QED
        BY <1>0, <3>1, <3>3, <3>4, <3>5, <3>6, Untouched
    <2> QED
      BY <2>2, <2>3
  <1>15. ASSUME NEW h \in Requests, NEW r \in Recipes, CommitRemove(h, r) PROVE Fine(req[k])'
    <2>1. OnRecipe(r) \subseteq Working
      BY DEF OnRecipe
    <2>2. req'[h] = Idle /\ k # h
      BY <1>0, <1>15, <2>1, Changing DEF CommitRemove, Working
    <2>3. CASE k \in Working /\ req'[k].stale /\ req'[k].op = req[k].op /\ req'[k].menu = req[k].menu
      BY <2>3 DEF MenusInv, Fine
    <2>4. CASE req'[k] = req[k] /\ k \notin OnRecipe(r)
      <3>1. PICK f : f = req[k]
        OBVIOUS
      <3>2. k \in Working /\ f \in Handlers /\ Fine(f) /\ r \notin f.recipes
        BY <1>0, <2>4, <3>1, HandlerShape DEF Working, MenusInv, OnRecipe
      <3>3. /\ UNCHANGED <<owner, relation>> /\ stored' = stored \ {r}
            /\ \A m \in Menus : In(m)' = In(m) \ {r}
        BY <1>0, <1>15 DEF CommitRemove, TypeOK, In, NoEntry
      <3>4. f.recipes \cap stored \subseteq stored'
        BY <3>2, <3>3
      <3>5. f.menu \in Menus => /\ f.menu \in There => f.menu \in There'
                                /\ In(f.menu)' \subseteq In(f.menu)
                                /\ f.recipes \cap In(f.menu) \subseteq In(f.menu)'
        BY <3>2, <3>3 DEF There
      <3>6. Fine(f)'
        BY <3>2, <3>3, <3>4, <3>5, StaysFine
      <3> QED
        BY <2>4, <3>1, <3>6, FineCopied
    <2> QED
      BY <1>0, <1>15, <2>1, <2>2, <2>3, <2>4, Changing DEF CommitRemove
  <1>14. CASE UNCHANGED vars
    BY <1>11, <1>14 DEF vars
  <1> QED
    BY <1>1, <1>3, <1>4, <1>5, <1>6, <1>7, <1>8, <1>9, <1>10, <1>12, <1>13, <1>14, <1>15 DEF Next, End

THEOREM Invariance == Spec => []MenusInv
  <1>1. MenusInv /\ [Next]_vars => MenusInv'
    BY TypeStep, FineStep DEF MenusInv
  <1> QED
    BY InitInvariants, <1>1, PTL DEF Spec

\* The rows and the requests have their shape, and a menu that is not there has
\* no entries.
THEOREM TypeCorrect == Spec => []TypeOK
  <1>1. MenusInv => TypeOK
    BY DEF MenusInv
  <1> QED
    BY <1>1, Invariance, PTL

\* A request on a menu fails on a constraint only if another request has written
\* to that menu since it was read.
THEOREM UndisturbedTheorem == Spec => []UndisturbedCommits
  <1>1. MenusInv => UndisturbedCommits
    BY DEF MenusInv, UndisturbedCommits, Fine
  <1> QED
    BY <1>1, Invariance, PTL

-----------------------------------------------------------------------------
(* Flags.                                                                  *)

\* Who inserts must find nothing there, and of those who update only a request to
\* restore shows what was hidden.
LEMMA FlagStep ==
  ASSUME TypeOK, Next, NEW m \in Menus, NEW r \in Recipes,
         entry[m][r].at = "hidden", entry'[m][r].at = "shown"
  PROVE  Restored(m, r)
  <1>1. entry'[m][r] # entry[m][r] /\ r \in In(m)
    BY DEF In
  <1>2. ASSUME NEW h \in Requests, CommitEntry(h) \/ CommitDelete(h) \/ CommitFill(h)
        PROVE  Restored(m, r)
    <2> DEFINE g == req[h]
    <2>1. /\ g \in Handlers /\ h \in Working /\ Committable(g) /\ entry' = Written(g)
          /\ g.op \in {"add", "restore", "flag", "drop", "delete", "fill"}
      BY <1>2, HandlerShape DEF CommitEntry, CommitDelete, CommitFill, Working
    <2>2. m = g.menu /\ r \in g.recipes
      BY <1>1, <2>1, Writing
    <2>3. g.op \notin {"drop", "delete"}
      BY <2>1, <2>2, Writing
    <2>4. g.op \notin {"add", "fill"}
      BY <1>1, <2>1, <2>2 DEF Committable, Insertable
    <2>5. g.op # "flag"
      BY <2>1, <2>2 DEF Written, TypeOK, Entries
    <2> QED
      BY <2>1, <2>2, <2>3, <2>4, <2>5 DEF Restored
  <1>3. ASSUME NEW h \in Requests, NEW x \in Recipes, CommitRemove(h, x) PROVE FALSE
    BY <1>1, <1>3 DEF CommitRemove, TypeOK, NoEntry
  <1>4. ASSUME NEW h \in Requests, Begin(h) PROVE FALSE
    BY <1>1, <1>4, Loading
  <1> QED
    BY <1>1, <1>2, <1>3, <1>4
       DEF Next, End, CommitRules, CommitMake, Insert, CreateMenu, LoadFill, Abort, UpdateRecipe, Engage

\* A recipe that a member has taken out, and the rules ask for, is shown again by
\* a request to put it in, by no other handler (remove_recipe_from_menu,
\* _populate_menu_from_filter).
THEOREM FlagsTheorem == Spec => FlagsStand
  <1>1. TypeOK /\ [Next]_vars => [\A m \in Menus, r \in Recipes : FlagStands(m, r)]_vars
    BY FlagStep DEF FlagStands
  <1> QED
    BY <1>1, TypeCorrect, PTL DEF Spec, FlagsStand
=============================================================================
