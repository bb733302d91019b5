---------------------------- MODULE GroceryList ----------------------------
(***************************************************************************)
(* The shared grocery list (src/src/services/grocery_service.py).  The     *)
(* handlers run in the threads of FastAPI's pool, each with a session of   *)
(* its own: a handler reads its rows, decides, and later commits, and      *)
(* between the two other handlers commit.  The commit of a session writes  *)
(* only the columns whose new value differs from the value that session    *)
(* has loaded; when a row to be written is gone it raises StaleDataError   *)
(* and the transaction is rolled back.                                     *)
(*                                                                         *)
(* Handlers that end in 404 or 400, or only read, change nothing and are   *)
(* left out; a commit that raises is Abort.                                *)
(***************************************************************************)
EXTENDS Naturals, FiniteSets

CONSTANTS Items, Users, NoUser,
          Requests,  \* the threads of the pool
          MaxStock   \* bound on the inventory items created from one row

Ops == {"purchase", "unpurchase", "update", "delete"}

ASSUME GroceryAssumption ==
  /\ NoUser \notin Users
  /\ IsFiniteSet(Requests)
  /\ MaxStock \in Nat \ {0}

VARIABLES
  state,      \* grocery_list_items: "absent", "listed" or "deleted"
  unit,       \* "inventory" if it is a UnitType, "free" if it is not
  purchased,
  by,         \* purchased_by
  date,       \* purchased_date, as the user whose purchase wrote it
  stock,      \* inventory items made of the row since it last was unpurchased
  badStock,   \* history: has an inventory item got a unit that is no UnitType?
  req,        \* the handlers: what they were asked and what they will write
  crossed,    \* history: a handler's rows whose purchase columns a handler of
              \* the other direction has written since they were loaded
  torn        \* history: the rows whose last buyer or returner was crossed

row  == <<state, unit, purchased, by, date>>
inventory == <<stock, badStock>>
history == <<crossed, torn>>
vars == <<row, inventory, req, history>>

States  == {"absent", "listed", "deleted"}
Units   == {"inventory", "free"}
Columns == {"purchased", "by", "date", "unit"}

Idle == [op |-> "none"]

\* A handler at work: the buyer, if it is one, the rows it loaded, the columns its
\* commit will write, the rows it makes inventory of and the units these had when
\* loaded.
Handlers ==
  [op : Ops, user : Users \cup {NoUser}, items : SUBSET Items,
   writes : [Items -> SUBSET Columns], restock : SUBSET Items,
   units : [Items -> Units]]

Listed == {i \in Items : state[i] = "listed"}

Init ==
  /\ state     = [i \in Items |-> "absent"]
  /\ unit      = [i \in Items |-> "inventory"]
  /\ purchased = [i \in Items |-> FALSE]
  /\ by        = [i \in Items |-> NoUser]
  /\ date      = [i \in Items |-> NoUser]
  /\ stock     = [i \in Items |-> 0]
  /\ badStock  = FALSE
  /\ req       = [r \in Requests |-> Idle]
  /\ crossed   = [r \in Requests |-> {}]
  /\ torn      = {}

-----------------------------------------------------------------------------
(* Reading.                                                                *)

\* create_item.  The unit comes from a validated request, or from a recipe
\* ingredient when a meal plan entry is confirmed, where it is free text.
Create(i) ==
  /\ state[i] = "absent"
  /\ state' = [state EXCEPT ![i] = "listed"]
  /\ \E x \in Units : unit' = [unit EXCEPT ![i] = x]
  /\ UNCHANGED <<purchased, by, date, inventory, req, history>>

\* Mutant: the buyer is not recorded.
PurchaseWithoutBuyer(i, u) ==
  {"date"} \cup (IF purchased[i] THEN {} ELSE {"purchased"})

\* The columns of a loaded row that differ once u has purchased it.
PurchaseWrites(i, u) ==
  {"date"} \cup (IF purchased[i] THEN {} ELSE {"purchased"})
           \cup (IF by[i] = u THEN {} ELSE {"by"})

UnpurchaseWrites(i) ==
  (IF purchased[i] THEN {"purchased"} ELSE {})
    \cup (IF by[i] # NoUser THEN {"by"} ELSE {})
    \cup (IF date[i] # NoUser THEN {"date"} ELSE {})

\* Handler r loads the rows S, of each of which it will write writes[i].
Load(r, op, u, S, restock, writes) ==
  /\ req[r] = Idle
  /\ S \subseteq Listed
  /\ req' = [req EXCEPT ![r] =
       [op |-> op, user |-> u, items |-> S, restock |-> restock,
        writes |-> [i \in Items |-> IF i \in S THEN writes[i] ELSE {}],
        units |-> [i \in Items |-> IF i \in restock THEN unit[i] ELSE "inventory"]]]
  /\ UNCHANGED <<row, inventory, history>>

\* Mutant: was_already_purchased is not asked.
RestockAll(S, create) == IF create THEN S ELSE {}

\* The rows a batch makes inventory of: those it has loaded as not purchased.
Restock(S, create) == IF create THEN {i \in S : ~purchased[i]} ELSE {}

\* Mutant: the units are not checked before the batch is written.
LoadPurchaseUnchecked(r, u, S, create) ==
  Load(r, "purchase", u, S, Restock(S, create), [j \in Items |-> PurchaseWrites(j, u)])

\* bulk_purchase up to its commit; mark_purchased is a batch of one row that makes
\* no inventory.
LoadPurchase(r, u, S, create) ==
  /\ \A i \in Restock(S, create) : unit[i] = "inventory"
  /\ Load(r, "purchase", u, S, Restock(S, create), [j \in Items |-> PurchaseWrites(j, u)])

LoadUnpurchase(r, i) ==
  Load(r, "unpurchase", NoUser, {i}, {}, [j \in Items |-> UnpurchaseWrites(j)])

\* An update or a deletion is the owner's, anybody else's a 404.  The new unit has
\* been checked by GroceryItemUpdate.
LoadUpdate(r, i) ==
  Load(r, "update", NoUser, {i}, {},
       [j \in Items |-> IF unit[j] = "free" THEN {"unit"} ELSE {}])

LoadDelete(r, i) == Load(r, "delete", NoUser, {i}, {}, [j \in Items |-> {}])

-----------------------------------------------------------------------------
(* Committing.                                                             *)

\* Handler r is done with its rows, and has written their purchase columns: the
\* handlers that would write the opposite there are crossed from now on.
Opposite(op) == IF op = "unpurchase" THEN "purchase" ELSE "unpurchase"

EndBuying(r) ==
  /\ req' = [req EXCEPT ![r] = Idle]
  /\ crossed' = [q \in Requests |->
       IF q = r THEN {}
       ELSE IF req[q].op = Opposite(req[r].op)
            THEN crossed[q] \cup (req[q].items \cap req[r].items)
            ELSE crossed[q]]
  /\ torn' = (torn \ req[r].items) \cup crossed[r]

EndOther(r) ==
  /\ req' = [req EXCEPT ![r] = Idle]
  /\ crossed' = [crossed EXCEPT ![r] = {}]
  /\ UNCHANGED torn

Written(h, c) == {i \in h.items : c \in h.writes[i]}

\* Does a row that h would write no longer exist?
StaleData(h) == \E i \in h.items : h.writes[i] # {} /\ state[i] # "listed"

\* Mutant: the rows that are gone are skipped instead of failing the batch.
PurchaseSkipping(h) ==
  /\ purchased' = [i \in Items |-> IF i \in Written(h, "purchased") \cap Listed
                                   THEN TRUE ELSE purchased[i]]
  /\ by'   = [i \in Items |-> IF i \in Written(h, "by") \cap Listed THEN h.user ELSE by[i]]
  /\ date' = [i \in Items |-> IF i \in Written(h, "date") \cap Listed THEN h.user ELSE date[i]]
  /\ stock' = [i \in Items |-> IF i \in h.restock THEN stock[i] + 1 ELSE stock[i]]
  /\ badStock' = (badStock \/ \E i \in h.restock : h.units[i] = "free")
  /\ UNCHANGED <<state, unit>>

\* Mutant: that a row has gone since it was loaded is not noticed.
PurchaseGone(h) ==
  /\ purchased' = [i \in Items |-> i \in Written(h, "purchased") \/ purchased[i]]
  /\ by'   = [i \in Items |-> IF i \in Written(h, "by") THEN h.user ELSE by[i]]
  /\ date' = [i \in Items |-> IF i \in Written(h, "date") THEN h.user ELSE date[i]]
  /\ stock' = [i \in Items |-> IF i \in h.restock THEN stock[i] + 1 ELSE stock[i]]
  /\ badStock' = (badStock \/ \E i \in h.restock : h.units[i] = "free")
  /\ UNCHANGED <<state, unit>>

\* mark_purchased, bulk_purchase: rows and inventory items in one transaction.
PurchaseRows(h) ==
  /\ ~StaleData(h)
  /\ purchased' = [i \in Items |-> IF i \in Written(h, "purchased") THEN TRUE ELSE purchased[i]]
  /\ by'        = [i \in Items |-> IF i \in Written(h, "by") THEN h.user ELSE by[i]]
  /\ date'      = [i \in Items |-> IF i \in Written(h, "date") THEN h.user ELSE date[i]]
  /\ stock'     = [i \in Items |-> IF i \in h.restock THEN stock[i] + 1 ELSE stock[i]]
  /\ badStock'  = (badStock \/ \E i \in h.restock : h.units[i] = "free")
  /\ UNCHANGED <<state, unit>>

CommitPurchase(r) ==
  /\ req[r].op = "purchase"
  /\ \A i \in req[r].restock : stock[i] < MaxStock
  /\ PurchaseRows(req[r])
  /\ EndBuying(r)

\* mark_unpurchased.  The inventory keeps what was made of the row.
CommitUnpurchase(r) ==
  /\ req[r].op = "unpurchase"
  /\ ~StaleData(req[r])
  /\ purchased' = [i \in Items |-> IF i \in Written(req[r], "purchased")
                                   THEN FALSE ELSE purchased[i]]
  /\ by'   = [i \in Items |-> IF i \in Written(req[r], "by") THEN NoUser ELSE by[i]]
  /\ date' = [i \in Items |-> IF i \in Written(req[r], "date") THEN NoUser ELSE date[i]]
  /\ stock' = [i \in Items |-> IF i \in Written(req[r], "purchased") THEN 0 ELSE stock[i]]
  /\ EndBuying(r)
  /\ UNCHANGED <<state, unit, badStock>>

CommitUpdate(r) ==
  /\ req[r].op = "update"
  /\ ~StaleData(req[r])
  /\ unit' = [i \in Items |-> IF i \in Written(req[r], "unit") THEN "inventory" ELSE unit[i]]
  /\ EndOther(r)
  /\ UNCHANGED <<state, purchased, by, date, inventory>>

\* The row is gone, with all it said.  A DELETE that finds no row is no error.
CommitDelete(r) ==
  /\ req[r].op = "delete"
  /\ LET gone == req[r].items
     IN  /\ state'     = [i \in Items |-> IF i \in gone THEN "deleted" ELSE state[i]]
         /\ unit'      = [i \in Items |-> IF i \in gone THEN "inventory" ELSE unit[i]]
         /\ purchased' = [i \in Items |-> i \notin gone /\ purchased[i]]
         /\ by'        = [i \in Items |-> IF i \in gone THEN NoUser ELSE by[i]]
         /\ date'      = [i \in Items |-> IF i \in gone THEN NoUser ELSE date[i]]
         /\ stock'     = [i \in Items |-> IF i \in gone THEN 0 ELSE stock[i]]
         /\ torn'      = torn \ gone
  /\ req' = [req EXCEPT ![r] = Idle]
  /\ crossed' = [crossed EXCEPT ![r] = {}]
  /\ UNCHANGED badStock

\* The commit raises, the row is stale, or the process is gone.
Abort(r) ==
  /\ req[r] # Idle
  /\ EndOther(r)
  /\ UNCHANGED <<row, inventory>>

Begin(r) ==
  \/ \E u \in Users, S \in SUBSET Items, create \in BOOLEAN :
       S # {} /\ LoadPurchase(r, u, S, create)
  \/ \E i \in Items : \/ LoadUnpurchase(r, i)
                      \/ LoadUpdate(r, i)
                      \/ LoadDelete(r, i)

End(r) ==
  \/ CommitPurchase(r)
  \/ CommitUnpurchase(r)
  \/ CommitUpdate(r)
  \/ CommitDelete(r)
  \/ Abort(r)

Next ==
  \/ \E i \in Items : Create(i)
  \/ \E r \in Requests : Begin(r) \/ End(r)

Spec == Init /\ [][Next]_vars

-----------------------------------------------------------------------------
(* Properties.                                                             *)

TypeOK ==
  /\ state \in [Items -> States]
  /\ unit \in [Items -> Units]
  /\ purchased \in [Items -> BOOLEAN]
  /\ by \in [Items -> Users \cup {NoUser}]
  /\ date \in [Items -> Users \cup {NoUser}]
  /\ \A i \in Items : state[i] # "listed" =>
                         ~purchased[i] /\ by[i] = NoUser /\ date[i] = NoUser
  /\ stock \in [Items -> 0..MaxStock]
  /\ badStock \in BOOLEAN
  /\ req \in [Requests -> Handlers \cup {Idle}]
  /\ \A r \in Requests : req[r].op = "purchase" => req[r].user \in Users
  /\ crossed \in [Requests -> SUBSET Items]
  /\ torn \in SUBSET Items

\* purchased, purchased_by and purchased_date tell the same story: either all
\* three say that the item was bought or none does.  This is what mark_purchased
\* ("Sets purchased=True, purchased_by=current_user, purchased_date=now") and
\* mark_unpurchased ("Sets purchased=False, purchased_by=None,
\* purchased_date=None") say of themselves; overlapping, they do not keep it.
Whole(i) == /\ purchased[i] <=> by[i] # NoUser
            /\ purchased[i] <=> date[i] # NoUser

StampComplete == \A i \in Items : Whole(i)

\* What remains of it: the columns of a row disagree only after a purchase and an
\* unpurchase of it have overlapped, the one committing between the reading and
\* the commit of the other, and only until the next purchase, batch or unpurchase
\* that nobody crosses, which repairs the row whatever state it finds it in.
StampsExplained == \A i \in Items \ torn : Whole(i)

\* Buying a row stocks the inventory once, and overlapping handlers at most once
\* each (was_already_purchased in bulk_purchase): however purchases, batches and
\* unpurchases follow each other, what is stocked is not stocked again before
\* the row has been unpurchased.
StockedPerOverlap == \A i \in Items : stock[i] <= Cardinality(Requests)

\* A batch is all or nothing, whatever other members of the household do to its
\* rows meanwhile: at its end either every row it asked for is still listed and
\* carries its date, or it has changed neither the list nor the inventory.
BulkIsAtomic ==
  [][\A r \in Requests :
       req[r].op = "purchase" /\ req'[r] = Idle =>
         \/ UNCHANGED <<row, inventory>>
         \/ \A i \in req[r].items : state[i] = "listed" /\ date'[i] = req[r].user]_vars

\* The inductive invariants behind these.  The rows of a handler exist, or did,
\* and what is to be stocked has been checked.
LoadedExist ==
  \A r \in Requests : req[r] # Idle => \A i \in req[r].items : state[i] # "absent"

RestockChecked ==
  \A r \in Requests : req[r] # Idle =>
    \A i \in req[r].restock : req[r].units[i] = "inventory"

\* On a row that was not crossed and is still there, a column a purchase will not write holds what
\* it would write, and one an unpurchase will not clear is clear.
WritesComplete ==
  \A r \in Requests : req[r].op = "purchase" =>
    \A i \in (req[r].items \cap Listed) \ crossed[r] :
      /\ "date" \in req[r].writes[i]
      /\ "purchased" \in req[r].writes[i] \/ purchased[i]
      /\ "by" \in req[r].writes[i] \/ by[i] # NoUser

UnwritesComplete ==
  \A r \in Requests : req[r].op = "unpurchase" =>
    \A i \in req[r].items \ crossed[r] :
      /\ "purchased" \in req[r].writes[i] \/ ~purchased[i]
      /\ "by" \in req[r].writes[i] \/ by[i] = NoUser
      /\ "date" \in req[r].writes[i] \/ date[i] = NoUser

\* Do no two handlers buy or unpurchase one row at the same time?  Then nobody is
\* crossed, and what a batch will stock is still not bought.
Buying == {"purchase", "unpurchase"}

BuyersApart ==
  \A r, s \in Requests :
    /\ req[r].op \in Buying /\ req[s].op \in Buying
    /\ req[r].items \cap req[s].items # {}
    => r = s

NoneCrossed == torn = {} /\ \A r \in Requests : crossed[r] = {}

RestockUnbought ==
  \A r \in Requests : req[r] # Idle =>
    \A i \in req[r].restock : req[r].op = "purchase" /\ ~purchased[i]

StockedOnce == \A i \in Items : stock[i] <= 1

\* What is to be stocked will be marked as bought in the same commit, what is
\* stocked is so marked, and a batch writes the date of all its rows.
RestockMarks ==
  \A r \in Requests : req[r] # Idle =>
    \A i \in req[r].restock : i \in req[r].items /\ "purchased" \in req[r].writes[i]

StockedIsMarked == \A i \in Items : stock[i] > 0 => purchased[i]

BulkDates ==
  \A r \in Requests : req[r].op = "purchase" =>
    \A i \in req[r].items : "date" \in req[r].writes[i]

\* Each handler counts once: for what it has stocked or is about to stock.
Restocking(i) == {r \in Requests : req[r] # Idle /\ i \in req[r].restock}

StockedOrRestocking ==
  \A i \in Items : stock[i] + Cardinality(Restocking(i)) <= Cardinality(Requests)

UnitsInv  == TypeOK /\ LoadedExist /\ RestockChecked /\ ~badStock
StockInv  == TypeOK /\ LoadedExist /\ RestockMarks /\ StockedIsMarked /\ StockedOrRestocking
StampInv  == TypeOK /\ LoadedExist /\ WritesComplete /\ UnwritesComplete /\ StampsExplained
ApartInv  == /\ TypeOK /\ LoadedExist /\ RestockMarks /\ StockedIsMarked
             /\ NoneCrossed /\ RestockUnbought /\ StockedOnce

\* For an item that somebody has deleted nothing happens any more: no handler
\* that loaded it before buys it, stocks it, or brings it back.
NothingForDeleted ==
  [][\A i \in Items : state[i] = "deleted" =>
       /\ state'[i] = "deleted"
       /\ purchased'[i] = purchased[i] /\ by'[i] = by[i] /\ date'[i] = date[i]
       /\ stock'[i] = stock[i]]_vars

\* Every inventory item made from the list has a unit the inventory knows, even
\* though units are free text on the list and the check and the commit of a
\* batch are separate steps.
InventoryUnits == ~badStock
=============================================================================
