------------------------------- MODULE Stock -------------------------------
(***************************************************************************)
(* What there is to eat: inventory items (src/src/routers/inventory.py)    *)
(* and prepared foods (src/src/services/prepared_foods_service.py), two    *)
(* tables whose rows are used up in the same way.  A handler reads a row,  *)
(* computes, and later commits the columns that differ from what it has    *)
(* read; between the two other handlers commit.                            *)
(*                                                                         *)
(* Quantities are floats compared with a tolerance.  Here they are         *)
(* naturals, counted in units so small that Tolerance of them are the      *)
(* rounding error the code forgives.  Of the columns a client may rewrite, *)
(* those nothing else depends on (name, note, price, dates of expiry, the  *)
(* preferred store) are one write without effect on the model's state.     *)
(***************************************************************************)
EXTENDS Integers

CONSTANTS Items,      \* rows of either table
          Users, NoUser,
          Stores,
          Requests,   \* the threads of the pool
          Supplies,   \* the quantities clients set
          Amounts,    \* the amounts clients consume
          Again,      \* bound: what a recipe's second entry for one item uses;
                      \* 0 is no such entry
          Edits,      \* the sets of columns that a PUT of a client changes
          Tolerance   \* FLOAT_COMPARISON_TOLERANCE

ASSUME StockAssumption ==
  /\ NoUser \notin Users
  /\ Supplies \subseteq Nat
  /\ Tolerance \in Nat
  /\ Amounts \subseteq {a \in Nat : a > Tolerance}
  /\ Again \subseteq Nat

VARIABLES
  table,     \* "none", "inventory" or "prepared"
  state,     \* "absent", "stocked", "emptied" by a consumption, or "deleted"
  owner,     \* added_by, prepared_by
  row,       \* the columns of Columns
  available, \* available_at_stores
  req,       \* the handlers
  given,     \* history: the quantity as a client last set it
  lost,      \* history: rows with a consumption that overlooked a change
  taken,     \* history: what was consumed since, of rows not in lost
  torn       \* history: rows whose place and date of freezing a client set, or
             \* a handler wrote that had overlooked a change of either

account == <<given, lost, taken>>
vars == <<table, state, owner, row, available, req, account, torn>>

Columns == {"qty", "freezer", "dated", "shared"}

\* A recipe that names one item twice may take more than there is.
Quantities == IF Again \subseteq {0} THEN Nat ELSE Int

\* quantity or servings_remaining, is storage_location the freezer, is
\* frozen_date set, is shareability "shared".
Rows == [qty : Quantities, freezer : BOOLEAN, dated : BOOLEAN, shared : BOOLEAN]

NoRow == [qty |-> 0, freezer |-> FALSE, dated |-> FALSE, shared |-> FALSE]

Idle == [op |-> "none"]

\* A handler at work: the columns it will write, and the values for them; of the
\* columns of its row, those that others have written since it read them.
Handlers ==
  [op : {"use", "empty", "set", "move", "add", "remove", "delete"},
   user : Users, item : Items, cols : SUBSET Columns, new : Rows,
   amount : Nat, store : SUBSET Stores, stale : SUBSET Columns]

Stocked == {i \in Items : state[i] = "stocked"}
Working == {r \in Requests : req[r] # Idle}

Init ==
  /\ table = [i \in Items |-> "none"]
  /\ state = [i \in Items |-> "absent"]
  /\ owner = [i \in Items |-> NoUser]
  /\ row   = [i \in Items |-> NoRow]
  /\ available = [i \in Items |-> {}]
  /\ req   = [r \in Requests |-> Idle]
  /\ given = [i \in Items |-> 0]
  /\ taken = [i \in Items |-> 0]
  /\ lost  = {}
  /\ torn  = {}

-----------------------------------------------------------------------------
(* Creating.                                                               *)

\* Rows S of table t that u gives the columns c.
Insert(S, t, u, c) ==
  /\ \A i \in S : state[i] = "absent"
  /\ table' = [i \in Items |-> IF i \in S THEN t ELSE table[i]]
  /\ state' = [i \in Items |-> IF i \in S THEN "stocked" ELSE state[i]]
  /\ owner' = [i \in Items |-> IF i \in S THEN u ELSE owner[i]]
  /\ row'   = [i \in Items |-> IF i \in S THEN c ELSE row[i]]
  /\ given' = [i \in Items |-> IF i \in S THEN c.qty ELSE given[i]]
  /\ torn'  = IF c.dated /\ ~c.freezer THEN torn \cup S ELSE torn
  /\ UNCHANGED <<available, req, taken, lost>>

CreateItem(u, i, c) == Insert({i}, "inventory", u, c)

CreateItemsBulk(u, S, c) == S # {} /\ Insert(S, "inventory", u, c)

CreatePreparedFood(u, i, c) == ~c.dated /\ Insert({i}, "prepared", u, c)

-----------------------------------------------------------------------------
(* Reading.  A handler that answers 4xx changes nothing and is left out.   *)

\* verify_ownership
Owned(u, i) == i \in Stocked /\ owner[i] = u

\* Mutant: whoever knows the id gets the row.
AccessibleToAll(u, i) == i \in Stocked /\ table[i] = "prepared"

\* get_accessible_prepared_food
Accessible(u, i) ==
  i \in Stocked /\ table[i] = "prepared" /\ (row[i].shared \/ owner[i] = u)

\* May u use up or move row i?
MayUse(u, i) == IF table[i] = "prepared" THEN Accessible(u, i) ELSE Owned(u, i)

\* The row after h's UPDATE.
Written(h, old) ==
  [qty     |-> IF "qty"     \in h.cols THEN h.new.qty     ELSE old.qty,
   freezer |-> IF "freezer" \in h.cols THEN h.new.freezer ELSE old.freezer,
   dated   |-> IF "dated"   \in h.cols THEN h.new.dated   ELSE old.dated,
   shared  |-> IF "shared"  \in h.cols THEN h.new.shared  ELSE old.shared]

Load(r, op, u, i, cols, new, amount, store) ==
  /\ req[r] = Idle
  /\ req' = [req EXCEPT ![r] =
       [op |-> op, user |-> u, item |-> i, cols |-> cols,
        new |-> Written([cols |-> cols, new |-> new], NoRow),
        amount |-> amount, store |-> store, stale |-> {}]]
  /\ UNCHANGED <<table, state, owner, row, available, account, torn>>

\* Mutant: the amount is not compared with what there is.
EnoughAlways(q, a) == TRUE

Enough(q, a) == a <= q + Tolerance

\* Is what remains zero, or would be but for rounding?
Empties(q, a) == q - a <= Tolerance

\* Mutant: the result is not clamped to zero.
RemainderUnclamped(q, a) == q - a

Remainder(q, a) == IF a <= q THEN q - a ELSE 0

\* consume_inventory_item, consume_prepared_food
LoadConsume(r, u, i, a, deleteWhenEmpty) ==
  LET q == row[i].qty
  IN  /\ MayUse(u, i)
      /\ Enough(q, a)
      /\ IF Empties(q, a) /\ deleteWhenEmpty
         THEN Load(r, "empty", u, i, {}, NoRow, a, {})
         ELSE Load(r, "use", u, i, {"qty"}, [NoRow EXCEPT !.qty = Remainder(q, a)], a, {})

\* create_ad_hoc_recipe with decrement_inventory, for one item of its list: every
\* entry is compared with what there is, then all are subtracted.
LoadAdHoc(r, u, i, a, again) ==
  LET q == row[i].qty
  IN  /\ Owned(u, i) /\ table[i] = "inventory"
      /\ a <= q /\ again <= q
      /\ Load(r, "use", u, i, {"qty"}, [NoRow EXCEPT !.qty = q - a - again], a + again, {})

\* update_inventory_item, update_shareability, update_prepared_food: what the
\* client sets, and what of it differs from the row.
LoadSet(r, u, i, c) ==
  LET cols == {k \in Columns : c[k] # row[i][k]}
  IN  /\ Owned(u, i)
      /\ cols \in Edits
      /\ table[i] = "prepared" => ~c.dated
      /\ Load(r, "set", u, i, cols, c, 0, {})

\* set_preferred_store, clear_preferred_store: a column outside Columns.
LoadPreferredStore(r, u, i) ==
  Owned(u, i) /\ table[i] = "inventory" /\ Load(r, "set", u, i, {}, NoRow, 0, {})

\* freeze: the date, being new, is always written; the place only when the row
\* was somewhere else.
LoadFreeze(r, u, i) ==
  /\ MayUse(u, i)
  /\ Load(r, "move", u, i,
          (IF row[i].freezer THEN {} ELSE {"freezer"}) \cup
          (IF table[i] = "inventory" THEN {"dated"} ELSE {}),
          [NoRow EXCEPT !.freezer = TRUE, !.dated = TRUE], 0, {})

\* Mutant: thawing forgets the date.
LoadThawKeepsDate(r, u, i) ==
  /\ MayUse(u, i)
  /\ \E cols \in {{}, {"freezer"}} :
       /\ row[i].freezer => cols = {"freezer"}
       /\ Load(r, "move", u, i, cols, NoRow, 0, {})

\* thaw: out of the freezer, to a place that may or may not be where the row
\* already is, and without a date.
LoadThaw(r, u, i) ==
  /\ MayUse(u, i)
  /\ \E cols \in {{}, {"freezer"}} :
       /\ row[i].freezer => cols = {"freezer"}
       /\ Load(r, "move", u, i,
               cols \cup (IF row[i].dated THEN {"dated"} ELSE {}), NoRow, 0, {})

\* transfer_prepared_food
LoadTransfer(r, u, i, freezer) ==
  /\ Accessible(u, i)
  /\ \E cols \in {{}, {"freezer"}} :
       /\ row[i].freezer # freezer => cols = {"freezer"}
       /\ Load(r, "move", u, i, cols, [NoRow EXCEPT !.freezer = freezer], 0, {})

\* delete_inventory_item, delete_prepared_food
LoadDelete(r, u, i) == Owned(u, i) /\ Load(r, "delete", u, i, {}, NoRow, 0, {})

\* add_available_store and remove_available_store commit only when the list
\* they have read has to change.
LoadAddStore(r, u, i, s) ==
  /\ Owned(u, i) /\ table[i] = "inventory"
  /\ s \notin available[i]
  /\ Load(r, "add", u, i, {}, NoRow, 0, {s})

LoadRemoveStore(r, u, i, s) ==
  /\ Owned(u, i) /\ table[i] = "inventory"
  /\ s \in available[i]
  /\ Load(r, "remove", u, i, {}, NoRow, 0, {s})

-----------------------------------------------------------------------------
(* Committing.                                                             *)

\* Handler r is done; the others on its row have not seen it write cols.
Finish(r, cols) ==
  req' = [s \in Requests |->
            CASE s = r -> Idle
              [] s # r /\ s \in Working /\ req[s].item = req[r].item ->
                   [req[s] EXCEPT !.stale = @ \cup cols]
              [] OTHER -> req[s]]

Places == {"freezer", "dated"}

\* The rows that are torn after h has written i: a client may set any place and
\* date; freezing and thawing set both rightly, unless one was changed meanwhile.
Tears(h, i) ==
  IF h.op = "set"
  THEN IF h.cols \cap Places = {} THEN torn ELSE torn \cup {i}
  ELSE IF h.stale \cap Places = {} THEN torn \ {i} ELSE torn \cup {i}

\* What a consumption does to the account of its row.
Take(h, i) ==
  /\ lost' = IF "qty" \in h.stale THEN lost \cup {i} ELSE lost
  /\ taken' = [taken EXCEPT ![i] = IF i \in lost' THEN 0 ELSE @ + h.amount]
  /\ UNCHANGED given

CommitUse(r) ==
  LET h == req[r]  i == h.item
  IN  /\ r \in Working /\ h.op = "use" /\ i \in Stocked
      /\ row' = [row EXCEPT ![i] = Written(h, row[i])]
      /\ Take(h, i)
      /\ Finish(r, h.cols)
      /\ UNCHANGED <<table, state, owner, available, torn>>

\* The DELETE of a row that is gone already is only a warning.
CommitEmpty(r) ==
  LET h == req[r]  i == h.item
  IN  /\ r \in Working /\ h.op = "empty"
      /\ state' = IF i \in Stocked THEN [state EXCEPT ![i] = "emptied"] ELSE state
      /\ row' = [row EXCEPT ![i] = NoRow]
      /\ available' = [available EXCEPT ![i] = {}]
      /\ Take(h, i)
      /\ Finish(r, Columns)
      /\ UNCHANGED <<table, owner, torn>>

CommitSet(r) ==
  LET h == req[r]  i == h.item
  IN  /\ r \in Working /\ h.op = "set" /\ i \in Stocked
      /\ row' = [row EXCEPT ![i] = Written(h, row[i])]
      /\ IF "qty" \in h.cols
         THEN /\ given' = [given EXCEPT ![i] = h.new.qty]
              /\ taken' = [taken EXCEPT ![i] = 0]
              /\ lost' = lost \ {i}
         ELSE UNCHANGED account
      /\ torn' = Tears(h, i)
      /\ Finish(r, h.cols)
      /\ UNCHANGED <<table, state, owner, available>>

CommitMove(r) ==
  LET h == req[r]  i == h.item
  IN  /\ r \in Working /\ h.op = "move" /\ i \in Stocked
      /\ row' = [row EXCEPT ![i] = Written(h, row[i])]
      /\ torn' = Tears(h, i)
      /\ Finish(r, h.cols)
      /\ UNCHANGED <<table, state, owner, available, account>>

CommitDelete(r) ==
  LET h == req[r]  i == h.item
  IN  /\ r \in Working /\ h.op = "delete"
      /\ state' = IF i \in Stocked THEN [state EXCEPT ![i] = "deleted"] ELSE state
      /\ row' = [row EXCEPT ![i] = NoRow]
      /\ available' = [available EXCEPT ![i] = {}]
      /\ Finish(r, Columns)
      /\ UNCHANGED <<table, owner, account, torn>>

\* A row that is there already, or one to refer to that is not, fails the
\* INSERT; so does the lack of a row the DELETE from the association table.
CommitAddStore(r) ==
  LET h == req[r]  i == h.item
  IN  /\ r \in Working /\ h.op = "add" /\ i \in Stocked
      /\ h.store \cap available[i] = {}
      /\ available' = [available EXCEPT ![i] = @ \cup h.store]
      /\ Finish(r, {})
      /\ UNCHANGED <<table, state, owner, row, account, torn>>

CommitRemoveStore(r) ==
  LET h == req[r]  i == h.item
  IN  /\ r \in Working /\ h.op = "remove" /\ i \in Stocked
      /\ h.store \subseteq available[i]
      /\ available' = [available EXCEPT ![i] = @ \ h.store]
      /\ Finish(r, {})
      /\ UNCHANGED <<table, state, owner, row, account, torn>>

\* The commit raises, by itself or because the row is gone.
Abort(r) ==
  /\ r \in Working
  /\ req' = [req EXCEPT ![r] = Idle]
  /\ UNCHANGED <<table, state, owner, row, available, account, torn>>

Begin(r) ==
  \E u \in Users, i \in Items :
    \/ \E a \in Amounts, d \in BOOLEAN : LoadConsume(r, u, i, a, d)
    \/ \E a \in Amounts, b \in Again : LoadAdHoc(r, u, i, a, b)
    \/ \E q \in Supplies \cup {row[i].qty}, f, d, s \in BOOLEAN :
         LoadSet(r, u, i, [qty |-> q, freezer |-> f, dated |-> d, shared |-> s])
    \/ LoadPreferredStore(r, u, i)
    \/ LoadFreeze(r, u, i)
    \/ LoadThaw(r, u, i)
    \/ \E f \in BOOLEAN : LoadTransfer(r, u, i, f)
    \/ LoadDelete(r, u, i)
    \/ \E s \in Stores : LoadAddStore(r, u, i, s) \/ LoadRemoveStore(r, u, i, s)

End(r) ==
  \/ CommitUse(r)
  \/ CommitEmpty(r)
  \/ CommitSet(r)
  \/ CommitMove(r)
  \/ CommitDelete(r)
  \/ CommitAddStore(r)
  \/ CommitRemoveStore(r)
  \/ Abort(r)

Create ==
  \E u \in Users, q \in Supplies, f, d, s \in BOOLEAN :
    LET c == [qty |-> q, freezer |-> f, dated |-> d, shared |-> s]
    IN  \/ \E i \in Items : CreateItem(u, i, c) \/ CreatePreparedFood(u, i, c)
        \/ \E S \in SUBSET Items : CreateItemsBulk(u, S, c)

Next == Create \/ \E r \in Requests : Begin(r) \/ End(r)

Spec == Init /\ [][Next]_vars

-----------------------------------------------------------------------------
(* Properties.                                                             *)

TypeOK ==
  /\ table \in [Items -> {"none", "inventory", "prepared"}]
  /\ state \in [Items -> {"absent", "stocked", "emptied", "deleted"}]
  /\ owner \in [Items -> Users \cup {NoUser}]
  /\ row \in [Items -> Rows]
  /\ available \in [Items -> SUBSET Stores]
  /\ req \in [Requests -> Handlers \cup {Idle}]
  /\ given \in [Items -> Nat]
  /\ lost \in SUBSET Items
  /\ taken \in [Items -> Nat]
  /\ torn \in SUBSET Items

\* What was there, but for what is still there and what was consumed.
Missing(i) == given[i] - taken[i] - row[i].qty

\* What is there, and what was consumed since a client last set the quantity,
\* add up to what the client set, but for one rounding error: unless a
\* consumption was computed from a quantity that another handler had changed
\* before it was committed.  A row that is used up and deleted takes nothing
\* with it that could still have been eaten.
Balanced ==
  \A i \in Items :
    state[i] \in {"stocked", "emptied"} /\ i \notin lost =>
      Missing(i) <= Tolerance /\ -Missing(i) <= Tolerance

\* Do no two handlers work on one row at the same time?
OneAtATime == \A r, s \in Working : req[r].item = req[s].item => r = s

\* Then none overlooks what another has written.
NothingOverlooked == lost = {} /\ \A r \in Working : req[r].stale = {}

\* Freezing and thawing keep the place and the date of an item together,
\* whatever else is written to it meanwhile: a date outside the freezer is one a
\* client has set, or left by two handlers that moved the item at once, each
\* writing only the columns that seemed to change.
FrozenIsExplained ==
  \A i \in Stocked : row[i].dated /\ ~row[i].freezer => i \in torn

\* Whoever uses or moves a row of somebody else sees a prepared food that is
\* shared; it may cease to be shared only while the handler is at work.
GuestsSeeShared ==
  \A r \in Working :
    LET h == req[r]
    IN  h.user # owner[h.item] /\ "shared" \notin h.stale =>
          table[h.item] = "prepared" /\ row[h.item].shared

\* A recipe made from the inventory is refused if it takes more than there is.
NeverNegative == \A i \in Stocked : row[i].qty >= 0
=============================================================================
