------------------------- MODULE GroceryListProofs -------------------------
(***************************************************************************)
(* What GroceryList promises for any number of items, users and handlers   *)
(* at work at the same time.                                               *)
(***************************************************************************)
EXTENDS GroceryList, FiniteSetTheorems, TLAPS

LEMMA InitInvariants == Init => UnitsInv /\ StampInv
  <1> SUFFICES ASSUME Init PROVE UnitsInv /\ StampInv
    OBVIOUS
  <1>1. TypeOK
    <2>1. req \in [Requests -> Handlers \cup {Idle}]
      BY DEF Init
    <2>2. \A r \in Requests : req[r].op # "purchase"
      BY DEF Init, Idle
    <2>3. badStock \in BOOLEAN /\ crossed \in [Requests -> SUBSET Items] /\ torn \in SUBSET Items
      BY DEF Init
    <2>4. state \in [Items -> States] /\ unit \in [Items -> Units]
      BY DEF Init, States, Units
    <2>5. /\ purchased \in [Items -> BOOLEAN]
          /\ by \in [Items -> Users \cup {NoUser}]
          /\ date \in [Items -> Users \cup {NoUser}]
          /\ \A i \in Items : ~purchased[i] /\ by[i] = NoUser /\ date[i] = NoUser
      BY DEF Init
    <2>6. stock \in [Items -> 0..MaxStock]
      BY GroceryAssumption DEF Init
    <2> QED
      BY <2>1, <2>2, <2>3, <2>4, <2>5, <2>6 DEF TypeOK
  <1>2. LoadedExist /\ RestockChecked /\ WritesComplete /\ UnwritesComplete /\ ~badStock
    BY DEF Init, LoadedExist, RestockChecked, WritesComplete, UnwritesComplete, Idle
  <1>3. StampsExplained
    BY DEF Init, StampsExplained, Whole
  <1> QED
    BY <1>1, <1>2, <1>3 DEF UnitsInv, StampInv

\* A handler that is at work is one of the five operations.
LEMMA HandlerShape ==
  ASSUME TypeOK, NEW r \in Requests
  PROVE  /\ req[r] # Idle => req[r] \in Handlers
         /\ req[r].op \in Ops => req[r] \in Handlers
         /\ req[r] = Idle => req[r].op = "none"
  BY DEF TypeOK, Idle, Ops

\* Loading rows starts a handler and touches nothing else.
LEMMA Loading ==
  ASSUME TypeOK, NEW r \in Requests, Begin(r)
  PROVE  /\ UNCHANGED <<row, inventory, history>>
         /\ \E h \in Handlers :
              /\ req' = [req EXCEPT ![r] = h]
              /\ h.items \subseteq Listed
              /\ \A i \in h.restock : /\ h.units[i] = "inventory"
                                     /\ h.op = "purchase" /\ i \in h.items /\ ~purchased[i]
              /\ h.op = "purchase" =>
                   /\ h.user \in Users
                   /\ \A i \in h.items : h.writes[i] = PurchaseWrites(i, h.user)
              /\ h.op = "unpurchase" => \A i \in h.items : h.writes[i] = UnpurchaseWrites(i)
  <1> DEFINE Goal ==
         /\ UNCHANGED <<row, inventory, history>>
         /\ \E h \in Handlers :
              /\ req' = [req EXCEPT ![r] = h]
              /\ h.items \subseteq Listed
              /\ \A i \in h.restock : /\ h.units[i] = "inventory"
                                     /\ h.op = "purchase" /\ i \in h.items /\ ~purchased[i]
              /\ h.op = "purchase" =>
                   /\ h.user \in Users
                   /\ \A i \in h.items : h.writes[i] = PurchaseWrites(i, h.user)
              /\ h.op = "unpurchase" => \A i \in h.items : h.writes[i] = UnpurchaseWrites(i)
  <1>1. \A i \in Items, u \in Users : PurchaseWrites(i, u) \subseteq Columns
    BY DEF PurchaseWrites, Columns
  <1>2. \A i \in Items : UnpurchaseWrites(i) \subseteq Columns
    BY DEF UnpurchaseWrites, Columns
  <1>3. ASSUME NEW u \in Users, NEW S \in SUBSET Items, NEW create \in BOOLEAN,
               LoadPurchase(r, u, S, create)
        PROVE  Goal
    <2> DEFINE h == [op |-> "purchase", user |-> u, items |-> S, restock |-> Restock(S, create),
                     writes |-> [i \in Items |-> IF i \in S THEN PurchaseWrites(i, u) ELSE {}],
                     units |-> [i \in Items |-> IF i \in Restock(S, create) THEN unit[i] ELSE "inventory"]]
    <2>1. /\ Restock(S, create) \in SUBSET Items
          /\ \A i \in Restock(S, create) : i \in S /\ ~purchased[i]
      BY DEF Restock
    <2>2. h \in Handlers
      BY <1>1, <2>1 DEF Handlers, Ops, TypeOK, Units
    <2>3. /\ req' = [req EXCEPT ![r] = h] /\ h.items \subseteq Listed
          /\ UNCHANGED <<row, inventory, history>>
          /\ \A i \in Restock(S, create) : unit[i] = "inventory"
      BY <1>3 DEF LoadPurchase, Load
    <2> QED
      BY <2>1, <2>2, <2>3
  <1>4. ASSUME NEW i \in Items, LoadUnpurchase(r, i) PROVE Goal
    <2> DEFINE h == [op |-> "unpurchase", user |-> NoUser, items |-> {i}, restock |-> {},
                     writes |-> [j \in Items |-> IF j \in {i} THEN UnpurchaseWrites(j) ELSE {}],
                     units |-> [j \in Items |-> IF j \in {} THEN unit[j] ELSE "inventory"]]
    <2>1. h \in Handlers
      BY <1>2 DEF Handlers, Ops, TypeOK, Units
    <2>2. /\ req' = [req EXCEPT ![r] = h] /\ h.items \subseteq Listed
          /\ UNCHANGED <<row, inventory, history>>
      BY <1>4 DEF LoadUnpurchase, Load
    <2> QED
      BY <2>1, <2>2
  <1>5. ASSUME NEW i \in Items, LoadUpdate(r, i) PROVE Goal
    <2> DEFINE h == [op |-> "update", user |-> NoUser, items |-> {i}, restock |-> {},
                     writes |-> [j \in Items |-> IF j \in {i} THEN (IF unit[j] = "free" THEN {"unit"} ELSE {}) ELSE {}],
                     units |-> [j \in Items |-> IF j \in {} THEN unit[j] ELSE "inventory"]]
    <2>1. h \in Handlers
      BY <1>2 DEF Handlers, Ops, TypeOK, Units, Columns
    <2>2. /\ req' = [req EXCEPT ![r] = h] /\ h.items \subseteq Listed
          /\ UNCHANGED <<row, inventory, history>>
      BY <1>5 DEF LoadUpdate, Load
    <2> QED
      BY <2>1, <2>2
  <1>6. ASSUME NEW i \in Items, LoadDelete(r, i) PROVE Goal
    <2> DEFINE h == [op |-> "delete", user |-> NoUser, items |-> {i}, restock |-> {},
                     writes |-> [j \in Items |-> IF j \in {i} THEN {} ELSE {}],
                     units |-> [j \in Items |-> IF j \in {} THEN unit[j] ELSE "inventory"]]
    <2>1. h \in Handlers
      BY <1>2 DEF Handlers, Ops, TypeOK, Units, Columns
    <2>2. /\ req' = [req EXCEPT ![r] = h] /\ h.items \subseteq Listed
          /\ UNCHANGED <<row, inventory, history>>
      BY <1>6 DEF LoadDelete, Load
    <2> QED
      BY <2>1, <2>2
  <1> QED
    BY <1>3, <1>4, <1>5, <1>6 DEF Begin

\* A commit, or its failure, ends the handler.
LEMMA Ending ==
  ASSUME TypeOK, NEW r \in Requests, End(r)
  PROVE  /\ req[r] \in Handlers
         /\ req' = [req EXCEPT ![r] = Idle]
  <1>1. req[r].op \in Ops \/ req[r] # Idle
    BY DEF End, CommitPurchase, CommitUnpurchase, CommitUpdate, CommitDelete, Abort, Ops
  <1>2. req' = [req EXCEPT ![r] = Idle]
    BY DEF End, CommitPurchase, CommitUnpurchase, CommitUpdate, CommitDelete, Abort,
           EndBuying, EndOther
  <1> QED
    BY <1>1, <1>2, HandlerShape

\* What a handler has prepared it keeps until it ends: a handler at work after a
\* step was at work before, unchanged, unless the step was its loading.
LEMMA HandlersKeep ==
  ASSUME TypeOK, [Next]_vars, NEW r \in Requests, req'[r] # Idle
  PROVE  req'[r] = req[r] \/ Begin(r)
  <1>1. ASSUME NEW q \in Requests, Begin(q), q # r
        PROVE  req'[r] = req[r]
    <2>1. PICK h \in Handlers : req' = [req EXCEPT ![q] = h]
      BY <1>1, Loading
    <2> QED
      BY <1>1, <2>1 DEF TypeOK
  <1>2. ASSUME NEW q \in Requests, End(q) PROVE req'[r] = req[r]
    BY <1>2, Ending DEF TypeOK
  <1>3. ASSUME NEW i \in Items, Create(i) PROVE req'[r] = req[r]
    BY <1>3 DEF Create
  <1>4. CASE UNCHANGED vars
    BY <1>4 DEF vars
  <1> QED
    BY <1>1, <1>2, <1>3, <1>4 DEF Next

\* A commit that is not refused writes rows that are there.
LEMMA WrittenListed ==
  ASSUME NEW h \in Handlers, ~StaleData(h), NEW c \in Columns, NEW i \in Written(h, c)
  PROVE  i \in Items /\ state[i] = "listed"
  BY DEF StaleData, Written, Handlers

\* Every step keeps the types.
LEMMA TypeStep == TypeOK /\ LoadedExist /\ [Next]_vars => TypeOK'
  <1> SUFFICES ASSUME TypeOK, LoadedExist, [Next]_vars PROVE TypeOK'
    OBVIOUS
  <1> DEFINE GoneClear == \A i \in Items : state[i] # "listed" =>
                            ~purchased[i] /\ by[i] = NoUser /\ date[i] = NoUser
             BuyersNamed == \A r \in Requests : req[r].op = "purchase" => req[r].user \in Users
  <1>1. ASSUME NEW i \in Items, Create(i) PROVE TypeOK'
    <2>1. state' \in [Items -> States]
      BY <1>1 DEF Create, TypeOK, States
    <2>2. unit' \in [Items -> Units]
      BY <1>1 DEF Create, TypeOK
    <2>3. GoneClear'
      BY <1>1 DEF Create, TypeOK
    <2> QED
      BY <1>1, <2>1, <2>2, <2>3 DEF Create, TypeOK, inventory, history
  <1>2. ASSUME NEW r \in Requests, Begin(r) PROVE TypeOK'
    <2>1. PICK h \in Handlers : /\ req' = [req EXCEPT ![r] = h]
                                /\ h.op = "purchase" => h.user \in Users
      BY <1>2, Loading
    <2>2. UNCHANGED <<row, inventory, history>>
      BY <1>2, Loading
    <2>3. req' \in [Requests -> Handlers \cup {Idle}] /\ BuyersNamed'
      BY <2>1 DEF TypeOK
    <2> QED
      BY <2>2, <2>3 DEF TypeOK, row, inventory, history
  <1>3. ASSUME NEW r \in Requests, End(r) PROVE TypeOK'
    <2>1. req' \in [Requests -> Handlers \cup {Idle}] /\ BuyersNamed'
      BY <1>3, Ending DEF TypeOK, Idle
    <2>2. req[r] \in Handlers /\ req[r].user \in Users \cup {NoUser} /\ req[r].items \subseteq Items
      BY <1>3, Ending DEF Handlers
    <2>3. CASE CommitPurchase(r)
      <3>1. /\ purchased' \in [Items -> BOOLEAN]
            /\ UNCHANGED <<state, unit>>
        BY <2>3 DEF CommitPurchase, PurchaseRows, TypeOK
      <3>2. by' \in [Items -> Users \cup {NoUser}] /\ date' \in [Items -> Users \cup {NoUser}]
        BY <2>2, <2>3 DEF CommitPurchase, PurchaseRows, TypeOK
      <3>3. stock' \in [Items -> 0..MaxStock]
        BY <2>3, GroceryAssumption DEF CommitPurchase, PurchaseRows, TypeOK
      <3>4. badStock' \in BOOLEAN
        BY <2>3, Zenon DEF CommitPurchase, PurchaseRows, TypeOK
      <3>5. crossed' \in [Requests -> SUBSET Items] /\ torn' \in SUBSET Items
        BY <2>2, <2>3 DEF CommitPurchase, EndBuying, TypeOK
      <3>6. GoneClear'
        <4>1. \A c \in Columns : \A i \in Written(req[r], c) : state[i] = "listed"
          BY <2>2, <2>3, WrittenListed DEF CommitPurchase, PurchaseRows
        <4> QED
          BY <2>3, <4>1 DEF CommitPurchase, PurchaseRows, TypeOK, Columns
      <3> QED
        BY <2>1, <3>1, <3>2, <3>3, <3>4, <3>5, <3>6 DEF TypeOK
    <2>4. CASE CommitUnpurchase(r)
      <3>1. purchased' \in [Items -> BOOLEAN]
        BY <2>4 DEF CommitUnpurchase, TypeOK
      <3>2. by' \in [Items -> Users \cup {NoUser}] /\ date' \in [Items -> Users \cup {NoUser}]
        BY <2>4 DEF CommitUnpurchase, TypeOK
      <3>3. stock' \in [Items -> 0..MaxStock]
        BY <2>4, GroceryAssumption DEF CommitUnpurchase, TypeOK
      <3>4. crossed' \in [Requests -> SUBSET Items] /\ torn' \in SUBSET Items
        BY <2>2, <2>4 DEF CommitUnpurchase, EndBuying, TypeOK
      <3>5. GoneClear'
        BY <2>4 DEF CommitUnpurchase, TypeOK
      <3> QED
        BY <2>1, <2>4, <3>1, <3>2, <3>3, <3>4, <3>5 DEF CommitUnpurchase, TypeOK
    <2>5. CASE CommitUpdate(r)
      <3>1. unit' \in [Items -> Units]
        BY <2>5 DEF CommitUpdate, TypeOK, Units
      <3>2. crossed' \in [Requests -> SUBSET Items] /\ torn' = torn
        BY <2>5 DEF CommitUpdate, EndOther, TypeOK
      <3> QED
        BY <2>1, <2>5, <3>1, <3>2 DEF CommitUpdate, TypeOK, inventory
    <2>6. CASE CommitDelete(r)
      <3>1. state' \in [Items -> States] /\ unit' \in [Items -> Units]
        BY <2>6 DEF CommitDelete, TypeOK, States, Units
      <3>2. /\ purchased' \in [Items -> BOOLEAN]
            /\ by' \in [Items -> Users \cup {NoUser}] /\ date' \in [Items -> Users \cup {NoUser}]
        BY <2>6 DEF CommitDelete, TypeOK
      <3>3. stock' \in [Items -> 0..MaxStock] /\ badStock' = badStock
        BY <2>6, GroceryAssumption DEF CommitDelete, TypeOK
      <3>4. crossed' \in [Requests -> SUBSET Items] /\ torn' \in SUBSET Items
        BY <2>6 DEF CommitDelete, TypeOK
      <3>5. GoneClear'
        BY <2>6 DEF CommitDelete, TypeOK
      <3> QED
        BY <2>1, <2>6, <3>1, <3>2, <3>3, <3>4, <3>5 DEF TypeOK
    <2>7. CASE Abort(r)
      <3>1. crossed' \in [Requests -> SUBSET Items] /\ torn' = torn
        BY <2>7 DEF Abort, EndOther, TypeOK
      <3> QED
        BY <2>1, <2>7, <3>1 DEF Abort, TypeOK, row, inventory
    <2> QED
      BY <1>3, <2>3, <2>4, <2>5, <2>6, <2>7 DEF End
  <1>4. CASE UNCHANGED vars
    BY <1>4 DEF vars, row, inventory, history, TypeOK
  <1> QED
    BY <1>1, <1>2, <1>3, <1>4 DEF Next

\* A row never becomes absent again.
LEMMA RowsStay ==
  ASSUME TypeOK, [Next]_vars, NEW i \in Items, state[i] # "absent"
  PROVE  state'[i] # "absent"
  <1>1. ASSUME NEW j \in Items, Create(j) PROVE state'[i] # "absent"
    BY <1>1 DEF Create, TypeOK
  <1>2. ASSUME NEW r \in Requests, Begin(r) PROVE state' = state
    BY <1>2, Loading DEF row
  <1>3. ASSUME NEW r \in Requests, End(r) PROVE state'[i] # "absent"
    BY <1>3 DEF End, CommitPurchase, PurchaseRows, CommitUnpurchase, CommitUpdate,
                CommitDelete, Abort, row
  <1>4. CASE UNCHANGED vars
    BY <1>4 DEF vars, row
  <1> QED
    BY <1>1, <1>2, <1>3, <1>4 DEF Next

\* The rows of a handler exist, or did.
LEMMA LoadedStep == TypeOK /\ LoadedExist /\ [Next]_vars => LoadedExist'
  <1> SUFFICES ASSUME TypeOK, LoadedExist, [Next]_vars, NEW r \in Requests,
                      req'[r] # Idle, NEW i \in req'[r].items
               PROVE  state'[i] # "absent"
    BY DEF LoadedExist
  <1>1. CASE req'[r] = req[r]
    <2>1. i \in Items /\ state[i] # "absent"
      BY <1>1, HandlerShape DEF LoadedExist, Handlers
    <2> QED
      BY <2>1, RowsStay
  <1>2. ASSUME Begin(r) PROVE state'[i] # "absent"
    <2>1. PICK h \in Handlers : req' = [req EXCEPT ![r] = h] /\ h.items \subseteq Listed
      BY <1>2, Loading
    <2>2. i \in Items /\ state[i] = "listed"
      BY <2>1 DEF TypeOK, Listed
    <2> QED
      BY <2>2, RowsStay
  <1> QED
    BY <1>1, <1>2, HandlersKeep

\* What is to be stocked has been checked.
LEMMA RestockStep == TypeOK /\ RestockChecked /\ [Next]_vars => RestockChecked'
  <1> SUFFICES ASSUME TypeOK, RestockChecked, [Next]_vars, NEW r \in Requests,
                      req'[r] # Idle, NEW i \in req'[r].restock
               PROVE  req'[r].units[i] = "inventory"
    BY DEF RestockChecked
  <1>1. CASE req'[r] = req[r]
    BY <1>1 DEF RestockChecked
  <1>2. ASSUME Begin(r) PROVE req'[r].units[i] = "inventory"
    <2>1. PICK h \in Handlers : /\ req' = [req EXCEPT ![r] = h]
                                /\ \A j \in h.restock : h.units[j] = "inventory"
      BY <1>2, Loading
    <2> QED
      BY <2>1 DEF TypeOK
  <1> QED
    BY <1>1, <1>2, HandlersKeep

\* A commit stocks with the units that were checked.
LEMMA StockStep == TypeOK /\ RestockChecked /\ ~badStock /\ [Next]_vars => ~badStock'
  <1> SUFFICES ASSUME TypeOK, RestockChecked, ~badStock, [Next]_vars PROVE ~badStock'
    OBVIOUS
  <1>1. ASSUME NEW r \in Requests, CommitPurchase(r) PROVE ~badStock'
    <2>1. \A i \in req[r].restock : req[r].units[i] = "inventory"
      BY <1>1 DEF CommitPurchase, RestockChecked, Idle
    <2> QED
      BY <1>1, <2>1 DEF CommitPurchase, PurchaseRows
  <1>2. ASSUME NEW r \in Requests, Begin(r) PROVE badStock' = badStock
    BY <1>2, Loading DEF inventory
  <1>3. CASE UNCHANGED badStock
    BY <1>3
  <1> QED
    BY <1>1, <1>2, <1>3 DEF Next, End, vars, inventory, Create, CommitUnpurchase,
                            CommitUpdate, CommitDelete, Abort

LEMMA UnitsInductive == UnitsInv /\ [Next]_vars => UnitsInv'
  BY TypeStep, LoadedStep, RestockStep, StockStep DEF UnitsInv

-----------------------------------------------------------------------------

\* Type correctness of the list, the inventory and the handlers.
THEOREM TypeCorrect == Spec => []TypeOK
  <1>1. Init => UnitsInv
    BY InitInvariants
  <1>2. UnitsInv => TypeOK
    BY DEF UnitsInv
  <1> QED
    BY <1>1, <1>2, UnitsInductive, PTL DEF Spec

\* bulk_purchase never makes an inventory item with a unit the inventory does not
\* know, however updates of the list interleave with its check and its commit.
THEOREM UnitsTheorem == Spec => []InventoryUnits
  <1>1. Init => UnitsInv
    BY InitInvariants
  <1>2. UnitsInv => InventoryUnits
    BY DEF UnitsInv, InventoryUnits
  <1> QED
    BY <1>1, <1>2, UnitsInductive, PTL DEF Spec

-----------------------------------------------------------------------------
(* What is stocked, and what is left alone.                                *)

\* Every set of handlers is finite and no larger than the pool.
LEMMA Pool ==
  ASSUME NEW S, S \subseteq Requests
  PROVE  /\ IsFiniteSet(S)
         /\ Cardinality(S) \in Nat
         /\ Cardinality(S) <= Cardinality(Requests)
         /\ Cardinality(Requests) \in Nat
  <1>1. IsFiniteSet(S) /\ Cardinality(S) <= Cardinality(Requests)
    BY GroceryAssumption, FS_Subset
  <1> QED
    BY <1>1, GroceryAssumption, FS_CardinalityType

\* A set of handlers that lost one of them counts one less, at least.
LEMMA OneLess ==
  ASSUME NEW S, S \subseteq Requests, NEW r \in S, NEW T, T \subseteq S \ {r}
  PROVE  Cardinality(T) + 1 <= Cardinality(S)
  <1>1. IsFiniteSet(S) /\ Cardinality(S) \in Nat /\ Cardinality(T) \in Nat
    BY Pool
  <1>2. IsFiniteSet(S \ {r}) /\ Cardinality(S \ {r}) = Cardinality(S) - 1
    BY <1>1, FS_RemoveElement
  <1>3. Cardinality(T) <= Cardinality(S \ {r})
    BY <1>2, FS_Subset
  <1> QED
    BY <1>1, <1>2, <1>3

\* What a batch will stock it has loaded as not purchased, so that its commit
\* marks it.
LEMMA MarksStep == TypeOK /\ RestockMarks /\ [Next]_vars => RestockMarks'
  <1> SUFFICES ASSUME TypeOK, RestockMarks, [Next]_vars, NEW r \in Requests,
                      req'[r] # Idle, NEW i \in req'[r].restock
               PROVE  i \in req'[r].items /\ "purchased" \in req'[r].writes[i]
    BY DEF RestockMarks
  <1>1. CASE req'[r] = req[r]
    BY <1>1 DEF RestockMarks
  <1>2. ASSUME Begin(r)
        PROVE  i \in req'[r].items /\ "purchased" \in req'[r].writes[i]
    <2>1. PICK h \in Handlers :
            /\ req' = [req EXCEPT ![r] = h]
            /\ \A j \in h.restock : h.op = "purchase" /\ j \in h.items /\ ~purchased[j]
            /\ h.op = "purchase" => \A j \in h.items : h.writes[j] = PurchaseWrites(j, h.user)
      BY <1>2, Loading
    <2>2. req'[r] = h
      BY <2>1 DEF TypeOK
    <2> QED
      BY <2>1, <2>2 DEF PurchaseWrites
  <1> QED
    BY <1>1, <1>2, HandlersKeep

\* Only a commit changes what is stocked of a row: a purchase adds one for its
\* handler, an unpurchase takes all.
LEMMA StockChange ==
  ASSUME TypeOK, [Next]_vars, NEW i \in Items
  PROVE  \/ stock'[i] = stock[i] /\ (purchased[i] => purchased'[i])
         \/ stock'[i] = 0
         \/ \E r \in Requests : /\ CommitPurchase(r) /\ i \in req[r].restock
                                /\ stock'[i] = stock[i] + 1
  <1> USE DEF TypeOK
  <1>1. ASSUME NEW r \in Requests, CommitPurchase(r), i \in req[r].restock
        PROVE  stock'[i] = stock[i] + 1
    BY <1>1 DEF CommitPurchase, PurchaseRows
  <1>2. ASSUME NEW r \in Requests, CommitPurchase(r), i \notin req[r].restock
        PROVE  stock'[i] = stock[i] /\ (purchased[i] => purchased'[i])
    BY <1>2 DEF CommitPurchase, PurchaseRows
  <1>3. ASSUME NEW r \in Requests, CommitUnpurchase(r)
        PROVE  \/ stock'[i] = stock[i] /\ (purchased[i] => purchased'[i])
               \/ stock'[i] = 0
    BY <1>3 DEF CommitUnpurchase
  <1>4. ASSUME UNCHANGED <<stock, purchased>>
        PROVE  stock'[i] = stock[i] /\ (purchased[i] => purchased'[i])
    BY <1>4
  <1>5. ASSUME NEW r \in Requests, Begin(r)
        PROVE  UNCHANGED <<stock, purchased>>
    BY <1>5, Loading DEF row, inventory
  <1> QED
    BY <1>1, <1>2, <1>3, <1>4, <1>5
       DEF Next, End, vars, row, inventory, Create, CommitUpdate, CommitDelete, Abort

\* What is stocked is marked as bought.
LEMMA MarkedStep ==
  TypeOK /\ RestockMarks /\ StockedIsMarked /\ [Next]_vars => StockedIsMarked'
  <1> SUFFICES ASSUME TypeOK, RestockMarks, StockedIsMarked, [Next]_vars,
                      NEW i \in Items, stock'[i] > 0
               PROVE  purchased'[i]
    BY DEF StockedIsMarked
  <1>1. CASE stock'[i] = stock[i] /\ (purchased[i] => purchased'[i])
    BY <1>1 DEF StockedIsMarked
  <1>2. ASSUME NEW r \in Requests, CommitPurchase(r), i \in req[r].restock
        PROVE  purchased'[i]
    <2>1. i \in req[r].items /\ "purchased" \in req[r].writes[i]
      BY <1>2 DEF CommitPurchase, RestockMarks, Idle
    <2> QED
      BY <1>2, <2>1 DEF CommitPurchase, PurchaseRows, Written
  <1> QED
    BY <1>1, <1>2, StockChange DEF TypeOK

\* A handler that is about to stock a row was so before, or has just read that
\* the row is not bought.
LEMMA RestockingStep ==
  ASSUME TypeOK, [Next]_vars, NEW i \in Items, NEW r \in Requests,
         r \in Restocking(i)', r \notin Restocking(i)
  PROVE  ~purchased[i] /\ UNCHANGED inventory
  <1>1. req'[r] # Idle /\ i \in req'[r].restock /\ req'[r] # req[r]
    BY DEF Restocking
  <1>2. Begin(r)
    BY <1>1, HandlersKeep
  <1>3. PICK h \in Handlers : /\ req' = [req EXCEPT ![r] = h]
                              /\ \A j \in h.restock : ~purchased[j]
    BY <1>2, Loading
  <1> QED
    BY <1>1, <1>2, <1>3, Loading DEF TypeOK

\* What is stocked of a row and what is about to be stays within the pool.
LEMMA StockedStep ==
  TypeOK /\ StockedIsMarked /\ StockedOrRestocking /\ [Next]_vars => StockedOrRestocking'
  <1> SUFFICES ASSUME TypeOK, StockedIsMarked, StockedOrRestocking, [Next]_vars,
                      NEW i \in Items
               PROVE  stock'[i] + Cardinality(Restocking(i)') <= Cardinality(Requests)
    BY DEF StockedOrRestocking
  <1>1. /\ stock[i] \in Nat
        /\ stock[i] + Cardinality(Restocking(i)) <= Cardinality(Requests)
    BY DEF StockedOrRestocking, TypeOK
  <1>2. Restocking(i) \subseteq Requests /\ Restocking(i)' \subseteq Requests
    BY DEF Restocking
  <1>3. /\ Cardinality(Restocking(i)) \in Nat /\ Cardinality(Restocking(i)') \in Nat
        /\ Cardinality(Restocking(i)') <= Cardinality(Requests)
        /\ Cardinality(Requests) \in Nat
    BY <1>2, Pool
  <1>4. CASE stock'[i] = 0
    BY <1>3, <1>4
  <1>5. ASSUME NEW r \in Requests, r \in Restocking(i)', r \notin Restocking(i)
        PROVE  stock'[i] = 0
    <2>1. ~purchased[i] /\ stock'[i] = stock[i]
      BY <1>5, RestockingStep DEF inventory
    <2>2. ~(stock[i] > 0)
      BY <2>1 DEF StockedIsMarked
    <2> QED
      BY <1>1, <2>1, <2>2
  <1>6. CASE Restocking(i)' \subseteq Restocking(i) /\ stock'[i] = stock[i]
    <2>1. Cardinality(Restocking(i)') <= Cardinality(Restocking(i))
      BY <1>2, <1>6, Pool, FS_Subset
    <2> QED
      BY <1>1, <1>3, <1>6, <2>1
  <1>7. ASSUME NEW r \in Requests, CommitPurchase(r), i \in req[r].restock,
               stock'[i] = stock[i] + 1, Restocking(i)' \subseteq Restocking(i)
        PROVE  stock'[i] + Cardinality(Restocking(i)') <= Cardinality(Requests)
    <2>1. r \in Restocking(i)
      BY <1>7 DEF CommitPurchase, Restocking, Idle
    <2>2. r \notin Restocking(i)'
      BY <1>7, Ending DEF End, Restocking, TypeOK
    <2>3. Cardinality(Restocking(i)') + 1 <= Cardinality(Restocking(i))
      BY <1>2, <1>7, <2>1, <2>2, OneLess
    <2> QED
      BY <1>1, <1>3, <1>7, <2>3
  <1> QED
    BY <1>2, <1>4, <1>5, <1>6, <1>7, StockChange

LEMMA StockInductive == StockInv /\ [Next]_vars => StockInv'
  BY TypeStep, LoadedStep, MarksStep, MarkedStep, StockedStep DEF StockInv

LEMMA InitStock == Init => StockInv
  <1> SUFFICES ASSUME Init PROVE StockInv
    OBVIOUS
  <1>1. TypeOK /\ LoadedExist
    BY InitInvariants DEF UnitsInv
  <1>2. RestockMarks
    BY DEF Init, RestockMarks
  <1>3. StockedIsMarked
    BY DEF Init, StockedIsMarked
  <1>4. StockedOrRestocking
    <2> SUFFICES ASSUME NEW i \in Items
                 PROVE  stock[i] + Cardinality(Restocking(i)) <= Cardinality(Requests)
      BY DEF StockedOrRestocking
    <2>1. stock[i] = 0 /\ Restocking(i) \subseteq Requests
      BY DEF Init, Restocking
    <2> QED
      BY <2>1, Pool
  <1> QED
    BY <1>1, <1>2, <1>3, <1>4 DEF StockInv

\* Buying a row stocks the inventory at most once for each handler that can be
\* at work, whatever else happens to the row until it is unpurchased: bulk_purchase
\* asks was_already_purchased of what it has loaded, so only batches that
\* overlap stock the same row twice.
THEOREM StockedTheorem == Spec => []StockedPerOverlap
  <1>1. StockInv => StockedPerOverlap
    <2> SUFFICES ASSUME StockInv, NEW i \in Items
                 PROVE  stock[i] <= Cardinality(Requests)
      BY DEF StockedPerOverlap
    <2>1. stock[i] \in Nat /\ stock[i] + Cardinality(Restocking(i)) <= Cardinality(Requests)
      BY DEF StockInv, TypeOK, StockedOrRestocking
    <2>2. Restocking(i) \subseteq Requests
      BY DEF Restocking
    <2> QED
      BY <2>1, <2>2, Pool
  <1> QED
    BY <1>1, InitStock, StockInductive, PTL DEF Spec

\* For an item that has been deleted nothing happens any more, whichever
\* handlers had loaded it: a commit that would write the row is refused
\* (StaleDataError), and with it the inventory items of its transaction.
THEOREM DeletedTheorem == Spec => NothingForDeleted
  <1> DEFINE Kept(i) ==
        /\ state'[i] = "deleted"
        /\ purchased'[i] = purchased[i] /\ by'[i] = by[i] /\ date'[i] = date[i]
        /\ stock'[i] = stock[i]
  <1>1. StockInv /\ [Next]_vars => \A i \in Items : state[i] = "deleted" => Kept(i)
    <2> SUFFICES ASSUME StockInv, [Next]_vars, NEW i \in Items, state[i] = "deleted"
                 PROVE  Kept(i)
      OBVIOUS
    <2> USE DEF StockInv
    <2>1. ASSUME NEW j \in Items, Create(j) PROVE Kept(i)
      BY <2>1 DEF Create, inventory, TypeOK
    <2>2. ASSUME NEW r \in Requests, Begin(r) PROVE Kept(i)
      BY <2>2, Loading DEF row, inventory
    <2>3. ASSUME NEW r \in Requests, ~StaleData(req[r]), NEW c \in Columns
          PROVE  i \notin Written(req[r], c)
      BY <2>3 DEF StaleData, Written
    <2>4. ASSUME NEW r \in Requests, CommitPurchase(r) PROVE Kept(i)
      <3>1. req[r] # Idle /\ ~StaleData(req[r])
        BY <2>4 DEF CommitPurchase, PurchaseRows, Idle
      <3>2. \A c \in Columns : i \notin Written(req[r], c)
        BY <2>3, <3>1
      <3>3. i \notin req[r].restock
        BY <3>1, <3>2 DEF RestockMarks, Written, Columns
      <3> QED
        BY <2>4, <3>2, <3>3 DEF CommitPurchase, PurchaseRows, Columns, TypeOK
    <2>5. ASSUME NEW r \in Requests, CommitUnpurchase(r) PROVE Kept(i)
      <3>1. \A c \in Columns : i \notin Written(req[r], c)
        BY <2>3, <2>5 DEF CommitUnpurchase
      <3> QED
        BY <2>5, <3>1 DEF CommitUnpurchase, Columns, TypeOK
    <2>6. ASSUME NEW r \in Requests, CommitUpdate(r) PROVE Kept(i)
      BY <2>6 DEF CommitUpdate, inventory
    <2>7. ASSUME NEW r \in Requests, CommitDelete(r) PROVE Kept(i)
      <3>1. ~purchased[i] /\ by[i] = NoUser /\ date[i] = NoUser /\ stock[i] = 0
        BY DEF TypeOK, StockedIsMarked
      <3> QED
        BY <2>7, <3>1 DEF CommitDelete, TypeOK
    <2>8. CASE UNCHANGED <<row, inventory>>
      BY <2>8 DEF row, inventory
    <2> QED
      BY <2>1, <2>2, <2>4, <2>5, <2>6, <2>7, <2>8 DEF Next, End, Abort, vars
  <1> QED
    BY <1>1, InitStock, StockInductive, PTL DEF Spec, NothingForDeleted

\* A batch writes the date of each of its rows.
LEMMA DatesStep == TypeOK /\ BulkDates /\ [Next]_vars => BulkDates'
  <1> SUFFICES ASSUME TypeOK, BulkDates, [Next]_vars, NEW r \in Requests,
                      req'[r].op = "purchase", NEW i \in req'[r].items
               PROVE  "date" \in req'[r].writes[i]
    BY DEF BulkDates
  <1>0. req'[r] # Idle
    BY DEF Idle
  <1>1. CASE req'[r] = req[r]
    BY <1>1 DEF BulkDates
  <1>2. ASSUME Begin(r) PROVE "date" \in req'[r].writes[i]
    <2>1. PICK h \in Handlers :
            /\ req' = [req EXCEPT ![r] = h]
            /\ h.op = "purchase" => \A j \in h.items : h.writes[j] = PurchaseWrites(j, h.user)
      BY <1>2, Loading
    <2>2. req'[r] = h
      BY <2>1 DEF TypeOK
    <2> QED
      BY <2>1, <2>2 DEF PurchaseWrites
  <1> QED
    BY <1>0, <1>1, <1>2, HandlersKeep

\* bulk_purchase is all or nothing, whatever the household does to its rows
\* between its load and its commit: one row that is gone refuses them all, and
\* otherwise every row carries the date it wrote.
THEOREM BulkTheorem == Spec => BulkIsAtomic
  <1> DEFINE All(r) == \A i \in req[r].items : state[i] = "listed" /\ date'[i] = req[r].user
  <1>1. TypeOK /\ BulkDates /\ [Next]_vars =>
          \A r \in Requests : req[r].op = "purchase" /\ req'[r] = Idle =>
            \/ UNCHANGED <<row, inventory>>
            \/ \A i \in req[r].items : state[i] = "listed" /\ date'[i] = req[r].user
    <2> SUFFICES ASSUME TypeOK, BulkDates, [Next]_vars, NEW r \in Requests,
                        req[r].op = "purchase", req'[r] = Idle
                 PROVE  UNCHANGED <<row, inventory>> \/ All(r)
      OBVIOUS
    <2>1. req'[r] # req[r]
      BY DEF Idle
    <2>2. ASSUME NEW q \in Requests, Begin(q)
          PROVE  UNCHANGED <<row, inventory>>
      BY <2>2, Loading
    <2>3. ASSUME NEW q \in Requests, End(q) PROVE UNCHANGED <<row, inventory>> \/ All(r)
      <3>1. q = r
        BY <2>1, <2>3, Ending DEF TypeOK
      <3>2. CommitPurchase(r) \/ Abort(r)
        BY <2>3, <3>1 DEF End, CommitUnpurchase, CommitUpdate, CommitDelete
      <3>3. ASSUME CommitPurchase(r) PROVE All(r)
        <4> SUFFICES ASSUME NEW i \in req[r].items
                     PROVE  state[i] = "listed" /\ date'[i] = req[r].user
          OBVIOUS
        <4>1. i \in Items
          BY HandlerShape DEF Handlers, Ops
        <4>2. "date" \in req[r].writes[i]
          BY DEF BulkDates
        <4>3. state[i] = "listed"
          BY <3>3, <4>2 DEF CommitPurchase, PurchaseRows, StaleData
        <4>4. i \in Written(req[r], "date")
          BY <4>2 DEF Written
        <4> QED
          BY <3>3, <4>1, <4>3, <4>4 DEF CommitPurchase, PurchaseRows
      <3> QED
        BY <3>2, <3>3 DEF Abort
    <2>4. ASSUME NEW i \in Items, Create(i) PROVE FALSE
      BY <2>1, <2>4 DEF Create
    <2>5. ASSUME UNCHANGED vars PROVE FALSE
      BY <2>1, <2>5 DEF vars
    <2> QED
      BY <2>2, <2>3, <2>4, <2>5 DEF Next
  <1>2. Init => BulkDates
    BY DEF Init, BulkDates, Idle
  <1>3. Spec => []BulkDates
    BY <1>2, TypeCorrect, DatesStep, PTL DEF Spec
  <1> QED
    BY <1>1, <1>3, TypeCorrect, PTL DEF Spec, BulkIsAtomic

-----------------------------------------------------------------------------
(* Purchases and unpurchases that cross.                                   *)

\* A handler that goes on working has been crossed wherever it had been before.
LEMMA UncrossedBefore ==
  ASSUME TypeOK, [Next]_vars, NEW r \in Requests, req'[r] = req[r], req[r] # Idle
  PROVE  crossed[r] \subseteq crossed'[r]
  <1>1. ASSUME NEW q \in Requests, End(q) PROVE crossed[r] \subseteq crossed'[r]
    <2>1. q # r
      BY <1>1, Ending DEF TypeOK
    <2>2. CASE EndBuying(q)
      BY <2>1, <2>2 DEF EndBuying
    <2>3. CASE crossed' = [crossed EXCEPT ![q] = {}]
      BY <2>1, <2>3 DEF TypeOK
    <2> QED
      BY <1>1, <2>2, <2>3 DEF End, CommitPurchase, CommitUnpurchase, CommitUpdate,
                              CommitDelete, Abort, EndOther
  <1>2. ASSUME NEW q \in Requests, Begin(q) PROVE crossed' = crossed
    BY <1>2, Loading DEF history
  <1> QED
    BY <1>1, <1>2 DEF Next, Create, vars, history

\* For a buyer nobody crosses, the columns of a row that stays only fill in; for
\* somebody who returns it, they only empty.
LEMMA ColumnsKeep ==
  ASSUME TypeOK, [Next]_vars, NEW r \in Requests, req'[r] = req[r], req[r] # Idle,
         NEW i \in req[r].items, i \in Items, i \notin crossed'[r]
  PROVE  /\ req[r].op = "purchase" /\ state'[i] = "listed" /\ state[i] # "absent" =>
              /\ state[i] = "listed"
              /\ purchased[i] => purchased'[i]
              /\ by[i] # NoUser => by'[i] # NoUser
         /\ req[r].op = "unpurchase" =>
              /\ ~purchased[i] => ~purchased'[i]
              /\ by[i] = NoUser => by'[i] = NoUser
              /\ date[i] = NoUser => date'[i] = NoUser
  <1> DEFINE Fill == /\ state'[i] = "listed" /\ state[i] # "absent" => state[i] = "listed"
                     /\ state'[i] = "listed" /\ purchased[i] => purchased'[i]
                     /\ state'[i] = "listed" /\ by[i] # NoUser => by'[i] # NoUser
             Empty == /\ ~purchased[i] => ~purchased'[i]
                      /\ by[i] = NoUser => by'[i] = NoUser
                      /\ date[i] = NoUser => date'[i] = NoUser
  <1>0. ASSUME NEW q \in Requests, End(q) PROVE q # r
    BY <1>0, Ending DEF TypeOK
  <1>1. ASSUME NEW q \in Requests, CommitPurchase(q)
        PROVE  Fill /\ (req[r].op = "unpurchase" => Empty)
    <2>1. req[q].user \in Users /\ req[q].op = "purchase"
      BY <1>1 DEF CommitPurchase, TypeOK
    <2>2. Fill
      BY <1>1, <2>1, GroceryAssumption DEF CommitPurchase, PurchaseRows
    <2>3. ASSUME req[r].op = "unpurchase" PROVE i \notin req[q].items
      BY <1>0, <1>1, <2>1, <2>3 DEF End, CommitPurchase, EndBuying, Opposite
    <2> QED
      BY <1>1, <2>2, <2>3 DEF CommitPurchase, PurchaseRows, Written
  <1>2. ASSUME NEW q \in Requests, CommitUnpurchase(q)
        PROVE  Empty /\ (req[r].op = "purchase" => Fill)
    <2>1. req[q].op = "unpurchase"
      BY <1>2 DEF CommitUnpurchase
    <2>2. Empty
      BY <1>2 DEF CommitUnpurchase
    <2>3. ASSUME req[r].op = "purchase" PROVE i \notin req[q].items
      BY <1>0, <1>2, <2>1, <2>3 DEF End, CommitUnpurchase, EndBuying, Opposite
    <2> QED
      BY <1>2, <2>2, <2>3 DEF CommitUnpurchase, Written
  <1>3. ASSUME NEW q \in Requests, CommitDelete(q) PROVE Fill /\ Empty
    BY <1>3 DEF CommitDelete
  <1>4. ASSUME NEW j \in Items, Create(j) PROVE Fill /\ Empty
    BY <1>4 DEF Create, TypeOK
  <1>5. ASSUME NEW q \in Requests, Begin(q) PROVE UNCHANGED <<state, purchased, by, date>>
    BY <1>5, Loading DEF row
  <1>6. CASE UNCHANGED <<state, purchased, by, date>>
    BY <1>6
  <1> QED
    BY <1>1, <1>2, <1>3, <1>4, <1>5, <1>6 DEF Next, End, CommitUpdate, Abort, row, vars

\* What a buyer has just read is what there is.
LEMMA BuyerStarts ==
  ASSUME TypeOK, NEW r \in Requests, Begin(r)
  PROVE  /\ req'[r] \in Handlers
         /\ UNCHANGED <<state, purchased, by, date, crossed>>
         /\ req'[r].op = "purchase" =>
              \A i \in req'[r].items : req'[r].writes[i] = PurchaseWrites(i, req'[r].user)
         /\ req'[r].op = "unpurchase" =>
              \A i \in req'[r].items : req'[r].writes[i] = UnpurchaseWrites(i)
         /\ \A i \in req'[r].restock : req'[r].op = "purchase" /\ ~purchased[i]
         /\ req'[r].op = "purchase" => req'[r].user \in Users
  <1>1. PICK h \in Handlers :
          /\ req' = [req EXCEPT ![r] = h]
          /\ \A i \in h.restock : h.op = "purchase" /\ ~purchased[i]
          /\ h.op = "purchase" =>
               h.user \in Users /\ \A i \in h.items : h.writes[i] = PurchaseWrites(i, h.user)
          /\ h.op = "unpurchase" => \A i \in h.items : h.writes[i] = UnpurchaseWrites(i)
    BY Loading
  <1>2. req'[r] = h
    BY <1>1 DEF TypeOK
  <1>3. UNCHANGED <<state, purchased, by, date, crossed>>
    BY Loading DEF row, history
  <1> QED
    BY <1>1, <1>2, <1>3

\* A column that a purchase nobody crossed will not write holds what it would
\* write there.
LEMMA WritesStep == TypeOK /\ LoadedExist /\ WritesComplete /\ [Next]_vars => WritesComplete'
  <1> SUFFICES ASSUME TypeOK, LoadedExist, WritesComplete, [Next]_vars, NEW r \in Requests,
                      req'[r].op = "purchase", NEW i \in req'[r].items,
                      i \in Items, state'[i] = "listed", i \notin crossed'[r]
               PROVE  /\ "date" \in req'[r].writes[i]
                      /\ "purchased" \in req'[r].writes[i] \/ purchased'[i]
                      /\ "by" \in req'[r].writes[i] \/ by'[i] # NoUser
    BY DEF WritesComplete, Listed
  <1>0. req'[r] # Idle
    BY DEF Idle
  <1>1. CASE req'[r] = req[r]
    <2>1. i \notin crossed[r]
      BY <1>0, <1>1, UncrossedBefore
    <2>2. state[i] # "absent"
      BY <1>0, <1>1 DEF LoadedExist
    <2>3. /\ state[i] = "listed"
          /\ purchased[i] => purchased'[i]
          /\ by[i] # NoUser => by'[i] # NoUser
      BY <1>0, <1>1, <2>2, ColumnsKeep
    <2> QED
      BY <1>1, <2>1, <2>3 DEF WritesComplete, Listed
  <1>2. ASSUME Begin(r)
        PROVE  /\ "date" \in req'[r].writes[i]
               /\ "purchased" \in req'[r].writes[i] \/ purchased'[i]
               /\ "by" \in req'[r].writes[i] \/ by'[i] # NoUser
    BY <1>2, BuyerStarts, GroceryAssumption DEF PurchaseWrites
  <1> QED
    BY <1>0, <1>1, <1>2, HandlersKeep

\* A column that an unpurchase nobody crossed will not clear is clear.
LEMMA UnwritesStep == TypeOK /\ UnwritesComplete /\ [Next]_vars => UnwritesComplete'
  <1> SUFFICES ASSUME TypeOK, UnwritesComplete, [Next]_vars, NEW r \in Requests,
                      req'[r].op = "unpurchase", NEW i \in req'[r].items, i \notin crossed'[r]
               PROVE  /\ "purchased" \in req'[r].writes[i] \/ ~purchased'[i]
                      /\ "by" \in req'[r].writes[i] \/ by'[i] = NoUser
                      /\ "date" \in req'[r].writes[i] \/ date'[i] = NoUser
    BY DEF UnwritesComplete
  <1>0. req'[r] # Idle
    BY DEF Idle
  <1>1. CASE req'[r] = req[r]
    <2>1. i \notin crossed[r]
      BY <1>0, <1>1, UncrossedBefore
    <2>2. i \in Items
      BY <1>0, <1>1, HandlerShape DEF Handlers
    <2>3. /\ ~purchased[i] => ~purchased'[i]
          /\ by[i] = NoUser => by'[i] = NoUser
          /\ date[i] = NoUser => date'[i] = NoUser
      BY <1>0, <1>1, <2>2, ColumnsKeep
    <2> QED
      BY <1>1, <2>1, <2>3 DEF UnwritesComplete
  <1>2. ASSUME Begin(r)
        PROVE  /\ "purchased" \in req'[r].writes[i] \/ ~purchased'[i]
               /\ "by" \in req'[r].writes[i] \/ by'[i] = NoUser
               /\ "date" \in req'[r].writes[i] \/ date'[i] = NoUser
    BY <1>2, BuyerStarts DEF UnpurchaseWrites
  <1> QED
    BY <1>0, <1>1, <1>2, HandlersKeep

\* A purchase completes the stamp of every row on which nobody crossed it, and
\* leaves the other rows alone.
LEMMA PurchaseStamps ==
  ASSUME TypeOK, WritesComplete, StampsExplained,
         NEW r \in Requests, CommitPurchase(r), NEW i \in Items \ torn'
  PROVE  Whole(i)'
  <1>1. /\ req[r] \in Handlers /\ req[r].user \in Users /\ req[r].user # NoUser
        /\ req[r].op = "purchase"
    BY Ending, GroceryAssumption DEF End, CommitPurchase, TypeOK
  <1>2. torn' = (torn \ req[r].items) \cup crossed[r]
    BY DEF CommitPurchase, EndBuying
  <1>3. CASE i \in req[r].items /\ state[i] = "listed"
    <2>1. /\ "date" \in req[r].writes[i]
          /\ "purchased" \in req[r].writes[i] \/ purchased[i]
          /\ "by" \in req[r].writes[i] \/ by[i] # NoUser
      BY <1>1, <1>2, <1>3 DEF WritesComplete, Listed
    <2>2. purchased'[i]
      BY <1>3, <2>1 DEF CommitPurchase, PurchaseRows, Written
    <2>3. by'[i] # NoUser
      BY <1>1, <1>3, <2>1 DEF CommitPurchase, PurchaseRows, Written
    <2>4. date'[i] # NoUser
      BY <1>1, <1>3, <2>1 DEF CommitPurchase, PurchaseRows, Written
    <2> QED
      BY <2>2, <2>3, <2>4 DEF Whole
  <1>4. CASE state[i] # "listed"
    <2>1. \A c \in Columns : i \notin Written(req[r], c)
      BY <1>1, <1>4, WrittenListed DEF CommitPurchase, PurchaseRows
    <2>2. purchased'[i] = purchased[i] /\ by'[i] = by[i] /\ date'[i] = date[i]
      BY <2>1 DEF CommitPurchase, PurchaseRows, Columns
    <2> QED
      BY <1>4, <2>2 DEF TypeOK, Whole
  <1>5. CASE i \notin req[r].items
    <2>1. purchased'[i] = purchased[i] /\ by'[i] = by[i] /\ date'[i] = date[i]
      BY <1>5 DEF CommitPurchase, PurchaseRows, Written
    <2>2. i \notin torn
      BY <1>2, <1>5
    <2> QED
      BY <2>1, <2>2 DEF StampsExplained, Whole
  <1> QED
    BY <1>3, <1>4, <1>5

\* An unpurchase clears the stamp of its row, unless it was crossed.
LEMMA UnpurchaseStamps ==
  ASSUME TypeOK, UnwritesComplete, StampsExplained,
         NEW r \in Requests, CommitUnpurchase(r), NEW i \in Items \ torn'
  PROVE  Whole(i)'
  <1>1. /\ purchased' = [j \in Items |-> IF j \in Written(req[r], "purchased") THEN FALSE ELSE purchased[j]]
        /\ by' = [j \in Items |-> IF j \in Written(req[r], "by") THEN NoUser ELSE by[j]]
        /\ date' = [j \in Items |-> IF j \in Written(req[r], "date") THEN NoUser ELSE date[j]]
        /\ req[r].op = "unpurchase"
        /\ torn' = (torn \ req[r].items) \cup crossed[r]
    BY DEF CommitUnpurchase, EndBuying
  <1>2. CASE i \in req[r].items
    <2>1. ~purchased'[i] /\ by'[i] = NoUser /\ date'[i] = NoUser
      BY <1>1, <1>2 DEF UnwritesComplete, Written
    <2> QED
      BY <2>1 DEF Whole
  <1>3. CASE i \notin req[r].items
    <2>1. purchased'[i] = purchased[i] /\ by'[i] = by[i] /\ date'[i] = date[i]
      BY <1>1, <1>3 DEF Written
    <2>2. i \notin torn
      BY <1>1, <1>3
    <2> QED
      BY <2>1, <2>2 DEF StampsExplained, Whole
  <1> QED
    BY <1>2, <1>3

LEMMA StampStep ==
  TypeOK /\ WritesComplete /\ UnwritesComplete /\ StampsExplained /\ [Next]_vars
    => StampsExplained'
  <1> SUFFICES ASSUME TypeOK, WritesComplete, UnwritesComplete, StampsExplained, [Next]_vars,
                      NEW i \in Items \ torn'
               PROVE  Whole(i)'
    BY DEF StampsExplained
  <1>1. ASSUME NEW r \in Requests, CommitPurchase(r) PROVE Whole(i)'
    BY <1>1, PurchaseStamps
  <1>2. ASSUME NEW r \in Requests, CommitUnpurchase(r) PROVE Whole(i)'
    BY <1>2, UnpurchaseStamps
  <1>3. ASSUME NEW r \in Requests, CommitDelete(r) PROVE Whole(i)'
    BY <1>3 DEF CommitDelete, StampsExplained, Whole
  <1>4. CASE UNCHANGED <<purchased, by, date, torn>>
    BY <1>4 DEF StampsExplained, Whole
  <1>5. ASSUME NEW r \in Requests, Begin(r) PROVE UNCHANGED <<purchased, by, date, torn>>
    BY <1>5, Loading DEF row, history
  <1> QED
    BY <1>1, <1>2, <1>3, <1>4, <1>5
       DEF Next, End, vars, row, history, Create, CommitUpdate, Abort, EndOther

LEMMA StampInductive == StampInv /\ [Next]_vars => StampInv'
  BY TypeStep, LoadedStep, WritesStep, UnwritesStep, StampStep DEF StampInv

\* With everything served and any overlap: the three purchase columns of a row
\* disagree only if the last purchase, batch or unpurchase of it was crossed by one
\* of the other direction; the next one that is not crossed puts them right.
THEOREM StampTheorem == Spec => []StampsExplained
  <1>1. Init => StampInv
    BY InitInvariants
  <1>2. StampInv => StampsExplained
    BY DEF StampInv
  <1> QED
    BY <1>1, <1>2, StampInductive, PTL DEF Spec

-----------------------------------------------------------------------------
(* Without overlapping buyers.                                             *)

\* Buyers that stay apart do not cross each other.
LEMMA ApartUncrossed == TypeOK /\ BuyersApart /\ NoneCrossed /\ [Next]_vars => NoneCrossed'
  <1> SUFFICES ASSUME TypeOK, BuyersApart, NoneCrossed, [Next]_vars PROVE NoneCrossed'
    OBVIOUS
  <1>1. ASSUME NEW r \in Requests, EndBuying(r), req[r].op \in Buying PROVE NoneCrossed'
    <2>1. torn' = {}
      BY <1>1 DEF EndBuying, NoneCrossed
    <2>2. ASSUME NEW q \in Requests PROVE crossed'[q] = {}
      <3>1. CASE q # r /\ req[q].op = Opposite(req[r].op)
        BY <1>1, <3>1 DEF EndBuying, NoneCrossed, BuyersApart, Opposite, Buying
      <3>2. CASE q = r \/ req[q].op # Opposite(req[r].op)
        BY <1>1, <3>2 DEF EndBuying, NoneCrossed
      <3> QED
        BY <3>1, <3>2
    <2> QED
      BY <2>1, <2>2 DEF NoneCrossed
  <1>2. ASSUME NEW r \in Requests, EndOther(r) PROVE NoneCrossed'
    BY <1>2 DEF EndOther, NoneCrossed, TypeOK
  <1>3. ASSUME NEW r \in Requests, CommitDelete(r) PROVE NoneCrossed'
    BY <1>3 DEF CommitDelete, NoneCrossed, TypeOK
  <1>4. CASE UNCHANGED history
    BY <1>4 DEF history, NoneCrossed
  <1>5. ASSUME NEW r \in Requests, Begin(r) PROVE UNCHANGED history
    BY <1>5, Loading
  <1> QED
    BY <1>1, <1>2, <1>3, <1>4, <1>5
       DEF Next, End, vars, Create, CommitPurchase, CommitUnpurchase, CommitUpdate, Abort, Buying

\* What a buyer has read as not bought, nobody else buys.
LEMMA UnboughtKept ==
  ASSUME TypeOK, BuyersApart, [Next]_vars, NEW r \in Requests, req[r].op = "purchase",
         req'[r] = req[r], NEW i \in Items, i \in req[r].items, ~purchased[i]
  PROVE  ~purchased'[i]
  <1>0. req[r] # Idle
    BY DEF Idle
  <1>1. ASSUME NEW q \in Requests, CommitPurchase(q) PROVE ~purchased'[i]
    <2>1. q # r
      BY <1>0, <1>1, Ending DEF TypeOK, End
    <2>2. i \notin req[q].items
      BY <1>1, <2>1 DEF BuyersApart, CommitPurchase, Buying
    <2> QED
      BY <1>1, <2>2 DEF CommitPurchase, PurchaseRows, Written
  <1>2. ASSUME NEW q \in Requests, CommitUnpurchase(q) \/ CommitDelete(q) PROVE ~purchased'[i]
    BY <1>2 DEF CommitUnpurchase, CommitDelete
  <1>3. ASSUME NEW q \in Requests, Begin(q) PROVE ~purchased'[i]
    BY <1>3, Loading DEF row
  <1>4. CASE UNCHANGED purchased
    BY <1>4
  <1> QED
    BY <1>1, <1>2, <1>3, <1>4 DEF Next, End, vars, row, Create, CommitUpdate, Abort

\* What a batch will stock stays unbought until it does.
LEMMA UnboughtStep ==
  TypeOK /\ BuyersApart /\ RestockMarks /\ RestockUnbought /\ [Next]_vars => RestockUnbought'
  <1> SUFFICES ASSUME TypeOK, BuyersApart, RestockMarks, RestockUnbought, [Next]_vars,
                      NEW r \in Requests, req'[r] # Idle, NEW i \in req'[r].restock
               PROVE  req'[r].op = "purchase" /\ ~purchased'[i]
    BY DEF RestockUnbought
  <1>1. CASE req'[r] = req[r]
    <2>1. /\ req[r] \in Handlers /\ i \in Items /\ req[r].op = "purchase" /\ ~purchased[i]
          /\ i \in req[r].items
      BY <1>1, HandlerShape DEF Handlers, RestockUnbought, RestockMarks
    <2> QED
      BY <1>1, <2>1, UnboughtKept
  <1>2. ASSUME Begin(r) PROVE req'[r].op = "purchase" /\ ~purchased'[i]
    BY <1>2, BuyerStarts
  <1> QED
    BY <1>1, <1>2, HandlersKeep

LEMMA OnceStep ==
  TypeOK /\ StockedIsMarked /\ RestockUnbought /\ StockedOnce /\ [Next]_vars => StockedOnce'
  <1> SUFFICES ASSUME TypeOK, StockedIsMarked, RestockUnbought, StockedOnce, [Next]_vars,
                      NEW i \in Items
               PROVE  stock'[i] <= 1
    BY DEF StockedOnce
  <1>1. stock[i] \in Nat /\ stock[i] <= 1
    BY DEF TypeOK, StockedOnce
  <1>2. ASSUME NEW r \in Requests, CommitPurchase(r), i \in req[r].restock, stock'[i] = stock[i] + 1
        PROVE  stock'[i] <= 1
    <2>1. ~purchased[i]
      BY <1>2 DEF CommitPurchase, RestockUnbought, Idle
    <2>2. stock[i] = 0
      BY <1>1, <2>1 DEF StockedIsMarked
    <2> QED
      BY <1>2, <2>2
  <1> QED
    BY <1>1, <1>2, StockChange

\* As long as no two members buy or unpurchase one row at the same time, the three
\* purchase columns agree on every row, as the docstrings of mark_purchased and
\* mark_unpurchased say, and a bought row is stocked at most once.
THEOREM BuyersApartTheorem == Spec /\ []BuyersApart => [](StampComplete /\ StockedOnce)
  <1>1. Init => ApartInv
    <2>1. Init => NoneCrossed /\ RestockUnbought /\ StockedOnce
      BY DEF Init, NoneCrossed, RestockUnbought, StockedOnce, Idle
    <2> QED
      BY <2>1, InitStock DEF ApartInv, StockInv
  <1>2. ApartInv /\ BuyersApart /\ [Next]_vars => ApartInv'
    BY TypeStep, LoadedStep, MarksStep, MarkedStep, ApartUncrossed, UnboughtStep, OnceStep
       DEF ApartInv
  <1>3. ApartInv /\ StampsExplained => StampComplete /\ StockedOnce
    BY DEF ApartInv, NoneCrossed, StampsExplained, StampComplete
  <1> QED
    BY <1>1, <1>2, <1>3, StampTheorem, PTL DEF Spec
=============================================================================
