----------------------------- MODULE StockProofs -----------------------------
(***************************************************************************)
(* What Stock promises for any items, members, quantities and threads.     *)
(***************************************************************************)
EXTENDS Stock, TLAPS

\* What is missing of a quantity, given and taken, is at most a rounding error.
Close(n) == n <= Tolerance /\ -n <= Tolerance

\* A consumption of a from q that leaves n: there was something, and what is
\* left is exact, or zero for the sake of the tolerance.
Uses(q, a, n) == q > 0 /\ (n = q - a \/ (n = 0 /\ q < a /\ a <= q + Tolerance))

\* May g, if it is not disturbed, be committed to its row?
Sound(g) ==
  LET i == g.item
  IN  /\ state[i] # "absent"
      /\ state[i] # "stocked" => g.stale = Columns
      /\ g.user # owner[i] /\ "shared" \notin g.stale => table[i] = "prepared" /\ row[i].shared
      /\ g.op \in {"use", "empty", "set", "move"} /\ "dated" \in g.cols /\ table[i] = "prepared" => ~g.new.dated
      /\ g.op = "use" => g.cols = {"qty"}
      /\ g.op = "use" /\ "qty" \notin g.stale => Uses(row[i].qty, g.amount, g.new.qty)
      /\ g.op = "empty" /\ "qty" \notin g.stale => row[i].qty > 0 /\ Close(row[i].qty - g.amount)
      /\ g.op = "set" /\ "qty" \in g.cols => g.new.qty \in Nat
      /\ g.op = "move" => "qty" \notin g.cols /\ "shared" \notin g.cols
      /\ g.op = "move" /\ "freezer" \notin g.stale /\ "dated" \notin g.stale =>
           ((IF "dated" \in g.cols THEN g.new.dated ELSE row[i].dated) =>
              (IF "freezer" \in g.cols THEN g.new.freezer ELSE row[i].freezer))

AllSound == \A r \in Working : Sound(req[r])

\* The quantity of a row and its account.
Accounted(i) ==
  /\ state[i] = "absent" => taken[i] = 0
  /\ state[i] = "stocked" /\ i \notin lost =>
       \/ row[i].qty = given[i] - taken[i]
       \/ row[i].qty = 0 /\ Close(given[i] - taken[i])
  /\ state[i] = "emptied" => row[i].qty = 0
  /\ state[i] = "emptied" /\ i \notin lost => Close(given[i] - taken[i])

\* The place of a row and its date.
Placed(i) ==
  /\ state[i] = "stocked" /\ row[i].dated /\ ~row[i].freezer => i \in torn
  /\ table[i] = "prepared" => ~row[i].dated

StockInv ==
  TypeOK /\ AllSound /\ \A i \in Items : Accounted(i) /\ Placed(i)

LEMMA Numbers ==
  /\ Nat \subseteq Quantities /\ Quantities \subseteq Int
  /\ Tolerance \in Nat /\ Supplies \subseteq Nat
  /\ \A a \in Amounts : a \in Nat /\ a > Tolerance
  BY StockAssumption DEF Quantities

LEMMA NoRowIsRow == NoRow \in Rows
  BY Numbers DEF NoRow, Rows

LEMMA InitInvariants == Init => StockInv
  <1> SUFFICES ASSUME Init PROVE StockInv
    OBVIOUS
  <1>1. TypeOK
    BY NoRowIsRow DEF Init, TypeOK, account
  <1>2. AllSound
    BY DEF Init, AllSound, Working
  <1>3. \A i \in Items : Accounted(i)
    BY DEF Init, Accounted
  <1>4. \A i \in Items : Placed(i)
    BY DEF Init, Placed
  <1> QED
    BY <1>1, <1>2, <1>3, <1>4 DEF StockInv

LEMMA HandlerShape ==
  ASSUME TypeOK, NEW r \in Requests
  PROVE  /\ req[r] # Idle => req[r] \in Handlers
         /\ req[r].op # "none" => req[r] \in Handlers /\ req[r] # Idle
         /\ req[r] = Idle => req[r].op = "none"
  BY DEF TypeOK, Idle

LEMMA HandlerFields ==
  ASSUME NEW g \in Handlers
  PROVE  /\ g.user \in Users /\ g.item \in Items /\ g.cols \subseteq Columns /\ g.new \in Rows
         /\ g.amount \in Nat /\ g.store \subseteq Stores /\ g.stale \subseteq Columns
  BY DEF Handlers

LEMMA Writing ==
  ASSUME NEW h, h.new \in Rows, NEW old \in Rows
  PROVE  /\ Written(h, old) \in Rows
         /\ Written(h, old).qty     = IF "qty"     \in h.cols THEN h.new.qty     ELSE old.qty
         /\ Written(h, old).freezer = IF "freezer" \in h.cols THEN h.new.freezer ELSE old.freezer
         /\ Written(h, old).dated   = IF "dated"   \in h.cols THEN h.new.dated   ELSE old.dated
         /\ Written(h, old).shared  = IF "shared"  \in h.cols THEN h.new.shared  ELSE old.shared
  BY DEF Written, Rows

\* The handler that Load starts.
Loaded(op, u, i, cols, new, amount, store) ==
  [op |-> op, user |-> u, item |-> i, cols |-> cols,
   new |-> Written([cols |-> cols, new |-> new], NoRow),
   amount |-> amount, store |-> store, stale |-> {}]

\* g is loaded with the values of new.
Fresh(g, new) ==
  /\ g = Loaded(g.op, g.user, g.item, g.cols, new, g.amount, g.store)
  /\ g.op \in {"use", "empty", "set", "move", "add", "remove", "delete"}
  /\ g.user \in Users /\ g.item \in Items /\ g.cols \subseteq Columns /\ new \in Rows
  /\ g.amount \in Nat /\ g.store \subseteq Stores

LEMMA FreshIsHandler ==
  ASSUME NEW g, NEW new, Fresh(g, new)
  PROVE  /\ g \in Handlers /\ g.stale = {}
         /\ "qty"     \in g.cols => g.new.qty = new.qty
         /\ "freezer" \in g.cols => g.new.freezer = new.freezer
         /\ "dated"   \in g.cols => g.new.dated = new.dated
  <1> DEFINE h == [cols |-> g.cols, new |-> new]
             n == Written(h, NoRow)
  <1>1. /\ n \in Rows
        /\ "qty"     \in g.cols => n.qty = new.qty
        /\ "freezer" \in g.cols => n.freezer = new.freezer
        /\ "dated"   \in g.cols => n.dated = new.dated
    BY NoRowIsRow, Writing DEF Fresh
  <1>2. g = [op |-> g.op, user |-> g.user, item |-> g.item, cols |-> g.cols, new |-> n,
             amount |-> g.amount, store |-> g.store, stale |-> {}]
    BY DEF Fresh, Loaded
  <1> HIDE DEF n
  <1>3. g.stale = {} /\ g.new = n
    BY <1>2
  <1>4. g \in Handlers
    BY <1>1, <1>2 DEF Fresh, Handlers
  <1> QED
    BY <1>1, <1>3, <1>4

\* Who may use a row, and who owns one.
LEMMA Using ==
  ASSUME NEW u \in Users, NEW i \in Items, MayUse(u, i) \/ Owned(u, i) \/ Accessible(u, i)
  PROVE  /\ state[i] = "stocked"
         /\ u # owner[i] => table[i] = "prepared" /\ row[i].shared
  BY DEF MayUse, Owned, Accessible, Stocked

\* A handler starts soundly, and touches nothing else.
LEMMA Loading ==
  ASSUME TypeOK, \A i \in Items : Placed(i), NEW r \in Requests, Begin(r)
  PROVE  /\ req[r] = Idle
         /\ UNCHANGED <<table, state, owner, row, available, account, torn>>
         /\ \E g \in Handlers : req' = [req EXCEPT ![r] = g] /\ Sound(g)
  <1> DEFINE Starts(g) == /\ req[r] = Idle
                          /\ UNCHANGED <<table, state, owner, row, available, account, torn>>
                          /\ req' = [req EXCEPT ![r] = g]
             Goal == \E g \in Handlers : Starts(g) /\ Sound(g)
  <1>0. ASSUME NEW i \in Items PROVE row[i] \in Rows /\ row[i].qty \in Int
    BY <1>0, Numbers DEF TypeOK, Rows
  <1>1. ASSUME NEW u \in Users, NEW i \in Items, NEW a \in Amounts, NEW d \in BOOLEAN,
               LoadConsume(r, u, i, a, d)
        PROVE  Goal
    <2> DEFINE q == row[i].qty
    <2>1. /\ a \in Nat /\ a > Tolerance /\ Tolerance \in Nat /\ q \in Int /\ a <= q + Tolerance
          /\ state[i] = "stocked" /\ (u # owner[i] => table[i] = "prepared" /\ row[i].shared)
      BY <1>0, <1>1, Numbers, Using DEF LoadConsume, Enough
    <2>2. CASE Empties(q, a) /\ d
      <3> DEFINE g == Loaded("empty", u, i, {}, NoRow, a, {})
      <3>1. Starts(g)
        BY <1>1, <2>2 DEF LoadConsume, Load, Loaded
      <3>2. Fresh(g, NoRow) /\ g.op = "empty" /\ g.user = u /\ g.item = i /\ g.cols = {} /\ g.amount = a
        BY <2>1, NoRowIsRow DEF Loaded, Fresh
      <3>3. q > 0 /\ Close(q - a)
        BY <2>1, <2>2 DEF Empties, Close
      <3> HIDE DEF g
      <3>4. g \in Handlers
        BY <3>2, FreshIsHandler
      <3> HIDE DEF Starts
      <3> QED
        BY <2>1, <3>1, <3>2, <3>3, <3>4 DEF Sound
    <2>3. CASE ~(Empties(q, a) /\ d)
      <3> DEFINE n == Remainder(q, a)
                 new == [NoRow EXCEPT !.qty = n]
                 g == Loaded("use", u, i, {"qty"}, new, a, {})
      <3>1. Starts(g)
        BY <1>1, <2>3 DEF LoadConsume, Load, Loaded
      <3>2. n \in Nat /\ Uses(q, a, n)
        BY <2>1 DEF Remainder, Uses
      <3> HIDE DEF n
      <3>3. new \in Rows /\ new.qty = n
        BY <3>2, Numbers DEF NoRow, Rows
      <3> HIDE DEF new
      <3>4. Fresh(g, new) /\ g.op = "use" /\ g.user = u /\ g.item = i /\ g.cols = {"qty"} /\ g.amount = a
        BY <2>1, <3>3 DEF Loaded, Fresh, Columns
      <3> HIDE DEF g
      <3>5. g \in Handlers /\ g.new.qty = n
        BY <3>3, <3>4, FreshIsHandler
      <3> HIDE DEF Starts
      <3> QED
        BY <2>1, <3>1, <3>2, <3>4, <3>5 DEF Sound
    <2> QED
      BY <2>2, <2>3
  <1>2. ASSUME NEW u \in Users, NEW i \in Items, NEW a \in Amounts, NEW b \in Again, LoadAdHoc(r, u, i, a, b)
        PROVE  Goal
    <2> DEFINE q == row[i].qty
               n == q - a - b
               new == [NoRow EXCEPT !.qty = n]
               g == Loaded("use", u, i, {"qty"}, new, a + b, {})
    <2>1. /\ a \in Nat /\ b \in Nat /\ a > Tolerance /\ Tolerance \in Nat /\ q \in Int /\ a <= q
          /\ state[i] = "stocked" /\ (u # owner[i] => table[i] = "prepared" /\ row[i].shared)
      BY <1>0, <1>2, Numbers, Using, StockAssumption DEF LoadAdHoc
    <2>2. Starts(g)
      BY <1>2 DEF LoadAdHoc, Load, Loaded
    <2>3. n \in Int /\ Uses(q, a + b, n) /\ n \in Quantities /\ a + b \in Nat
      BY <2>1 DEF Uses, Quantities
    <2> HIDE DEF n
    <2>4. new \in Rows /\ new.qty = n
      BY <2>3 DEF NoRow, Rows
    <2> HIDE DEF new
    <2>5. Fresh(g, new) /\ g.op = "use" /\ g.user = u /\ g.item = i /\ g.cols = {"qty"} /\ g.amount = a + b
      BY <2>3, <2>4 DEF Loaded, Fresh, Columns
    <2> HIDE DEF g
    <2>6. g \in Handlers /\ g.new.qty = n
      BY <2>4, <2>5, FreshIsHandler
    <2> HIDE DEF Starts
    <2> QED
      BY <2>1, <2>2, <2>3, <2>5, <2>6 DEF Sound
  <1>3. ASSUME NEW u \in Users, NEW i \in Items, NEW q \in Supplies \cup {row[i].qty},
               NEW f \in BOOLEAN, NEW d \in BOOLEAN, NEW s \in BOOLEAN,
               LoadSet(r, u, i, [qty |-> q, freezer |-> f, dated |-> d, shared |-> s])
        PROVE  Goal
    <2> DEFINE c == [qty |-> q, freezer |-> f, dated |-> d, shared |-> s]
               cols == {k \in Columns : c[k] # row[i][k]}
               g == Loaded("set", u, i, cols, c, 0, {})
    <2>1. /\ state[i] = "stocked" /\ (u # owner[i] => table[i] = "prepared" /\ row[i].shared)
          /\ table[i] = "prepared" => ~d
      BY <1>3, Using DEF LoadSet
    <2>2. Starts(g)
      BY <1>3 DEF LoadSet, Load, Loaded
    <2>3. "qty" \in cols => q \in Nat
      BY <1>3, Numbers
    <2>4. c \in Rows /\ c.qty = q /\ c.dated = d
      BY <1>0, Numbers DEF TypeOK, Rows
    <2>5. cols \subseteq Columns
      OBVIOUS
    <2> HIDE DEF c, cols
    <2>6. Fresh(g, c) /\ g.op = "set" /\ g.user = u /\ g.item = i /\ g.cols = cols
      BY <2>4, <2>5 DEF Loaded, Fresh
    <2> HIDE DEF g
    <2>7. g \in Handlers /\ ("qty" \in cols => g.new.qty = q) /\ ("dated" \in cols => g.new.dated = d)
      BY <2>4, <2>6, FreshIsHandler
    <2> HIDE DEF Starts
    <2> QED
      BY <2>1, <2>2, <2>3, <2>6, <2>7 DEF Sound
  <1>4. ASSUME NEW u \in Users, NEW i \in Items, NEW op \in {"set", "delete", "add", "remove"},
               NEW store \in SUBSET Stores, Owned(u, i), Load(r, op, u, i, {}, NoRow, 0, store)
        PROVE  Goal
    <2> DEFINE g == Loaded(op, u, i, {}, NoRow, 0, store)
    <2>1. state[i] = "stocked" /\ (u # owner[i] => table[i] = "prepared" /\ row[i].shared)
      BY <1>4, Using
    <2>2. Starts(g)
      BY <1>4 DEF Load, Loaded
    <2>3. Fresh(g, NoRow) /\ g.op = op /\ g.user = u /\ g.item = i /\ g.cols = {}
      BY <1>4, NoRowIsRow DEF Loaded, Fresh
    <2> HIDE DEF g
    <2>4. g \in Handlers
      BY <2>3, FreshIsHandler
    <2> HIDE DEF Starts
    <2> QED
      BY <2>1, <2>2, <2>3, <2>4 DEF Sound
  <1>5. ASSUME NEW u \in Users, NEW i \in Items, NEW cols \in SUBSET Columns, NEW new \in Rows,
               MayUse(u, i) \/ Accessible(u, i),
               Load(r, "move", u, i, cols, new, 0, {}),
               "qty" \notin cols, "shared" \notin cols,
               "dated" \in cols /\ table[i] = "prepared" => ~new.dated,
               (IF "dated" \in cols THEN new.dated ELSE row[i].dated) =>
                  (IF "freezer" \in cols THEN new.freezer ELSE row[i].freezer)
        PROVE  Goal
    <2> DEFINE g == Loaded("move", u, i, cols, new, 0, {})
    <2>1. state[i] = "stocked" /\ (u # owner[i] => table[i] = "prepared" /\ row[i].shared)
      BY <1>5, Using
    <2>2. Starts(g)
      BY <1>5 DEF Load, Loaded
    <2>4. Fresh(g, new) /\ g.op = "move" /\ g.user = u /\ g.item = i /\ g.cols = cols
      BY <1>5 DEF Loaded, Fresh
    <2> HIDE DEF g
    <2>5. /\ g \in Handlers
          /\ "freezer" \in cols => g.new.freezer = new.freezer
          /\ "dated" \in cols => g.new.dated = new.dated
      BY <2>4, FreshIsHandler
    <2> HIDE DEF Starts
    <2> QED
      BY <1>5, <2>1, <2>2, <2>4, <2>5 DEF Sound
  <1>7. ASSUME NEW u \in Users, NEW i \in Items, LoadFreeze(r, u, i) PROVE Goal
    <2> DEFINE cols == (IF row[i].freezer THEN {} ELSE {"freezer"}) \cup
                       (IF table[i] = "inventory" THEN {"dated"} ELSE {})
               new == [NoRow EXCEPT !.freezer = TRUE, !.dated = TRUE]
    <2>1. MayUse(u, i) /\ Load(r, "move", u, i, cols, new, 0, {})
      BY <1>7 DEF LoadFreeze
    <2>2. /\ cols \in SUBSET Columns /\ "qty" \notin cols /\ "shared" \notin cols
          /\ "dated" \in cols => table[i] = "inventory"
          /\ "freezer" \in cols \/ row[i].freezer
      BY DEF Columns
    <2>3. new \in Rows /\ new.freezer
      BY Numbers DEF NoRow, Rows
    <2> HIDE DEF cols, new
    <2>4. table[i] = "inventory" => table[i] # "prepared"
      OBVIOUS
    <2> QED
      BY <1>5, <2>1, <2>2, <2>3, <2>4
  <1>8. ASSUME NEW u \in Users, NEW i \in Items, LoadThaw(r, u, i) PROVE Goal
    <2>1. PICK C \in {{}, {"freezer"}} :
            Load(r, "move", u, i, C \cup (IF row[i].dated THEN {"dated"} ELSE {}), NoRow, 0, {})
      BY <1>8 DEF LoadThaw
    <2> DEFINE cols == C \cup (IF row[i].dated THEN {"dated"} ELSE {})
    <2>2. MayUse(u, i)
      BY <1>8 DEF LoadThaw
    <2>3. /\ cols \in SUBSET Columns /\ "qty" \notin cols /\ "shared" \notin cols
          /\ "dated" \in cols \/ ~row[i].dated
      BY DEF Columns
    <2>4. NoRow \in Rows /\ ~NoRow.dated
      BY NoRowIsRow DEF NoRow
    <2>5. Load(r, "move", u, i, cols, NoRow, 0, {})
      BY <2>1
    <2> HIDE DEF cols
    <2> QED
      BY <1>5, <2>2, <2>3, <2>4, <2>5
  <1>9. ASSUME NEW u \in Users, NEW i \in Items, NEW f \in BOOLEAN, LoadTransfer(r, u, i, f) PROVE Goal
    <2> DEFINE new == [NoRow EXCEPT !.freezer = f]
    <2>1. PICK cols \in {{}, {"freezer"}} : Load(r, "move", u, i, cols, new, 0, {})
      BY <1>9 DEF LoadTransfer
    <2>2. Accessible(u, i) /\ ~row[i].dated
      BY <1>9 DEF LoadTransfer, Accessible, Placed
    <2>3. new \in Rows
      BY Numbers DEF NoRow, Rows
    <2>4. cols \in SUBSET Columns /\ "qty" \notin cols /\ "shared" \notin cols /\ "dated" \notin cols
      BY DEF Columns
    <2> HIDE DEF new
    <2> QED
      BY <1>5, <2>1, <2>2, <2>3, <2>4
  <1> HIDE DEF Goal
  <1>10. ASSUME NEW u \in Users, NEW i \in Items,
                LoadPreferredStore(r, u, i) \/ LoadDelete(r, u, i) PROVE Goal
    BY <1>4, <1>10 DEF LoadPreferredStore, LoadDelete
  <1>11. ASSUME NEW u \in Users, NEW i \in Items, NEW s \in Stores,
                LoadAddStore(r, u, i, s) \/ LoadRemoveStore(r, u, i, s) PROVE Goal
    BY <1>4, <1>11 DEF LoadAddStore, LoadRemoveStore
  <1>12. Goal
    <2>1. PICK u \in Users, i \in Items :
            \/ \E a \in Amounts, d \in BOOLEAN : LoadConsume(r, u, i, a, d)
            \/ \E a \in Amounts, b \in Again : LoadAdHoc(r, u, i, a, b)
            \/ \E q \in Supplies \cup {row[i].qty}, f, d, s \in BOOLEAN :
                 LoadSet(r, u, i, [qty |-> q, freezer |-> f, dated |-> d, shared |-> s])
            \/ LoadPreferredStore(r, u, i)
            \/ LoadFreeze(r, u, i)
            \/ LoadThaw(r, u, i)
            \/ \E f \in BOOLEAN : LoadTransfer(r, u, i, f)
            \/ LoadDelete(r, u, i)
            \/ \E s \in Stores : LoadAddStore(r, u, i, s) \/ LoadRemoveStore(r, u, i, s)
      BY DEF Begin
    <2>2. CASE \E a \in Amounts, d \in BOOLEAN : LoadConsume(r, u, i, a, d)
      BY <1>1, <2>2
    <2>3. CASE \E a \in Amounts, b \in Again : LoadAdHoc(r, u, i, a, b)
      BY <1>2, <2>3
    <2>4. CASE \E q \in Supplies \cup {row[i].qty}, f, d, s \in BOOLEAN :
                 LoadSet(r, u, i, [qty |-> q, freezer |-> f, dated |-> d, shared |-> s])
      BY <1>3, <2>4
    <2>5. CASE \E f \in BOOLEAN : LoadTransfer(r, u, i, f)
      BY <1>9, <2>5
    <2>6. CASE \E s \in Stores : LoadAddStore(r, u, i, s) \/ LoadRemoveStore(r, u, i, s)
      BY <1>11, <2>6
    <2> QED
      BY <1>7, <1>8, <1>10, <2>1, <2>2, <2>3, <2>4, <2>5, <2>6
  <1> QED
    BY <1>12 DEF Goal

LEMMA Finishing ==
  ASSUME TypeOK, NEW r \in Working, NEW C \in SUBSET Columns, Finish(r, C)
  PROVE  /\ req' \in [Requests -> Handlers \cup {Idle}]
         /\ req'[r] = Idle
         /\ \A k \in Requests \ {r} :
              \/ req'[k] = req[k] /\ (k \in Working => req[k].item # req[r].item)
              \/ /\ k \in Working /\ req[k].item = req[r].item
                 /\ req'[k] = [req[k] EXCEPT !.stale = req[k].stale \cup C]
  <1>1. \A k \in Working : [req[k] EXCEPT !.stale = req[k].stale \cup C] \in Handlers
    BY HandlerShape DEF Working, Handlers
  <1>2. req' = [s \in Requests |->
                 CASE s = r -> Idle
                   [] s # r /\ s \in Working /\ req[s].item = req[r].item ->
                        [req[s] EXCEPT !.stale = req[s].stale \cup C]
                   [] OTHER -> req[s]]
    BY DEF Finish
  <1>3. r \in Requests /\ req \in [Requests -> Handlers \cup {Idle}]
    BY DEF Working, TypeOK
  <1> QED
    BY <1>1, <1>2, <1>3

\* A handler stays sound if what others write to its row makes it stale.
LEMMA StaysSound ==
  ASSUME NEW g \in Handlers, Sound(g), NEW C \in SUBSET Columns, NEW f \in Handlers,
         f = [g EXCEPT !.stale = g.stale \cup C],
         table'[g.item] = table[g.item], owner'[g.item] = owner[g.item],
         "qty"     \notin C => row'[g.item].qty     = row[g.item].qty,
         "freezer" \notin C => row'[g.item].freezer = row[g.item].freezer,
         "dated"   \notin C => row'[g.item].dated   = row[g.item].dated,
         "shared"  \notin C => row'[g.item].shared  = row[g.item].shared,
         state'[g.item] = state[g.item] \/ (C = Columns /\ state'[g.item] # "absent")
  PROVE  Sound(f)'
  <1>1. /\ f.op = g.op /\ f.user = g.user /\ f.item = g.item /\ f.cols = g.cols /\ f.new = g.new
        /\ f.amount = g.amount /\ f.stale = g.stale \cup C
    BY DEF Handlers
  <1>2. g.stale \subseteq Columns
    BY HandlerFields
  <1>3. state'[g.item] # "absent" /\ (state'[g.item] # "stocked" => f.stale = Columns)
    BY <1>1, <1>2 DEF Sound
  <1>4. g.op = "use" /\ "qty" \notin f.stale => Uses(row'[g.item].qty, g.amount, g.new.qty)
    BY <1>1 DEF Sound
  <1>5. g.op = "empty" /\ "qty" \notin f.stale => row'[g.item].qty > 0 /\ Close(row'[g.item].qty - g.amount)
    BY <1>1 DEF Sound
  <1>6. g.user # owner'[g.item] /\ "shared" \notin f.stale =>
          table'[g.item] = "prepared" /\ row'[g.item].shared
    BY <1>1 DEF Sound
  <1>7. g.op = "move" /\ "freezer" \notin f.stale /\ "dated" \notin f.stale =>
           ((IF "dated" \in g.cols THEN g.new.dated ELSE row'[g.item].dated) =>
              (IF "freezer" \in g.cols THEN g.new.freezer ELSE row'[g.item].freezer))
    BY <1>1 DEF Sound
  <1>8. /\ g.op \in {"use", "empty", "set", "move"} /\ "dated" \in g.cols /\ table'[g.item] = "prepared" =>
              ~g.new.dated
        /\ g.op = "use" => g.cols = {"qty"}
        /\ g.op = "set" /\ "qty" \in g.cols => g.new.qty \in Nat
        /\ g.op = "move" => "qty" \notin g.cols /\ "shared" \notin g.cols
    BY DEF Sound
  <1> HIDE DEF Uses, Close
  <1> QED
    BY <1>1, <1>3, <1>4, <1>5, <1>6, <1>7, <1>8 DEF Sound, Uses, Close

LEMMA OthersSound ==
  ASSUME TypeOK, AllSound, NEW r \in Working, NEW C \in SUBSET Columns, Finish(r, C),
         NEW i \in Items, i = req[r].item, UNCHANGED <<table, owner>>,
         \A j \in Items : j # i => row'[j] = row[j] /\ state'[j] = state[j],
         "qty"     \notin C => row'[i].qty     = row[i].qty,
         "freezer" \notin C => row'[i].freezer = row[i].freezer,
         "dated"   \notin C => row'[i].dated   = row[i].dated,
         "shared"  \notin C => row'[i].shared  = row[i].shared,
         state'[i] = state[i] \/ (C = Columns /\ state'[i] # "absent")
  PROVE  AllSound'
  <1> SUFFICES ASSUME NEW k \in Working' PROVE Sound(req[k])'
    BY DEF AllSound
  <1>0. PICK f : f = req'[k]
    OBVIOUS
  <1>1. k \in Requests /\ k # r /\ f # Idle /\ f \in Handlers
    BY <1>0, Finishing DEF Working
  <1>2. k \in Working
    BY <1>0, <1>1, Finishing DEF Working
  <1>3. PICK g : g = req[k]
    OBVIOUS
  <1>4. g \in Handlers /\ Sound(g) /\ g.item \in Items
    BY <1>1, <1>2, <1>3, HandlerShape, HandlerFields DEF AllSound, Working
  <1>5. CASE f = g /\ g.item # i
    <2>1. PICK none \in SUBSET Columns : none = {}
      OBVIOUS
    <2>2. f = [g EXCEPT !.stale = g.stale \cup none]
      BY <1>4, <1>5, <2>1 DEF Handlers
    <2>3. /\ row'[g.item] = row[g.item] /\ state'[g.item] = state[g.item]
          /\ table'[g.item] = table[g.item] /\ owner'[g.item] = owner[g.item]
      BY <1>4, <1>5
    <2>4. Sound(f)'
      BY <1>1, <1>4, <2>1, <2>2, <2>3, StaysSound
    <2> QED
      BY <1>0, <2>4
  <1>6. CASE g.item = i /\ f = [g EXCEPT !.stale = g.stale \cup C]
    <2>1. Sound(f)'
      BY <1>1, <1>4, <1>6, StaysSound
    <2> QED
      BY <1>0, <2>1
  <1> QED
    BY <1>0, <1>1, <1>2, <1>3, <1>5, <1>6, Finishing

\* The invariant where nothing happens to a row.
LEMMA RowsApart ==
  ASSUME NEW j \in Items, Accounted(j), Placed(j),
         row'[j] = row[j], state'[j] = state[j], table'[j] = table[j], given'[j] = given[j],
         taken'[j] = taken[j], j \in lost' <=> j \in lost, j \in torn => j \in torn'
  PROVE  Accounted(j)' /\ Placed(j)'
  <1>1. Accounted(j)'
    BY DEF Accounted, Close
  <1>2. Placed(j)'
    BY DEF Placed
  <1> QED
    BY <1>1, <1>2

\* A handler that commits, and its row.
LEMMA Committing ==
  ASSUME StockInv, NEW r \in Working
  PROVE  \E h \in Handlers, i \in Items :
           /\ h = req[r] /\ i = h.item
           /\ Sound(h) /\ Accounted(i) /\ Placed(i)
           /\ h.cols \in SUBSET Columns /\ h.new \in Rows /\ h.amount \in Nat /\ h.store \in SUBSET Stores
           /\ row[i] \in Rows /\ row[i].qty \in Int /\ given[i] \in Nat /\ taken[i] \in Nat
  <1>1. PICK h \in Handlers : h = req[r]
    BY HandlerShape DEF StockInv, Working
  <1>2. PICK i \in Items : i = h.item
    BY HandlerFields
  <1>3. Sound(h) /\ Accounted(i) /\ Placed(i)
    BY <1>1 DEF StockInv, AllSound
  <1>4. row[i] \in Rows /\ row[i].qty \in Int /\ given[i] \in Nat /\ taken[i] \in Nat
    BY Numbers DEF StockInv, TypeOK, Rows
  <1>5. h.cols \in SUBSET Columns /\ h.new \in Rows /\ h.amount \in Nat /\ h.store \in SUBSET Stores
    BY HandlerFields
  <1> QED
    BY <1>1, <1>2, <1>3, <1>4, <1>5

\* An UPDATE of h's columns: the types of the rows, and the other handlers.
LEMMA Updating ==
  ASSUME StockInv, NEW r \in Working, NEW h \in Handlers, NEW i \in Items, h = req[r], i = h.item,
         UNCHANGED <<table, state, owner>>,
         row' = [row EXCEPT ![i] = Written(h, row[i])],
         Finish(r, h.cols)
  PROVE  /\ row' \in [Items -> Rows] /\ req' \in [Requests -> Handlers \cup {Idle}] /\ AllSound'
         /\ \A j \in Items \ {i} : row'[j] = row[j]
         /\ row'[i].qty     = IF "qty"     \in h.cols THEN h.new.qty     ELSE row[i].qty
         /\ row'[i].freezer = IF "freezer" \in h.cols THEN h.new.freezer ELSE row[i].freezer
         /\ row'[i].dated   = IF "dated"   \in h.cols THEN h.new.dated   ELSE row[i].dated
         /\ row'[i].shared  = IF "shared"  \in h.cols THEN h.new.shared  ELSE row[i].shared
  <1>1. TypeOK /\ AllSound /\ h.cols \in SUBSET Columns /\ h.new \in Rows /\ row[i] \in Rows
    BY HandlerFields DEF StockInv, TypeOK
  <1>2. /\ Written(h, row[i]) \in Rows
        /\ Written(h, row[i]).qty     = IF "qty"     \in h.cols THEN h.new.qty     ELSE row[i].qty
        /\ Written(h, row[i]).freezer = IF "freezer" \in h.cols THEN h.new.freezer ELSE row[i].freezer
        /\ Written(h, row[i]).dated   = IF "dated"   \in h.cols THEN h.new.dated   ELSE row[i].dated
        /\ Written(h, row[i]).shared  = IF "shared"  \in h.cols THEN h.new.shared  ELSE row[i].shared
    BY <1>1, Writing
  <1>3. row'[i] = Written(h, row[i]) /\ (\A j \in Items \ {i} : row'[j] = row[j]) /\ row' \in [Items -> Rows]
    BY <1>1, <1>2 DEF TypeOK
  <1>4. req' \in [Requests -> Handlers \cup {Idle}]
    BY <1>1, Finishing, SMTT(40)
  <1>5. AllSound'
    <2>1. PICK C \in SUBSET Columns : C = h.cols
      BY <1>1
    <2>2. /\ "qty"     \notin C => row'[i].qty     = row[i].qty
          /\ "freezer" \notin C => row'[i].freezer = row[i].freezer
          /\ "dated"   \notin C => row'[i].dated   = row[i].dated
          /\ "shared"  \notin C => row'[i].shared  = row[i].shared
      BY <1>2, <1>3, <2>1
    <2>3. Finish(r, C) /\ i = req[r].item /\ \A j \in Items : j # i => row'[j] = row[j] /\ state'[j] = state[j]
      BY <1>3, <2>1
    <2> QED
      BY <1>1, <2>2, <2>3, OthersSound
  <1> QED
    BY <1>2, <1>3, <1>4, <1>5

\* What a consumption of a row that it has seen does to its account.
LEMMA Taking ==
  ASSUME StockInv, NEW h \in Handlers, NEW i \in Items, Take(h, i)
  PROVE  /\ taken' \in [Items -> Nat] /\ lost' \in SUBSET Items /\ given' = given
         /\ \A j \in Items \ {i} : taken'[j] = taken[j] /\ (j \in lost' <=> j \in lost)
         /\ i \notin lost' => i \notin lost /\ "qty" \notin h.stale /\ taken'[i] = taken[i] + h.amount
  <1>1. h.amount \in Nat /\ lost \in SUBSET Items /\ taken \in [Items -> Nat]
    BY HandlerFields DEF StockInv, TypeOK
  <1>2. lost' = (IF "qty" \in h.stale THEN lost \cup {i} ELSE lost) /\ given' = given
    BY DEF Take
  <1> DEFINE n == IF i \in lost' THEN 0 ELSE taken[i] + h.amount
  <1>3. taken' = [taken EXCEPT ![i] = n]
    BY DEF Take
  <1>4. n \in Nat /\ (i \notin lost' => n = taken[i] + h.amount)
    BY <1>1
  <1> HIDE DEF n
  <1>5. lost' \in SUBSET Items /\ (\A j \in Items \ {i} : (j \in lost') <=> (j \in lost))
    <2>1. CASE "qty" \in h.stale
      BY <1>1, <1>2, <2>1
    <2>2. CASE "qty" \notin h.stale
      BY <1>1, <1>2, <2>2
    <2> QED
      BY <2>1, <2>2
  <1>7. i \notin lost' => i \notin lost /\ "qty" \notin h.stale
    BY <1>2
  <1>6. taken' \in [Items -> Nat] /\ taken'[i] = n /\ (\A j \in Items \ {i} : taken'[j] = taken[j])
    BY <1>1, <1>3, <1>4
  <1> QED
    BY <1>2, <1>4, <1>5, <1>6, <1>7

LEMMA UseStep == ASSUME StockInv, NEW r \in Requests, CommitUse(r) PROVE StockInv'
  <1>1. r \in Working
    BY DEF CommitUse
  <1>2. PICK h \in Handlers, i \in Items :
          /\ h = req[r] /\ i = h.item /\ Sound(h) /\ Accounted(i) /\ Placed(i)
          /\ h.amount \in Nat /\ row[i].qty \in Int /\ given[i] \in Nat /\ taken[i] \in Nat
    BY <1>1, Committing
  <1>3. /\ h.op = "use" /\ state[i] = "stocked"
        /\ row' = [row EXCEPT ![i] = Written(h, row[i])]
        /\ Take(h, i) /\ Finish(r, h.cols)
        /\ UNCHANGED <<table, state, owner, available, torn>>
    BY <1>2 DEF CommitUse, Stocked
  <1>4. h.cols = {"qty"} /\ ("qty" \notin h.stale => Uses(row[i].qty, h.amount, h.new.qty))
    BY <1>2, <1>3 DEF Sound
  <1>5. /\ row' \in [Items -> Rows] /\ req' \in [Requests -> Handlers \cup {Idle}] /\ AllSound'
        /\ \A j \in Items \ {i} : row'[j] = row[j]
        /\ row'[i].qty = h.new.qty
        /\ row'[i].freezer = row[i].freezer /\ row'[i].dated = row[i].dated
    <2>1. UNCHANGED <<table, state, owner>>
      BY <1>3
    <2>2. /\ row' \in [Items -> Rows] /\ req' \in [Requests -> Handlers \cup {Idle}] /\ AllSound'
          /\ \A j \in Items \ {i} : row'[j] = row[j]
          /\ row'[i].qty     = IF "qty"     \in h.cols THEN h.new.qty     ELSE row[i].qty
          /\ row'[i].freezer = IF "freezer" \in h.cols THEN h.new.freezer ELSE row[i].freezer
          /\ row'[i].dated   = IF "dated"   \in h.cols THEN h.new.dated   ELSE row[i].dated
      BY <1>1, <1>2, <1>3, <2>1, Updating, ZenonT(40)
    <2> QED
      BY <1>4, <2>2
  <1>6. /\ taken' \in [Items -> Nat] /\ lost' \in SUBSET Items /\ given' = given
        /\ \A j \in Items \ {i} : taken'[j] = taken[j] /\ (j \in lost' <=> j \in lost)
        /\ i \notin lost' => i \notin lost /\ "qty" \notin h.stale /\ taken'[i] = taken[i] + h.amount
    BY <1>3, Taking
  <1>7. TypeOK'
    BY <1>3, <1>5, <1>6 DEF StockInv, TypeOK
  <1>8. Accounted(i)'
    <2>1. CASE i \notin lost'
      <3>1. Tolerance \in Nat
        BY Numbers
      <3>2. Uses(row[i].qty, h.amount, h.new.qty)
        BY <1>4, <1>6, <2>1
      <3>3. given[i] - taken[i] = row[i].qty \/ row[i].qty = 0
        BY <1>2, <1>3, <1>6, <2>1 DEF Accounted
      <3>4. row[i].qty > 0 /\ given[i] - taken[i] = row[i].qty
        BY <1>2, <3>2, <3>3 DEF Uses
      <3>5. given[i] - taken'[i] = row[i].qty - h.amount
        BY <1>2, <1>6, <2>1, <3>4
      <3>6. row'[i].qty = given[i] - taken'[i] \/ (row'[i].qty = 0 /\ Close(given[i] - taken'[i]))
        BY <1>2, <1>5, <3>1, <3>2, <3>5 DEF Uses, Close
      <3> QED
        BY <1>3, <1>6, <3>6 DEF Accounted, Close
    <2>2. CASE i \in lost'
      BY <1>3, <2>2 DEF Accounted
    <2> QED
      BY <2>1, <2>2
  <1>9. Placed(i)'
    BY <1>2, <1>3, <1>5 DEF Placed
  <1>10. ASSUME NEW j \in Items, j # i PROVE Accounted(j)' /\ Placed(j)'
    BY <1>3, <1>5, <1>6, <1>10, RowsApart DEF StockInv
  <1> QED
    BY <1>5, <1>7, <1>8, <1>9, <1>10 DEF StockInv

\* The end of a row.
LEMMA Deleting ==
  ASSUME StockInv, NEW r \in Working, NEW h \in Handlers, NEW i \in Items, h = req[r], i = h.item,
         NEW how \in {"emptied", "deleted"},
         state' = IF i \in Stocked THEN [state EXCEPT ![i] = how] ELSE state,
         row' = [row EXCEPT ![i] = NoRow], UNCHANGED <<table, owner>>,
         Finish(r, Columns)
  PROVE  /\ row' \in [Items -> Rows] /\ req' \in [Requests -> Handlers \cup {Idle}] /\ AllSound'
         /\ state' \in [Items -> {"absent", "stocked", "emptied", "deleted"}]
         /\ \A j \in Items \ {i} : row'[j] = row[j] /\ state'[j] = state[j]
         /\ row'[i].qty = 0 /\ ~row'[i].dated
         /\ state'[i] = IF state[i] = "stocked" THEN how ELSE state[i]
         /\ state'[i] \notin {"absent", "stocked"}
  <1>1. TypeOK /\ AllSound /\ Sound(h)
    BY DEF StockInv, AllSound
  <1>2. state[i] # "absent"
    BY <1>1 DEF Sound
  <1>3. /\ state' \in [Items -> {"absent", "stocked", "emptied", "deleted"}]
        /\ \A j \in Items \ {i} : state'[j] = state[j]
        /\ state'[i] = IF state[i] = "stocked" THEN how ELSE state[i]
    BY <1>1 DEF Stocked, TypeOK
  <1>4. /\ row' \in [Items -> Rows] /\ row'[i].qty = 0 /\ ~row'[i].dated
        /\ \A j \in Items \ {i} : row'[j] = row[j]
    BY <1>1, NoRowIsRow DEF TypeOK, NoRow
  <1>5. PICK C \in SUBSET Columns : C = Columns
    OBVIOUS
  <1>6. Finish(r, C) /\ "qty" \in C /\ "freezer" \in C /\ "dated" \in C /\ "shared" \in C
    BY <1>5 DEF Columns
  <1>7. req' \in [Requests -> Handlers \cup {Idle}]
    BY <1>1, <1>6, Finishing
  <1>8. AllSound'
    BY <1>1, <1>2, <1>3, <1>4, <1>5, <1>6, OthersSound
  <1> QED
    BY <1>2, <1>3, <1>4, <1>7, <1>8

LEMMA EmptyStep == ASSUME StockInv, NEW r \in Requests, CommitEmpty(r) PROVE StockInv'
  <1>1. r \in Working
    BY DEF CommitEmpty
  <1>2. PICK h \in Handlers, i \in Items :
          /\ h = req[r] /\ i = h.item /\ Sound(h) /\ Accounted(i) /\ Placed(i)
          /\ h.amount \in Nat /\ row[i].qty \in Int /\ given[i] \in Nat /\ taken[i] \in Nat
    BY <1>1, Committing
  <1>3. /\ h.op = "empty"
        /\ state' = IF i \in Stocked THEN [state EXCEPT ![i] = "emptied"] ELSE state
        /\ row' = [row EXCEPT ![i] = NoRow] /\ available' = [available EXCEPT ![i] = {}]
        /\ Take(h, i) /\ Finish(r, Columns)
        /\ UNCHANGED <<table, owner, torn>>
    BY <1>2 DEF CommitEmpty
  <1>4. /\ row' \in [Items -> Rows] /\ req' \in [Requests -> Handlers \cup {Idle}] /\ AllSound'
        /\ state' \in [Items -> {"absent", "stocked", "emptied", "deleted"}]
        /\ \A j \in Items \ {i} : row'[j] = row[j] /\ state'[j] = state[j]
        /\ row'[i].qty = 0 /\ ~row'[i].dated
        /\ state'[i] = IF state[i] = "stocked" THEN "emptied" ELSE state[i]
        /\ state'[i] \notin {"absent", "stocked"}
    BY <1>1, <1>2, <1>3, Deleting
  <1>5. /\ taken' \in [Items -> Nat] /\ lost' \in SUBSET Items /\ given' = given
        /\ \A j \in Items \ {i} : taken'[j] = taken[j] /\ (j \in lost' <=> j \in lost)
        /\ i \notin lost' => i \notin lost /\ "qty" \notin h.stale /\ taken'[i] = taken[i] + h.amount
    BY <1>3, Taking
  <1>6. TypeOK'
    BY <1>3, <1>4, <1>5 DEF StockInv, TypeOK
  <1>7. Accounted(i)'
    <2>1. ASSUME i \notin lost' PROVE Close(given[i] - taken'[i])
      <3>1. "qty" \notin h.stale /\ i \notin lost /\ taken'[i] = taken[i] + h.amount
        BY <1>5, <2>1
      <3>2. row[i].qty > 0 /\ Close(row[i].qty - h.amount) /\ state[i] = "stocked"
        BY <1>2, <1>3, <3>1 DEF Sound, Columns
      <3>3. given[i] - taken[i] = row[i].qty
        BY <1>2, <3>1, <3>2 DEF Accounted
      <3>4. given[i] - taken'[i] = row[i].qty - h.amount
        BY <1>2, <3>1, <3>3
      <3> QED
        BY <3>2, <3>4
    <2> QED
      BY <1>4, <1>5, <2>1 DEF Accounted, Close
  <1>8. Placed(i)'
    BY <1>4 DEF Placed
  <1>9. ASSUME NEW j \in Items, j # i PROVE Accounted(j)' /\ Placed(j)'
    BY <1>3, <1>4, <1>5, <1>9, RowsApart DEF StockInv
  <1> QED
    BY <1>4, <1>6, <1>7, <1>8, <1>9 DEF StockInv

LEMMA DeleteStep == ASSUME StockInv, NEW r \in Requests, CommitDelete(r) PROVE StockInv'
  <1>1. r \in Working
    BY DEF CommitDelete
  <1>2. PICK h \in Handlers, i \in Items : h = req[r] /\ i = h.item /\ Accounted(i) /\ Placed(i)
    BY <1>1, Committing
  <1>3. /\ state' = IF i \in Stocked THEN [state EXCEPT ![i] = "deleted"] ELSE state
        /\ row' = [row EXCEPT ![i] = NoRow] /\ available' = [available EXCEPT ![i] = {}]
        /\ Finish(r, Columns)
        /\ UNCHANGED <<table, owner, given, taken, lost, torn>>
    BY <1>2 DEF CommitDelete, account
  <1>4. /\ row' \in [Items -> Rows] /\ req' \in [Requests -> Handlers \cup {Idle}] /\ AllSound'
        /\ state' \in [Items -> {"absent", "stocked", "emptied", "deleted"}]
        /\ \A j \in Items \ {i} : row'[j] = row[j] /\ state'[j] = state[j]
        /\ row'[i].qty = 0 /\ ~row'[i].dated
        /\ state'[i] = IF state[i] = "stocked" THEN "deleted" ELSE state[i]
        /\ state'[i] \notin {"absent", "stocked"}
    BY <1>1, <1>2, <1>3, Deleting
  <1>5. TypeOK'
    BY <1>3, <1>4 DEF StockInv, TypeOK
  <1>6. Accounted(i)'
    BY <1>2, <1>3, <1>4 DEF Accounted, Close
  <1>7. Placed(i)'
    BY <1>4 DEF Placed
  <1>8. ASSUME NEW j \in Items, j # i PROVE Accounted(j)' /\ Placed(j)'
    BY <1>3, <1>4, <1>8, RowsApart DEF StockInv
  <1> QED
    BY <1>4, <1>5, <1>6, <1>7, <1>8 DEF StockInv

LEMMA SetStep == ASSUME StockInv, NEW r \in Requests, CommitSet(r) PROVE StockInv'
  <1>1. r \in Working
    BY DEF CommitSet
  <1>2. PICK h \in Handlers, i \in Items :
          /\ h = req[r] /\ i = h.item /\ Sound(h) /\ Accounted(i) /\ Placed(i)
          /\ given[i] \in Nat /\ taken[i] \in Nat
    BY <1>1, Committing
  <1>3. /\ h.op = "set" /\ state[i] = "stocked"
        /\ row' = [row EXCEPT ![i] = Written(h, row[i])]
        /\ torn' = Tears(h, i) /\ Finish(r, h.cols)
        /\ UNCHANGED <<table, state, owner>> /\ UNCHANGED available
    BY <1>2 DEF CommitSet, Stocked
  <1>4. /\ row' \in [Items -> Rows] /\ req' \in [Requests -> Handlers \cup {Idle}] /\ AllSound'
        /\ \A j \in Items \ {i} : row'[j] = row[j]
        /\ row'[i].qty     = IF "qty"     \in h.cols THEN h.new.qty     ELSE row[i].qty
        /\ row'[i].freezer = IF "freezer" \in h.cols THEN h.new.freezer ELSE row[i].freezer
        /\ row'[i].dated   = IF "dated"   \in h.cols THEN h.new.dated   ELSE row[i].dated
    BY <1>1, <1>2, <1>3, Updating, ZenonT(40)
  <1>5. torn' = IF h.cols \cap Places = {} THEN torn ELSE torn \cup {i}
    BY <1>3 DEF Tears
  <1>6. TypeOK /\ ("qty" \in h.cols => h.new.qty \in Nat)
    BY <1>2, <1>3 DEF StockInv, Sound
  <1>7. CASE "qty" \in h.cols
    <2>1. given' = [given EXCEPT ![i] = h.new.qty] /\ taken' = [taken EXCEPT ![i] = 0] /\ lost' = lost \ {i}
      BY <1>2, <1>7 DEF CommitSet
    <2>2. TypeOK'
      BY <1>3, <1>4, <1>5, <1>6, <1>7, <2>1 DEF TypeOK
    <2>3. given'[i] = h.new.qty /\ taken'[i] = 0 /\ row'[i].qty = h.new.qty /\ h.new.qty \in Nat
      BY <1>4, <1>6, <1>7, <2>1 DEF TypeOK
    <2>4. Accounted(i)'
      BY <1>3, <2>3 DEF Accounted, Close
    <2>5. ASSUME NEW j \in Items, j # i PROVE Accounted(j)' /\ Placed(j)'
      <3>1. given'[j] = given[j] /\ taken'[j] = taken[j] /\ ((j \in lost') <=> (j \in lost))
        BY <1>6, <2>1, <2>5 DEF TypeOK
      <3> QED
        BY <1>3, <1>4, <1>5, <2>5, <3>1, RowsApart DEF StockInv
    <2>6. Placed(i)'
      BY <1>2, <1>3, <1>4, <1>5 DEF Placed, Places, Sound
    <2> QED
      BY <1>4, <2>2, <2>4, <2>5, <2>6 DEF StockInv
  <1>8. CASE "qty" \notin h.cols
    <2>1. UNCHANGED <<given, taken, lost>>
      BY <1>2, <1>8 DEF CommitSet, account
    <2>2. TypeOK'
      BY <1>3, <1>4, <1>5, <1>6, <2>1 DEF TypeOK
    <2>3. Accounted(i)'
      BY <1>2, <1>3, <1>4, <1>8, <2>1 DEF Accounted, Close
    <2>4. ASSUME NEW j \in Items, j # i PROVE Accounted(j)' /\ Placed(j)'
      BY <1>3, <1>4, <1>5, <2>1, <2>4, RowsApart DEF StockInv
    <2>5. Placed(i)'
      BY <1>2, <1>3, <1>4, <1>5 DEF Placed, Places, Sound
    <2> QED
      BY <1>4, <2>2, <2>3, <2>4, <2>5 DEF StockInv
  <1> QED
    BY <1>7, <1>8

LEMMA MoveStep == ASSUME StockInv, NEW r \in Requests, CommitMove(r) PROVE StockInv'
  <1>1. r \in Working
    BY DEF CommitMove
  <1>2. PICK h \in Handlers, i \in Items :
          h = req[r] /\ i = h.item /\ Sound(h) /\ Accounted(i) /\ Placed(i)
    BY <1>1, Committing
  <1>3. /\ h.op = "move" /\ state[i] = "stocked"
        /\ row' = [row EXCEPT ![i] = Written(h, row[i])]
        /\ torn' = Tears(h, i) /\ Finish(r, h.cols)
        /\ UNCHANGED <<table, state, owner>> /\ UNCHANGED <<available, given, taken, lost>>
    BY <1>2 DEF CommitMove, Stocked, account
  <1>4. /\ row' \in [Items -> Rows] /\ req' \in [Requests -> Handlers \cup {Idle}] /\ AllSound'
        /\ \A j \in Items \ {i} : row'[j] = row[j]
        /\ row'[i].qty     = IF "qty"     \in h.cols THEN h.new.qty     ELSE row[i].qty
        /\ row'[i].freezer = IF "freezer" \in h.cols THEN h.new.freezer ELSE row[i].freezer
        /\ row'[i].dated   = IF "dated"   \in h.cols THEN h.new.dated   ELSE row[i].dated
    BY <1>1, <1>2, <1>3, Updating, ZenonT(40)
  <1>5. torn' = IF h.stale \cap Places = {} THEN torn \ {i} ELSE torn \cup {i}
    BY <1>3 DEF Tears
  <1>6. TypeOK'
    BY <1>3, <1>4, <1>5 DEF StockInv, TypeOK
  <1>7. Accounted(i)'
    <2>1. row'[i].qty = row[i].qty
      BY <1>2, <1>3, <1>4 DEF Sound
    <2> QED
      BY <1>2, <1>3, <2>1 DEF Accounted, Close
  <1>8. Placed(i)'
    <2>1. table[i] = "prepared" => ~row'[i].dated
      BY <1>2, <1>3, <1>4 DEF Sound, Placed
    <2>2. h.stale \cap Places = {} /\ row'[i].dated => row'[i].freezer
      BY <1>2, <1>3, <1>4 DEF Sound, Places
    <2>3. h.stale \cap Places # {} => i \in torn'
      BY <1>5
    <2> QED
      BY <1>3, <2>1, <2>2, <2>3 DEF Placed
  <1>9. ASSUME NEW j \in Items, j # i PROVE Accounted(j)' /\ Placed(j)'
    BY <1>3, <1>4, <1>5, <1>9, RowsApart DEF StockInv
  <1> QED
    BY <1>4, <1>6, <1>7, <1>8, <1>9 DEF StockInv

LEMMA StoresStep ==
  ASSUME StockInv, NEW r \in Requests, CommitAddStore(r) \/ CommitRemoveStore(r) PROVE StockInv'
  <1>1. r \in Working
    BY DEF CommitAddStore, CommitRemoveStore
  <1>2. PICK h \in Handlers, i \in Items : h = req[r] /\ i = h.item /\ h.store \in SUBSET Stores
    BY <1>1, Committing
  <1>3. /\ Finish(r, {}) /\ UNCHANGED <<table, state, owner, row, given, taken, lost, torn>>
        /\ \/ available' = [available EXCEPT ![i] = @ \cup h.store]
           \/ available' = [available EXCEPT ![i] = @ \ h.store]
    BY <1>2 DEF CommitAddStore, CommitRemoveStore, account
  <1>4. PICK C \in SUBSET Columns : C = {} /\ Finish(r, C)
    BY <1>3
  <1>5. TypeOK /\ AllSound
    BY DEF StockInv
  <1>6. req' \in [Requests -> Handlers \cup {Idle}] /\ AllSound'
    BY <1>1, <1>2, <1>3, <1>4, <1>5, Finishing, OthersSound
  <1>7. TypeOK'
    BY <1>2, <1>3, <1>5, <1>6 DEF TypeOK
  <1> QED
    BY <1>3, <1>6, <1>7, RowsApart DEF StockInv

\* One handler starts, or ends without a commit.
LEMMA OneGoesOn ==
  ASSUME StockInv, NEW r \in Requests, NEW g \in Handlers \cup {Idle}, g # Idle => Sound(g),
         req' = [req EXCEPT ![r] = g],
         UNCHANGED <<table, state, owner, row, available, account, torn>>
  PROVE  StockInv'
  <1>1. TypeOK'
    BY DEF StockInv, TypeOK, account
  <1>2. ASSUME NEW k \in Working' PROVE Sound(req[k])'
    <2>1. PICK f : f = req'[k]
      OBVIOUS
    <2>2. k \in Requests /\ f # Idle /\ (f = g \/ (f = req[k] /\ k \in Working))
      BY <1>2, <2>1 DEF Working, StockInv, TypeOK
    <2>3. Sound(f)
      BY <2>2 DEF StockInv, AllSound
    <2>4. Sound(f)'
      BY <2>3 DEF Sound, Uses, Close
    <2> QED
      BY <2>1, <2>4
  <1>3. ASSUME NEW j \in Items PROVE Accounted(j)' /\ Placed(j)'
    BY <1>3, RowsApart DEF StockInv, account
  <1> QED
    BY <1>1, <1>2, <1>3 DEF StockInv, AllSound

LEMMA InsertStep ==
  ASSUME StockInv, NEW S \in SUBSET Items, NEW t \in {"inventory", "prepared"}, NEW u \in Users,
         NEW c \in Rows, c.qty \in Nat, t = "prepared" => ~c.dated, Insert(S, t, u, c)
  PROVE  StockInv'
  <1>1. /\ \A i \in S : state[i] = "absent"
        /\ table' = [i \in Items |-> IF i \in S THEN t ELSE table[i]]
        /\ state' = [i \in Items |-> IF i \in S THEN "stocked" ELSE state[i]]
        /\ owner' = [i \in Items |-> IF i \in S THEN u ELSE owner[i]]
        /\ row'   = [i \in Items |-> IF i \in S THEN c ELSE row[i]]
        /\ given' = [i \in Items |-> IF i \in S THEN c.qty ELSE given[i]]
        /\ torn'  = IF c.dated /\ ~c.freezer THEN torn \cup S ELSE torn
        /\ UNCHANGED <<available, req, taken, lost>>
    BY DEF Insert
  <1>2. TypeOK'
    BY <1>1 DEF StockInv, TypeOK
  <1>3. ASSUME NEW i \in S PROVE Accounted(i)' /\ Placed(i)'
    <2>1. /\ i \in Items /\ table'[i] = t /\ state'[i] = "stocked" /\ row'[i] = c /\ given'[i] = c.qty
          /\ c.dated /\ ~c.freezer => i \in torn'
      BY <1>1, <1>3
    <2>2. taken'[i] = 0
      BY <1>1, <1>3, <2>1 DEF StockInv, Accounted
    <2>3. Accounted(i)'
      BY <2>1, <2>2 DEF Accounted, Close
    <2> QED
      BY <2>1, <2>3 DEF Placed
  <1>4. ASSUME NEW i \in Items \ S PROVE Accounted(i)' /\ Placed(i)'
    <2>1. /\ row'[i] = row[i] /\ state'[i] = state[i] /\ table'[i] = table[i] /\ given'[i] = given[i]
          /\ taken'[i] = taken[i] /\ lost' = lost /\ (i \in torn => i \in torn')
      BY <1>1
    <2> QED
      BY <2>1, RowsApart DEF StockInv
  <1>5. ASSUME NEW k \in Working' PROVE Sound(req[k])'
    <2>1. k \in Working
      BY <1>1, <1>5 DEF Working
    <2>2. PICK h \in Handlers, i \in Items : h = req[k] /\ i = h.item /\ Sound(h)
      BY <2>1, Committing
    <2>3. i \notin S
      BY <1>1, <2>2 DEF Sound
    <2>4. row'[i] = row[i] /\ state'[i] = state[i] /\ table'[i] = table[i] /\ owner'[i] = owner[i]
      BY <1>1, <2>3
    <2>5. Sound(h)'
      BY <2>2, <2>4 DEF Sound, Uses, Close
    <2> QED
      BY <1>1, <2>2, <2>5
  <1> QED
    BY <1>2, <1>3, <1>4, <1>5 DEF StockInv, AllSound

LEMMA StockStep == StockInv /\ [Next]_vars => StockInv'
  <1> SUFFICES ASSUME StockInv, [Next]_vars PROVE StockInv'
    OBVIOUS
  <1>1. ASSUME NEW r \in Requests, Begin(r) PROVE StockInv'
    <2>1. TypeOK /\ \A i \in Items : Placed(i)
      BY DEF StockInv
    <2>2. PICK g \in Handlers : req' = [req EXCEPT ![r] = g] /\ Sound(g)
      BY <1>1, <2>1, Loading
    <2>3. UNCHANGED <<table, state, owner, row, available, account, torn>>
      BY <1>1, <2>1, Loading
    <2> QED
      BY <2>2, <2>3, OneGoesOn
  <1>2. ASSUME NEW r \in Requests, Abort(r) PROVE StockInv'
    <2>1. PICK g \in Handlers \cup {Idle} : g = Idle
      OBVIOUS
    <2> QED
      BY <1>2, <2>1, OneGoesOn DEF Abort
  <1>3. ASSUME Create PROVE StockInv'
    <2>1. PICK u \in Users, q \in Supplies, f \in BOOLEAN, d \in BOOLEAN, s \in BOOLEAN :
            LET c == [qty |-> q, freezer |-> f, dated |-> d, shared |-> s]
            IN  \/ \E i \in Items : CreateItem(u, i, c) \/ CreatePreparedFood(u, i, c)
                \/ \E S \in SUBSET Items : CreateItemsBulk(u, S, c)
      BY <1>3 DEF Create
    <2> DEFINE c == [qty |-> q, freezer |-> f, dated |-> d, shared |-> s]
    <2>2. c \in Rows /\ c.qty \in Nat
      BY Numbers DEF Rows
    <2>3. \/ \E i \in Items : CreateItem(u, i, c) \/ CreatePreparedFood(u, i, c)
          \/ \E S \in SUBSET Items : CreateItemsBulk(u, S, c)
      BY <2>1
    <2> HIDE DEF c
    <2>4. ASSUME NEW i \in Items, CreateItem(u, i, c) \/ CreatePreparedFood(u, i, c) PROVE StockInv'
      <3>1. PICK S \in SUBSET Items : S = {i}
        OBVIOUS
      <3> QED
        BY <2>2, <2>4, <3>1, InsertStep DEF CreateItem, CreatePreparedFood
    <2>5. ASSUME NEW S \in SUBSET Items, CreateItemsBulk(u, S, c) PROVE StockInv'
      BY <2>2, <2>5, InsertStep DEF CreateItemsBulk
    <2> QED
      BY <2>3, <2>4, <2>5
  <1>4. CASE UNCHANGED vars
    <2>1. ASSUME NEW k \in Working' PROVE Sound(req[k])'
      <3>1. PICK h : h = req[k]
        OBVIOUS
      <3>2. Sound(h)
        BY <1>4, <2>1, <3>1 DEF vars, StockInv, AllSound, Working
      <3>3. Sound(h)'
        BY <1>4, <3>2 DEF vars, Sound, Uses, Close
      <3> QED
        BY <1>4, <3>1, <3>3 DEF vars
    <2>2. TypeOK'
      BY <1>4 DEF vars, StockInv, TypeOK, account
    <2>3. ASSUME NEW j \in Items PROVE Accounted(j)' /\ Placed(j)'
      BY <1>4, <2>3, RowsApart DEF vars, StockInv, account
    <2> QED
      BY <2>1, <2>2, <2>3 DEF StockInv, AllSound
  <1> QED
    BY <1>1, <1>2, <1>3, <1>4, UseStep, EmptyStep, SetStep, MoveStep, DeleteStep, StoresStep DEF Next, End

THEOREM Invariance == Spec => []StockInv
  BY InitInvariants, StockStep, PTL DEF Spec

\* The rows, the requests and the history have their shape; a quantity is never
\* negative if no recipe names an item twice.
THEOREM TypeCorrect == Spec => []TypeOK
  <1>1. StockInv => TypeOK
    BY DEF StockInv
  <1> QED
    BY <1>1, Invariance, PTL

\* What is there, and what was consumed since a client last set the quantity, add
\* up to what the client set, but for one rounding error, unless a consumption has
\* overlooked a change.
THEOREM BalanceTheorem == Spec => []Balanced
  <1>1. StockInv => Balanced
    <2> SUFFICES ASSUME StockInv, NEW i \in Items, state[i] \in {"stocked", "emptied"}, i \notin lost
                 PROVE  Missing(i) <= Tolerance /\ -Missing(i) <= Tolerance
      BY DEF Balanced
    <2> USE DEF Missing
    <2>1. given[i] \in Nat /\ taken[i] \in Nat /\ row[i].qty \in Int /\ Tolerance \in Nat /\ Accounted(i)
      BY Numbers DEF StockInv, TypeOK, Rows
    <2>2. CASE row[i].qty = given[i] - taken[i]
      BY <2>1, <2>2
    <2>3. CASE row[i].qty = 0 /\ Close(given[i] - taken[i])
      BY <2>1, <2>3 DEF Close
    <2> QED
      BY <2>1, <2>2, <2>3 DEF Accounted
  <1> QED
    BY <1>1, Invariance, PTL

\* A date outside the freezer is one a client has set, or left by two handlers
\* that moved the item at once.
THEOREM FrozenTheorem == Spec => []FrozenIsExplained
  <1>1. StockInv => FrozenIsExplained
    BY DEF StockInv, Placed, FrozenIsExplained, Stocked
  <1> QED
    BY <1>1, Invariance, PTL

\* Whoever uses a row of somebody else sees a prepared food that is shared.
THEOREM GuestTheorem == Spec => []GuestsSeeShared
  <1>1. StockInv => GuestsSeeShared
    BY DEF StockInv, AllSound, Sound, GuestsSeeShared
  <1> QED
    BY <1>1, Invariance, PTL

\* Unless a recipe names an item twice, no consumption takes more than there is.
THEOREM NeverNegativeTheorem ==
  ASSUME Again \subseteq {0} PROVE Spec => []NeverNegative
  <1>1. TypeOK => NeverNegative
    BY DEF TypeOK, Rows, Quantities, NeverNegative, Stocked
  <1> QED
    BY <1>1, TypeCorrect, PTL

-----------------------------------------------------------------------------
(* One handler at a time.                                                  *)

\* What a handler has just read, nobody has changed.
LEMMA StartsFresh ==
  ASSUME NEW r \in Requests, Begin(r)
  PROVE  (\E g : req' = [req EXCEPT ![r] = g] /\ g.stale = {}) /\ lost' = lost
  <1> DEFINE Goal == (\E g : req' = [req EXCEPT ![r] = g] /\ g.stale = {}) /\ lost' = lost
  <1>1. ASSUME NEW op, NEW u, NEW i, NEW cols, NEW new, NEW amount, NEW store,
               Load(r, op, u, i, cols, new, amount, store)
        PROVE  Goal
    <2> DEFINE g == Loaded(op, u, i, cols, new, amount, store)
    <2>1. req' = [req EXCEPT ![r] = g] /\ lost' = lost
      BY <1>1 DEF Load, Loaded, account
    <2>2. g.stale = {}
      BY DEF Loaded
    <2> QED
      BY <2>1, <2>2
  <1> HIDE DEF Goal
  <1>2. ASSUME NEW u \in Users, NEW i \in Items, NEW a \in Amounts, NEW d \in BOOLEAN,
               LoadConsume(r, u, i, a, d)
        PROVE  Goal
    BY <1>1, <1>2 DEF LoadConsume
  <1>3. ASSUME NEW u \in Users, NEW i \in Items, NEW a \in Amounts, NEW b \in Again, LoadAdHoc(r, u, i, a, b)
        PROVE  Goal
    BY <1>1, <1>3 DEF LoadAdHoc
  <1>4. ASSUME NEW u, NEW i, NEW c, LoadSet(r, u, i, c) PROVE Goal
    BY <1>1, <1>4 DEF LoadSet
  <1>5. ASSUME NEW u, NEW i, LoadPreferredStore(r, u, i) \/ LoadDelete(r, u, i) PROVE Goal
    BY <1>1, <1>5 DEF LoadPreferredStore, LoadDelete
  <1>6. ASSUME NEW u, NEW i, LoadFreeze(r, u, i) \/ LoadThaw(r, u, i) PROVE Goal
    BY <1>1, <1>6 DEF LoadFreeze, LoadThaw
  <1>7. ASSUME NEW u, NEW i, NEW f, LoadTransfer(r, u, i, f) PROVE Goal
    BY <1>1, <1>7 DEF LoadTransfer
  <1>8. ASSUME NEW u, NEW i, NEW s, LoadAddStore(r, u, i, s) \/ LoadRemoveStore(r, u, i, s) PROVE Goal
    BY <1>1, <1>8 DEF LoadAddStore, LoadRemoveStore
  <1>9. Goal
    BY <1>2, <1>3, <1>4, <1>5, <1>6, <1>7, <1>8 DEF Begin
  <1> QED
    BY <1>9 DEF Goal

\* Alone on its row, a handler that commits makes no other stale.
LEMMA FinishesAlone ==
  ASSUME TypeOK, OneAtATime, NEW r \in Working, NEW C \in SUBSET Columns, Finish(r, C),
         NEW k \in Working'
  PROVE  k \in Working /\ req'[k] = req[k]
  BY Finishing DEF OneAtATime, Working

LEMMA AloneStep ==
  ASSUME StockInv, OneAtATime, NothingOverlooked, [Next]_vars
  PROVE  NothingOverlooked'
  <1>0. TypeOK
    BY DEF StockInv
  <1>1. ASSUME NEW r \in Requests, Begin(r) PROVE NothingOverlooked'
    <2>1. PICK g : req' = [req EXCEPT ![r] = g] /\ g.stale = {}
      BY <1>1, StartsFresh
    <2>2. lost' = lost
      BY <1>1, StartsFresh
    <2> QED
      BY <1>0, <2>1, <2>2 DEF NothingOverlooked, Working, TypeOK
  <1>2. ASSUME NEW r \in Working, NEW C \in SUBSET Columns, Finish(r, C), lost' \subseteq lost
        PROVE  NothingOverlooked'
    BY <1>0, <1>2, FinishesAlone DEF NothingOverlooked
  <1>3. ASSUME NEW r \in Requests, CommitUse(r) \/ CommitSet(r) \/ CommitMove(r) PROVE NothingOverlooked'
    <2>1. r \in Working /\ Finish(r, req[r].cols)
      BY <1>3 DEF CommitUse, CommitSet, CommitMove
    <2>2. req[r].cols \in SUBSET Columns
      BY <2>1, Committing
    <2>3. req[r].stale = {}
      BY <2>1 DEF NothingOverlooked
    <2>4. lost' \subseteq lost
      BY <1>3, <2>3 DEF CommitUse, CommitSet, CommitMove, Take, account
    <2> QED
      BY <1>2, <2>1, <2>2, <2>4
  <1>4. ASSUME NEW r \in Requests, CommitEmpty(r) \/ CommitDelete(r) PROVE NothingOverlooked'
    <2>1. r \in Working /\ Finish(r, Columns)
      BY <1>4 DEF CommitEmpty, CommitDelete
    <2>2. req[r].stale = {}
      BY <2>1 DEF NothingOverlooked
    <2>3. lost' \subseteq lost
      BY <1>4, <2>2 DEF CommitEmpty, CommitDelete, Take, account
    <2> QED
      BY <1>2, <2>1, <2>3
  <1>5. ASSUME NEW r \in Requests, CommitAddStore(r) \/ CommitRemoveStore(r) PROVE NothingOverlooked'
    BY <1>2, <1>5 DEF CommitAddStore, CommitRemoveStore, account
  <1>6. ASSUME NEW r \in Requests, Abort(r) PROVE NothingOverlooked'
    BY <1>0, <1>6 DEF Abort, NothingOverlooked, Working, TypeOK, account
  <1>7. ASSUME Create PROVE NothingOverlooked'
    <2>1. UNCHANGED <<req, lost>>
      BY <1>7 DEF Create, CreateItem, CreateItemsBulk, CreatePreparedFood, Insert
    <2> QED
      BY <2>1 DEF NothingOverlooked, Working
  <1>8. CASE UNCHANGED vars
    BY <1>8 DEF vars, account, NothingOverlooked, Working
  <1> QED
    BY <1>1, <1>3, <1>4, <1>5, <1>6, <1>7, <1>8 DEF Next, End

\* As long as no two handlers work on one row at a time, every quantity is accounted
\* for, and a row is never used or moved by somebody who may no longer see it.
THEOREM OneAtATimeTheorem ==
  Spec /\ []OneAtATime =>
    []( /\ \A i \in Items : state[i] \in {"stocked", "emptied"} =>
             Missing(i) <= Tolerance /\ -Missing(i) <= Tolerance
        /\ \A r \in Working : req[r].user # owner[req[r].item] =>
             table[req[r].item] = "prepared" /\ row[req[r].item].shared )
  <1>1. Init => NothingOverlooked
    BY DEF Init, NothingOverlooked, Working
  <1>2. StockInv /\ NothingOverlooked /\ OneAtATime /\ [Next]_vars => NothingOverlooked'
    BY AloneStep
  <1>3. Balanced /\ GuestsSeeShared /\ NothingOverlooked =>
          /\ \A i \in Items : state[i] \in {"stocked", "emptied"} =>
               Missing(i) <= Tolerance /\ -Missing(i) <= Tolerance
          /\ \A r \in Working : req[r].user # owner[req[r].item] =>
               table[req[r].item] = "prepared" /\ row[req[r].item].shared
    BY DEF Balanced, GuestsSeeShared, NothingOverlooked
  <1> QED
    BY <1>1, <1>2, <1>3, Invariance, BalanceTheorem, GuestTheorem, PTL DEF Spec
=============================================================================
