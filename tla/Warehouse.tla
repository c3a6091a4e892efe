----------------------------- MODULE Warehouse -----------------------------
(***************************************************************************)
(* Warehouses and their storage locations.  A subscriber numbers a new row *)
(* before it is inserted: factory, type, and one more than it counts, all  *)
(* warehouses for a warehouse; for a location those of its type in its     *)
(* warehouse, although its number does not name the warehouse.  A unique   *)
(* index refuses a number in use.                                          *)
(*                                                                         *)
(* A location refers to its warehouse by number.  The entity declares the  *)
(* foreign key, but no migration creates the tables and "synchronize" is   *)
(* off: the database may enforce it or not.                                *)
(***************************************************************************)
EXTENDS Naturals, FiniteSets

CONSTANTS
  Call,     \* requests that create at once
  Factory,
  Type,     \* of warehouses, and of locations
  RowLimit  \* rows inserted, locations moved, in a behaviour

ASSUME WarehouseAssumption == RowLimit \in Nat

VARIABLES
  warehouse, \* rows of dv_warehouseccodemst
  location,  \* rows of dv_warehouseccodedet
  call,      \* what a create is doing
  enforced,  \* the foreign key
  last,      \* the last identity value
  moves

\* History: read by the properties, never by a guard.
VARIABLES
  gone   \* a warehouse was deleted, a location deleted or changed

vars == <<warehouse, location, call, enforced, last, moves, gone>>

Number    == Factory \X Type \X Nat
Warehouses == [id: Nat, num: Number]
\* "home" is history: the warehouse that had the number when it was written.
Locations  == [id: Nat, num: Number, type: Type, of: Number, home: Nat]

Ids(R)  == {r.id : r \in R}
Nums(R) == {r.num : r \in R}

\* A create that has counted what is there: "seen" is history.
Idle    == [step |-> "idle"]
Creates ==
  [step: {"warehouse", "refused"}, seen: SUBSET Nat, num: Number]
    \cup [step: {"location", "refused"}, seen: SUBSET Nat, of: Number, type: Type, num: Number]

TypeOK ==
  /\ warehouse \subseteq Warehouses
  /\ location \subseteq Locations
  /\ call \in [Call -> {Idle} \cup Creates]
  /\ enforced \in BOOLEAN
  /\ last \in Nat /\ moves \in Nat
  /\ gone \subseteq {"warehouse", "location"}

Init ==
  /\ warehouse = {} /\ location = {}
  /\ call = [c \in Call |-> Idle]
  /\ enforced \in BOOLEAN
  /\ last = 0 /\ moves = 0
  /\ gone = {}

\* findAllByFactory, findOneByWarehouseCode, findByWarehouse
LocationsOf(w) == {l \in location : l.of = w.num}
HomeOf(k)      == {w \in warehouse : w.num = k}

Pending == {c \in Call : call[c].step \in {"warehouse", "location"}}

Goto(c, x) == call' = [call EXCEPT ![c] = x]

\* Mutant: the locations are counted.
CountWarehousesWrong(c, f, t) ==
  /\ call[c] = Idle
  /\ last + Cardinality(Pending) < RowLimit
  /\ Goto(c, [step |-> "warehouse", seen |-> Ids(warehouse),
              num |-> <<f, t, Cardinality(location) + 1>>])
  /\ UNCHANGED <<warehouse, location, enforced, last, moves, gone>>

\* WarehouseSubscriber.beforeInsert
CountWarehouses(c, f, t) ==
  /\ call[c] = Idle
  /\ last + Cardinality(Pending) < RowLimit
  /\ Goto(c, [step |-> "warehouse", seen |-> Ids(warehouse),
              num |-> <<f, t, Cardinality(warehouse) + 1>>])
  /\ UNCHANGED <<warehouse, location, enforced, last, moves, gone>>

NewWarehouse(c) == [id |-> last + 1, num |-> call[c].num]

\* Mutant: the numbers are not indexed.
InsertWarehouseTwice(c) ==
  /\ call[c].step = "warehouse"
  /\ Goto(c, Idle)
  /\ warehouse' = warehouse \cup {NewWarehouse(c)}
  /\ last' = last + 1
  /\ UNCHANGED <<location, enforced, moves, gone>>

\* The index refuses a number in use, and the request fails.
InsertWarehouse(c) ==
  /\ call[c].step = "warehouse"
  /\ IF call[c].num \in Nums(warehouse)
     THEN Goto(c, [call[c] EXCEPT !.step = "refused"]) /\ UNCHANGED <<warehouse, last>>
     ELSE /\ Goto(c, Idle)
          /\ warehouse' = warehouse \cup {NewWarehouse(c)}
          /\ last' = last + 1
  /\ UNCHANGED <<location, enforced, moves, gone>>

\* StorageLocationSubscriber.beforeInsert
CountLocations(c, f, t, k) ==
  /\ call[c] = Idle
  /\ last + Cardinality(Pending) < RowLimit
  /\ Goto(c, [step |-> "location", seen |-> Ids(location), of |-> k, type |-> t,
              num |-> <<f, t, Cardinality({l \in location : l.of = k /\ l.type = t /\ l.num[1] = f}) + 1>>])
  /\ UNCHANGED <<warehouse, location, enforced, last, moves, gone>>

HomeId(k) == IF HomeOf(k) = {} THEN 0 ELSE (CHOOSE w \in HomeOf(k) : TRUE).id

NewLocation(c) ==
  [id |-> last + 1, num |-> call[c].num, type |-> call[c].type, of |-> call[c].of, home |-> HomeId(call[c].of)]

InsertLocation(c) ==
  /\ call[c].step = "location"
  /\ IF call[c].num \in Nums(location) \/ (enforced /\ HomeOf(call[c].of) = {})
     THEN Goto(c, [call[c] EXCEPT !.step = "refused"]) /\ UNCHANGED <<location, last>>
     ELSE /\ Goto(c, Idle)
          /\ location' = location \cup {NewLocation(c)}
          /\ last' = last + 1
  /\ UNCHANGED <<warehouse, enforced, moves, gone>>

\* An error is answered; nothing was written.
Answer(c) ==
  /\ call[c].step = "refused"
  /\ Goto(c, Idle)
  /\ UNCHANGED <<warehouse, location, enforced, last, moves, gone>>

\* deleteMany: one statement; locations are neither deleted nor looked at.
DeleteWarehouses(R) ==
  /\ R # {}
  /\ enforced => \A w \in R : LocationsOf(w) = {}
  /\ warehouse' = warehouse \ R
  /\ gone' = gone \cup {"warehouse"}
  /\ UNCHANGED <<location, call, enforced, last, moves>>

DeleteLocations(R) ==
  /\ R # {}
  /\ location' = location \ R
  /\ gone' = gone \cup {"location"}
  /\ UNCHANGED <<warehouse, call, enforced, last, moves>>

Moved(l, t, w) == [l EXCEPT !.type = t, !.of = w.num, !.home = w.id]

\* updateOneById: the type and the warehouse may change, the number stays.
UpdateLocation(l, t, w) ==
  /\ moves < RowLimit /\ moves' = moves + 1
  /\ location' = (location \ {l}) \cup {Moved(l, t, w)}
  /\ gone' = gone \cup {"location"}
  /\ UNCHANGED <<warehouse, call, enforced, last>>

Create(c) ==
  \E f \in Factory, t \in Type :
    \/ CountWarehouses(c, f, t)
    \/ \E k \in Nums(warehouse) : k[1] = f /\ CountLocations(c, f, t, k)

Next ==
  \/ \E c \in Call : Create(c) \/ InsertWarehouse(c) \/ InsertLocation(c) \/ Answer(c)
  \/ \E R \in SUBSET warehouse : DeleteWarehouses(R)
  \/ \E R \in SUBSET location : DeleteLocations(R)
  \/ \E l \in location, t \in Type, w \in warehouse : UpdateLocation(l, t, w)

Spec == Init /\ [][Next]_vars

-----------------------------------------------------------------------------
(* What holds.                                                             *)

Clash(c, R) == {r \in R : r.num = call[c].num}
Refused(c)  == call[c].step = "refused"

\* The parts of RefusedNeedsCause.  A warehouse is refused for its number only when a warehouse was deleted
\* before, or another create inserted the same number after this one had
\* counted.
WarehouseRefusedNeedsCause ==
  \A c \in Call : Refused(c) /\ "of" \notin DOMAIN call[c] =>
    "warehouse" \in gone \/ \E w \in Clash(c, warehouse) : w.id \notin call[c].seen

\* A location is refused only when its warehouse is gone, a location was
\* deleted or changed before, another create was faster, or another
\* warehouse of the factory has the number: its own warehouse alone never
\* stands in the way.
LocationRefusedNeedsCause ==
  \A c \in Call : Refused(c) /\ "of" \in DOMAIN call[c] =>
    \/ gone # {}
    \/ \E l \in Clash(c, location) : l.id \notin call[c].seen \/ l.of # call[c].of

RefusedNeedsCause == WarehouseRefusedNeedsCause /\ LocationRefusedNeedsCause

\* The locations of a warehouse were created in it or moved to it.  Only
\* without the foreign key can a new warehouse inherit a deleted one's
\* locations, its number being given again.
LocationsStay ==
  \A w \in warehouse : \A l \in LocationsOf(w) :
    l.home = w.id \/ (~enforced /\ l.home \notin Ids(warehouse))
=============================================================================
