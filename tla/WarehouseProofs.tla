--------------------------- MODULE WarehouseProofs ---------------------------
(***************************************************************************)
(* Theorems about Warehouse, for any number of requests and rows.          *)
(***************************************************************************)
EXTENDS Warehouse, FiniteSetTheorems, TLAPS

Creating(c, s) == call[c].step = s

\* Identity values are given once, and the index keeps numbers apart.
IdInv ==
  /\ \A w \in warehouse : w.id \in 1..last
  /\ \A l \in location : l.id \in 1..last /\ l.home <= last
  /\ \A v, w \in warehouse : v.id = w.id \/ v.num = w.num => v = w
  /\ \A c \in Call : call[c] # Idle => \A i \in call[c].seen : i <= last

FiniteInv == IsFiniteSet(warehouse) /\ IsFiniteSet(location)

\* A location names the warehouse it is in, and it names one that is there
\* if the foreign key is enforced.
HomeInv ==
  /\ \A l \in location, w \in warehouse : l.home = w.id => l.of = w.num
  /\ enforced => \A l \in location : \E w \in warehouse : w.num = l.of

\* While no warehouse has been deleted, a number is at most the count, and
\* a create's is above those of the rows it has counted.
WarehouseNumbers ==
  "warehouse" \notin gone =>
    /\ \A w \in warehouse : w.num[3] <= Cardinality(warehouse)
    /\ \A c \in Call : call[c].step = "warehouse" =>
         /\ call[c].num[3] <= Cardinality(warehouse) + 1
         /\ \A w \in warehouse : w.id \in call[c].seen => w.num[3] < call[c].num[3]

\* The same of locations, among those that are counted together.
Peers(f, t, k) == {l \in location : l.of = k /\ l.type = t /\ l.num[1] = f}

LocationNumbers ==
  gone = {} =>
    /\ \A l \in location :
         l.num[2] = l.type /\ l.num[3] <= Cardinality(Peers(l.num[1], l.type, l.of))
    /\ \A c \in Call : call[c].step = "location" =>
         /\ call[c].num[2] = call[c].type /\ call[c].of \in Nums(warehouse)
         /\ call[c].num[3] <= Cardinality(Peers(call[c].num[1], call[c].type, call[c].of)) + 1
         /\ \A l \in Peers(call[c].num[1], call[c].type, call[c].of) :
              l.id \in call[c].seen => l.num[3] < call[c].num[3]

IInv ==
  /\ TypeOK /\ IdInv /\ FiniteInv /\ HomeInv /\ LocationsStay
  /\ WarehouseNumbers /\ LocationNumbers
  /\ WarehouseRefusedNeedsCause /\ LocationRefusedNeedsCause

-----------------------------------------------------------------------------
(* What a create holds.                                                    *)

LEMMA CallShape ==
  ASSUME TypeOK, NEW c \in Call
  PROVE  /\ call[c] = Idle \/ call[c] \in Creates
         /\ call[c].step \in {"idle", "warehouse", "location", "refused"}
         /\ call[c].step = "idle" <=> call[c] = Idle
         /\ call[c].step # "idle" => call[c].seen \subseteq Nat /\ call[c].num \in Number
         /\ call[c].step = "warehouse" => "of" \notin DOMAIN call[c]
         /\ call[c].step = "location" =>
              "of" \in DOMAIN call[c] /\ call[c].of \in Number /\ call[c].type \in Type
         /\ "of" \in DOMAIN call[c] => call[c].of \in Number /\ call[c].type \in Type
BY DEF TypeOK, Creates, Idle

LEMMA CountType ==
  ASSUME FiniteInv
  PROVE  /\ Cardinality(warehouse) \in Nat
         /\ \A f, t, k : IsFiniteSet(Peers(f, t, k)) /\ Cardinality(Peers(f, t, k)) \in Nat
BY FS_Subset, FS_CardinalityType DEF FiniteInv, Peers

LEMMA NumType ==
  ASSUME TypeOK
  PROVE  /\ \A w \in warehouse : w.num[3] \in Nat
         /\ \A l \in location : l.num[3] \in Nat
         /\ \A c \in Call : call[c] # Idle => call[c].num[3] \in Nat
BY CallShape DEF TypeOK, Warehouses, Locations, Number

LEMMA GotoIs ==
  ASSUME TypeOK, NEW c \in Call, NEW x, Goto(c, x)
  PROVE  call'[c] = x /\ \A d \in Call \ {c} : call'[d] = call[d]
BY DEF TypeOK, Goto

\* What a refused create remembers.
LEMMA RefusedIs ==
  ASSUME TypeOK, NEW c \in Call, call[c].step \in {"warehouse", "location"},
         NEW x, x = [call[c] EXCEPT !.step = "refused"]
  PROVE  /\ x.step = "refused" /\ x.seen = call[c].seen /\ x.num = call[c].num
         /\ call[c].step = "warehouse" => "of" \notin DOMAIN x
         /\ call[c].step = "location" => "of" \in DOMAIN x /\ x.of = call[c].of
BY CallShape DEF Creates, Idle

LEMMA InsertIs ==
  ASSUME TypeOK, NEW c \in Call, InsertWarehouse(c) \/ InsertLocation(c)
  PROVE  /\ \A d \in Call \ {c} : call'[d] = call[d]
         /\ call'[c] = Idle \/ call'[c] = [call[c] EXCEPT !.step = "refused"]
         /\ call'[c].step \in {"idle", "refused"}
         /\ call'[c].step = "refused" =>
              /\ call'[c].seen = call[c].seen /\ call'[c].num = call[c].num
              /\ InsertWarehouse(c) => "of" \notin DOMAIN call'[c]
              /\ InsertLocation(c) => "of" \in DOMAIN call'[c] /\ call'[c].of = call[c].of
<1>1. call[c].step \in {"warehouse", "location"}
  BY DEF InsertWarehouse, InsertLocation
<1>2. Idle.step = "idle"
  BY DEF Idle
<1>3. \A d \in Call \ {c} : call'[d] = call[d]
  BY GotoIs DEF InsertWarehouse, InsertLocation
<1>4. call'[c] = Idle \/ call'[c] = [call[c] EXCEPT !.step = "refused"]
  BY GotoIs DEF InsertWarehouse, InsertLocation
<1>5. InsertWarehouse(c) => call[c].step = "warehouse"
  BY DEF InsertWarehouse
<1>6. InsertLocation(c) => call[c].step = "location"
  BY DEF InsertLocation
<1> QED
  BY <1>1, <1>2, <1>3, <1>4, <1>5, <1>6, RefusedIs

LEMMA HomeIdType == ASSUME TypeOK, NEW k PROVE HomeId(k) \in Nat
BY DEF TypeOK, Warehouses, HomeId, HomeOf

LEMMA StepFinite == FiniteInv /\ [Next]_vars => FiniteInv'
<1> SUFFICES ASSUME FiniteInv, [Next]_vars PROVE FiniteInv'
  OBVIOUS
<1> USE DEF FiniteInv
<1>1. ASSUME NEW c \in Call, NEW f \in Factory, NEW t \in Type, CountWarehouses(c, f, t) PROVE FiniteInv'
  BY <1>1 DEF CountWarehouses, Goto
<1>2. ASSUME NEW c \in Call, NEW f \in Factory, NEW t \in Type, NEW k \in Nums(warehouse), k[1] = f, CountLocations(c, f, t, k) PROVE FiniteInv'
  BY <1>2 DEF CountLocations, Goto
<1>3. ASSUME NEW c \in Call, InsertWarehouse(c) PROVE FiniteInv'
  <2>1. IsFiniteSet(warehouse \cup {NewWarehouse(c)})
    BY FS_AddElement
  <2> QED
    BY <1>3, <2>1 DEF InsertWarehouse
<1>4. ASSUME NEW c \in Call, InsertLocation(c) PROVE FiniteInv'
  <2>1. IsFiniteSet(location \cup {NewLocation(c)})
    BY FS_AddElement
  <2> QED
    BY <1>4, <2>1 DEF InsertLocation
<1>5. ASSUME NEW c \in Call, Answer(c) PROVE FiniteInv'
  BY <1>5 DEF Answer, Goto
<1>6. ASSUME NEW R \in SUBSET warehouse, DeleteWarehouses(R) PROVE FiniteInv'
  BY <1>6, FS_Subset DEF DeleteWarehouses
<1>7. ASSUME NEW R \in SUBSET location, DeleteLocations(R) PROVE FiniteInv'
  BY <1>7, FS_Subset DEF DeleteLocations
<1>8. ASSUME NEW l \in location, NEW t \in Type, NEW w \in warehouse, UpdateLocation(l, t, w) PROVE FiniteInv'
  BY <1>8, FS_AddElement, FS_RemoveElement DEF UpdateLocation
<1>9. CASE UNCHANGED vars
  BY <1>9 DEF vars
<1> QED
  BY <1>1, <1>2, <1>3, <1>4, <1>5, <1>6, <1>7, <1>8, <1>9 DEF Next, Create

LEMMA StepType == TypeOK /\ FiniteInv /\ [Next]_vars => TypeOK'
<1> SUFFICES ASSUME TypeOK, FiniteInv, [Next]_vars PROVE TypeOK'
  OBVIOUS
<1> USE DEF TypeOK, Creates, Idle, Number, Warehouses, Locations
<1>1. ASSUME NEW c \in Call, NEW f \in Factory, NEW t \in Type, CountWarehouses(c, f, t) PROVE TypeOK'
  <2>1. Cardinality(warehouse) \in Nat
    BY FS_CardinalityType DEF FiniteInv
  <2>2. Ids(warehouse) \subseteq Nat
    BY DEF Ids
  <2> QED
    BY <1>1, <2>1, <2>2 DEF CountWarehouses, Goto
<1>2. ASSUME NEW c \in Call, NEW f \in Factory, NEW t \in Type, NEW k \in Nums(warehouse), k[1] = f, CountLocations(c, f, t, k) PROVE TypeOK'
  <2>1. Cardinality({l \in location : l.of = k /\ l.type = t /\ l.num[1] = f}) \in Nat
    BY FS_CardinalityType, FS_Subset DEF FiniteInv
  <2>2. Ids(location) \subseteq Nat /\ k \in Number
    BY DEF Ids, Nums
  <2> QED
    BY <1>2, <2>1, <2>2 DEF CountLocations, Goto
<1>3. ASSUME NEW c \in Call, InsertWarehouse(c) PROVE TypeOK'
  BY <1>3, CallShape DEF InsertWarehouse, NewWarehouse, Goto
<1>4. ASSUME NEW c \in Call, InsertLocation(c) PROVE TypeOK'
  <2>1. NewLocation(c) \in Locations
    BY <1>4, CallShape, HomeIdType DEF InsertLocation, NewLocation
  <2> QED
    BY <1>4, <2>1 DEF InsertLocation, Goto
<1>5. ASSUME NEW c \in Call, Answer(c) PROVE TypeOK'
  BY <1>5 DEF Answer, Goto
<1>6. ASSUME NEW R \in SUBSET warehouse, DeleteWarehouses(R) PROVE TypeOK'
  BY <1>6 DEF DeleteWarehouses
<1>7. ASSUME NEW R \in SUBSET location, DeleteLocations(R) PROVE TypeOK'
  BY <1>7 DEF DeleteLocations
<1>8. ASSUME NEW l \in location, NEW t \in Type, NEW w \in warehouse, UpdateLocation(l, t, w) PROVE TypeOK'
  <2>1. Moved(l, t, w) \in Locations
    BY DEF Moved
  <2> QED
    BY <1>8, <2>1 DEF UpdateLocation
<1>9. CASE UNCHANGED vars
  BY <1>9 DEF vars
<1> QED
  BY <1>1, <1>2, <1>3, <1>4, <1>5, <1>6, <1>7, <1>8, <1>9 DEF Next, Create

\* The warehouse that has a number is the one a location written now is in.
LEMMA HomeIdIs ==
  ASSUME TypeOK, IdInv, NEW k
  PROVE  /\ \A w \in warehouse : w.num = k => HomeId(k) = w.id
         /\ HomeId(k) <= last
         /\ \A w \in warehouse : HomeId(k) = w.id => w.num = k
<1>1. CASE HomeOf(k) = {}
  BY <1>1 DEF TypeOK, IdInv, HomeId, HomeOf, Warehouses
<1>2. CASE HomeOf(k) # {}
  <2>1. PICK v \in warehouse : v.num = k /\ HomeId(k) = v.id
    BY <1>2 DEF HomeId, HomeOf
  <2> QED
    BY <2>1 DEF IdInv, TypeOK
<1> QED
  BY <1>1, <1>2

LEMMA MovedIs ==
  ASSUME TypeOK, NEW l \in location, NEW t, NEW w
  PROVE  /\ Moved(l, t, w).id = l.id /\ Moved(l, t, w).num = l.num
         /\ Moved(l, t, w).type = t /\ Moved(l, t, w).of = w.num /\ Moved(l, t, w).home = w.id
BY DEF TypeOK, Locations, Moved

LEMMA StepIds == TypeOK /\ IdInv /\ [Next]_vars => IdInv'
<1> SUFFICES ASSUME TypeOK, IdInv, [Next]_vars PROVE IdInv'
  OBVIOUS
<1> USE DEF IdInv, TypeOK
<1>1. ASSUME NEW c \in Call, NEW f \in Factory, NEW t \in Type, CountWarehouses(c, f, t) PROVE IdInv'
  <2>1. Idle \notin Creates /\ \A i \in Ids(warehouse) : i <= last
    BY DEF Idle, Creates, Ids
  <2> QED
    BY <1>1, <2>1 DEF CountWarehouses, Goto
<1>2. ASSUME NEW c \in Call, NEW f \in Factory, NEW t \in Type, NEW k \in Nums(warehouse), k[1] = f, CountLocations(c, f, t, k) PROVE IdInv'
  <2>1. \A i \in Ids(location) : i <= last
    BY DEF Ids
  <2> QED
    BY <1>2, <2>1 DEF CountLocations, Goto
<1>3. ASSUME NEW c \in Call, InsertWarehouse(c) PROVE IdInv'
  <2>1. \A d \in Call : call'[d] # Idle => call[d] # Idle /\ call'[d].seen = call[d].seen
    BY <1>3, CallShape DEF InsertWarehouse, Goto, Idle, Creates
  <2>2. CASE call[c].num \in Nums(warehouse)
    BY <1>3, <2>1, <2>2 DEF InsertWarehouse
  <2>3. CASE call[c].num \notin Nums(warehouse)
    <3>1. last' = last + 1 /\ warehouse' = warehouse \cup {NewWarehouse(c)} /\ location' = location
      BY <1>3, <2>3 DEF InsertWarehouse
    <3>2. NewWarehouse(c).id = last + 1 /\ \A w \in warehouse : w.num # NewWarehouse(c).num
      BY <2>3 DEF NewWarehouse, Nums
    <3>3. \A c1 \in Call : call'[c1] # Idle => \A i \in call'[c1].seen : i <= last'
      BY <2>1, <3>1, CallShape DEF Idle
    <3>4. \A w \in warehouse' : w.id \in 1..last'
      BY <3>1, <3>2
    <3>5. \A l \in location : l.id \in 1..last' /\ l.home <= last'
      BY <3>1 DEF Locations
    <3>6. \A v, w \in warehouse' : v.id = w.id \/ v.num = w.num => v = w
      BY <3>1, <3>2
    <3> QED
      BY <3>1, <3>3, <3>4, <3>5, <3>6
  <2> QED
    BY <2>2, <2>3
<1>4. ASSUME NEW c \in Call, InsertLocation(c) PROVE IdInv'
  <2>1. \A d \in Call : call'[d] # Idle => call[d] # Idle /\ call'[d].seen = call[d].seen
    BY <1>4, CallShape DEF InsertLocation, Goto, Idle, Creates
  <2>2. CASE UNCHANGED last
    BY <1>4, <2>1, <2>2 DEF InsertLocation
  <2>3. CASE last' = last + 1 /\ location' = location \cup {NewLocation(c)}
    <3>1. NewLocation(c).id = last + 1 /\ NewLocation(c).home <= last'
      BY <2>3, HomeIdIs, HomeIdType DEF NewLocation
    <3>2. \A d \in Call : call'[d] # Idle => \A i \in call'[d].seen : i <= last'
      BY <2>1, <2>3, CallShape DEF Idle
    <3>3. \A l \in location' : l.id \in 1..last' /\ l.home <= last'
      BY <2>3, <3>1 DEF Locations
    <3> QED
      BY <1>4, <2>3, <3>2, <3>3 DEF InsertLocation
  <2> QED
    BY <1>4, <2>2, <2>3 DEF InsertLocation
<1>5. ASSUME NEW c \in Call, Answer(c) PROVE IdInv'
  BY <1>5 DEF Answer, Goto
<1>6. ASSUME NEW R \in SUBSET warehouse, DeleteWarehouses(R) PROVE IdInv'
  BY <1>6 DEF DeleteWarehouses
<1>7. ASSUME NEW R \in SUBSET location, DeleteLocations(R) PROVE IdInv'
  BY <1>7 DEF DeleteLocations
<1>8. ASSUME NEW l \in location, NEW t \in Type, NEW w \in warehouse, UpdateLocation(l, t, w) PROVE IdInv'
  BY <1>8, MovedIs DEF UpdateLocation, Warehouses
<1>9. CASE UNCHANGED vars
  BY <1>9 DEF vars
<1> QED
  BY <1>1, <1>2, <1>3, <1>4, <1>5, <1>6, <1>7, <1>8, <1>9 DEF Next, Create

LEMMA StepHome == TypeOK /\ IdInv /\ HomeInv /\ [Next]_vars => HomeInv'
<1> SUFFICES ASSUME TypeOK, IdInv, HomeInv, [Next]_vars PROVE HomeInv'
  OBVIOUS
<1> USE DEF HomeInv
<1>1. ASSUME NEW c \in Call, NEW f \in Factory, NEW t \in Type, CountWarehouses(c, f, t) PROVE HomeInv'
  BY <1>1 DEF CountWarehouses, Goto
<1>2. ASSUME NEW c \in Call, NEW f \in Factory, NEW t \in Type, NEW k \in Nums(warehouse), k[1] = f, CountLocations(c, f, t, k) PROVE HomeInv'
  BY <1>2 DEF CountLocations, Goto
<1>3. ASSUME NEW c \in Call, InsertWarehouse(c) PROVE HomeInv'
  BY <1>3 DEF InsertWarehouse, NewWarehouse, TypeOK, IdInv, Warehouses, Locations
<1>4. ASSUME NEW c \in Call, InsertLocation(c) PROVE HomeInv'
  BY <1>4, HomeIdIs DEF InsertLocation, NewLocation, HomeOf
<1>5. ASSUME NEW c \in Call, Answer(c) PROVE HomeInv'
  BY <1>5 DEF Answer, Goto
<1>6. ASSUME NEW R \in SUBSET warehouse, DeleteWarehouses(R) PROVE HomeInv'
  BY <1>6 DEF DeleteWarehouses, LocationsOf, IdInv
<1>7. ASSUME NEW R \in SUBSET location, DeleteLocations(R) PROVE HomeInv'
  BY <1>7 DEF DeleteLocations
<1>8. ASSUME NEW l \in location, NEW t \in Type, NEW w \in warehouse, UpdateLocation(l, t, w) PROVE HomeInv'
  BY <1>8, MovedIs DEF UpdateLocation, IdInv
<1>9. CASE UNCHANGED vars
  BY <1>9 DEF vars
<1> QED
  BY <1>1, <1>2, <1>3, <1>4, <1>5, <1>6, <1>7, <1>8, <1>9 DEF Next, Create

LEMMA StepStay == TypeOK /\ IdInv /\ HomeInv /\ LocationsStay /\ [Next]_vars => LocationsStay'
<1> SUFFICES ASSUME TypeOK, IdInv, HomeInv, LocationsStay, [Next]_vars PROVE LocationsStay'
  OBVIOUS
<1> USE DEF LocationsStay, LocationsOf, Ids
<1>1. ASSUME NEW c \in Call, NEW f \in Factory, NEW t \in Type, CountWarehouses(c, f, t) PROVE LocationsStay'
  BY <1>1 DEF CountWarehouses, Goto
<1>2. ASSUME NEW c \in Call, NEW f \in Factory, NEW t \in Type, NEW k \in Nums(warehouse), k[1] = f, CountLocations(c, f, t, k) PROVE LocationsStay'
  BY <1>2 DEF CountLocations, Goto
<1>3. ASSUME NEW c \in Call, InsertWarehouse(c) PROVE LocationsStay'
  BY <1>3 DEF InsertWarehouse, NewWarehouse, TypeOK, IdInv, HomeInv, Warehouses, Locations, Nums
<1>4. ASSUME NEW c \in Call, InsertLocation(c) PROVE LocationsStay'
  BY <1>4, HomeIdIs DEF InsertLocation, NewLocation
<1>5. ASSUME NEW c \in Call, Answer(c) PROVE LocationsStay'
  BY <1>5 DEF Answer, Goto
<1>6. ASSUME NEW R \in SUBSET warehouse, DeleteWarehouses(R) PROVE LocationsStay'
  BY <1>6 DEF DeleteWarehouses
<1>7. ASSUME NEW R \in SUBSET location, DeleteLocations(R) PROVE LocationsStay'
  BY <1>7 DEF DeleteLocations
<1>8. ASSUME NEW l \in location, NEW t \in Type, NEW w \in warehouse, UpdateLocation(l, t, w) PROVE LocationsStay'
  BY <1>8, MovedIs DEF UpdateLocation, IdInv
<1>9. CASE UNCHANGED vars
  BY <1>9 DEF vars
<1> QED
  BY <1>1, <1>2, <1>3, <1>4, <1>5, <1>6, <1>7, <1>8, <1>9 DEF Next, Create

LEMMA StepWarehouseNumbers == TypeOK /\ IdInv /\ FiniteInv /\ WarehouseNumbers /\ [Next]_vars => WarehouseNumbers'
<1> SUFFICES ASSUME TypeOK, IdInv, FiniteInv, WarehouseNumbers, [Next]_vars PROVE WarehouseNumbers'
  OBVIOUS
<1> USE DEF WarehouseNumbers
<1>1. ASSUME NEW c \in Call, NEW f \in Factory, NEW t \in Type, CountWarehouses(c, f, t) PROVE WarehouseNumbers'
  <2>1. CASE "warehouse" \in gone
    BY <1>1, <2>1 DEF CountWarehouses
  <2>2. CASE "warehouse" \notin gone
    <3>1. \A d \in Call \ {c} : call'[d] = call[d]
      BY <1>1 DEF CountWarehouses, Goto
    <3>2. call'[c].num[3] = Cardinality(warehouse) + 1
      BY <1>1 DEF CountWarehouses, Goto, TypeOK
    <3>3. \A w \in warehouse : w.num[3] < Cardinality(warehouse) + 1
      BY <2>2, NumType, CountType
    <3> QED
      BY <1>1, <2>2, <3>1, <3>2, <3>3, CountType DEF CountWarehouses
  <2> QED
    BY <2>1, <2>2
<1>2. ASSUME NEW c \in Call, NEW f \in Factory, NEW t \in Type, NEW k \in Nums(warehouse), k[1] = f, CountLocations(c, f, t, k) PROVE WarehouseNumbers'
  <2>1. \A d \in Call : call'[d].step = "warehouse" => call'[d] = call[d]
    BY <1>2, CallShape DEF CountLocations, Goto, Idle, Creates
  <2> QED
    BY <1>2, <2>1 DEF CountLocations
<1>3. ASSUME NEW c \in Call, InsertWarehouse(c) PROVE WarehouseNumbers'
  <2>1. \A d \in Call : call'[d].step = "warehouse" => call'[d] = call[d]
    BY <1>3, InsertIs
  <2>2. CASE call[c].num \in Nums(warehouse)
    BY <1>3, <2>1, <2>2 DEF InsertWarehouse
  <2>3. CASE call[c].num \notin Nums(warehouse)
    <3>1. warehouse' = warehouse \cup {NewWarehouse(c)} /\ gone' = gone
      BY <1>3, <2>3 DEF InsertWarehouse
    <3>2. NewWarehouse(c).id = last + 1 /\ NewWarehouse(c).num = call[c].num /\ NewWarehouse(c) \notin warehouse
      BY DEF NewWarehouse, IdInv, TypeOK
    <3>3. Cardinality(warehouse') = Cardinality(warehouse) + 1
      BY <3>1, <3>2, FS_AddElement DEF FiniteInv
    <3>4. \A d \in Call : call[d] # Idle => NewWarehouse(c).id \notin call[d].seen
      BY <3>2, CallShape DEF IdInv, TypeOK
    <3>5. ASSUME "warehouse" \notin gone, NEW w \in warehouse'
          PROVE  w.num[3] <= Cardinality(warehouse')
      BY <1>3, <3>1, <3>2, <3>3, <3>5, NumType, CountType DEF InsertWarehouse
    <3>6. ASSUME "warehouse" \notin gone, NEW d \in Call, call'[d].step = "warehouse"
          PROVE  /\ call'[d].num[3] <= Cardinality(warehouse') + 1
                 /\ \A w \in warehouse' : w.id \in call'[d].seen => w.num[3] < call'[d].num[3]
      <4>1. call'[d] = call[d] /\ call[d] # Idle
        BY <2>1, <3>6 DEF Idle
      <4> QED
        BY <3>1, <3>3, <3>4, <3>6, <4>1, NumType, CountType
    <3> QED
      BY <3>1, <3>5, <3>6
  <2> QED
    BY <2>2, <2>3
<1>4. ASSUME NEW c \in Call, InsertLocation(c) PROVE WarehouseNumbers'
  <2>1. \A d \in Call : call'[d].step = "warehouse" => call'[d] = call[d]
    BY <1>4, InsertIs
  <2> QED
    BY <1>4, <2>1 DEF InsertLocation
<1>5. ASSUME NEW c \in Call, Answer(c) PROVE WarehouseNumbers'
  <2>1. \A d \in Call : call'[d].step = "warehouse" => call'[d] = call[d]
    BY <1>5, CallShape DEF Answer, Goto, Idle, Creates
  <2> QED
    BY <1>5, <2>1 DEF Answer
<1>6. ASSUME NEW R \in SUBSET warehouse, DeleteWarehouses(R) PROVE WarehouseNumbers'
  BY <1>6 DEF DeleteWarehouses
<1>7. ASSUME NEW R \in SUBSET location, DeleteLocations(R) PROVE WarehouseNumbers'
  BY <1>7 DEF DeleteLocations
<1>8. ASSUME NEW l \in location, NEW t \in Type, NEW w \in warehouse, UpdateLocation(l, t, w) PROVE WarehouseNumbers'
  BY <1>8 DEF UpdateLocation
<1>9. CASE UNCHANGED vars
  BY <1>9 DEF vars
<1> QED
  BY <1>1, <1>2, <1>3, <1>4, <1>5, <1>6, <1>7, <1>8, <1>9 DEF Next, Create

LEMMA StepWarehouseRefused == TypeOK /\ IdInv /\ WarehouseNumbers /\ WarehouseRefusedNeedsCause /\ [Next]_vars => WarehouseRefusedNeedsCause'
<1> SUFFICES ASSUME TypeOK, IdInv, WarehouseNumbers, WarehouseRefusedNeedsCause, [Next]_vars PROVE WarehouseRefusedNeedsCause'
  OBVIOUS
<1> USE DEF WarehouseRefusedNeedsCause, Clash, Refused
<1>1. ASSUME NEW c \in Call, NEW f \in Factory, NEW t \in Type, CountWarehouses(c, f, t) PROVE WarehouseRefusedNeedsCause'
  <2>1. \A d \in Call : Refused(d)' => call'[d] = call[d]
    BY <1>1, GotoIs DEF CountWarehouses
  <2> QED
    BY <1>1, <2>1 DEF CountWarehouses
<1>2. ASSUME NEW c \in Call, NEW f \in Factory, NEW t \in Type, NEW k \in Nums(warehouse), k[1] = f, CountLocations(c, f, t, k) PROVE WarehouseRefusedNeedsCause'
  <2>1. \A d \in Call : Refused(d)' => call'[d] = call[d]
    BY <1>2, GotoIs DEF CountLocations
  <2> QED
    BY <1>2, <2>1 DEF CountLocations
<1>3. ASSUME NEW c \in Call, InsertWarehouse(c) PROVE WarehouseRefusedNeedsCause'
  <2>1. \A d \in Call : Refused(d)' => call'[d] = call[d] \/ d = c
    BY <1>3, InsertIs
  <2>2. warehouse \subseteq warehouse' /\ gone' = gone
    BY <1>3 DEF InsertWarehouse
  <2>3. ASSUME Refused(c)', "warehouse" \notin gone PROVE \E w \in Clash(c, warehouse)' : w.id \notin call'[c].seen
    <3>1. call[c].num \in Nums(warehouse) /\ call'[c].num = call[c].num /\ call'[c].seen = call[c].seen /\ warehouse' = warehouse
      <4>1. call'[c].step = "refused"
        BY <2>3
      <4>2. call[c].num \in Nums(warehouse) /\ warehouse' = warehouse
        BY <1>3, <4>1, GotoIs DEF InsertWarehouse, Idle
      <4> QED
        BY <1>3, <4>1, <4>2, InsertIs
    <3>2. PICK w \in warehouse : w.num = call[c].num
      BY <3>1 DEF Nums
    <3>3. call[c] # Idle
      BY <1>3 DEF InsertWarehouse, Idle
    <3>4. w.id \notin call[c].seen
      BY <1>3, <2>3, <3>2, <3>3, NumType DEF InsertWarehouse, WarehouseNumbers
    <3> QED
      BY <3>1, <3>2, <3>4
  <2> QED
    BY <2>1, <2>2, <2>3
<1>4. ASSUME NEW c \in Call, InsertLocation(c) PROVE WarehouseRefusedNeedsCause'
  <2>1. \A d \in Call : Refused(d)' => call'[d] = call[d] \/ "of" \in DOMAIN call'[d]
    BY <1>4, InsertIs
  <2> QED
    BY <1>4, <2>1 DEF InsertLocation
<1>5. ASSUME NEW c \in Call, Answer(c) PROVE WarehouseRefusedNeedsCause'
  <2>1. \A d \in Call : Refused(d)' => call'[d] = call[d]
    BY <1>5, GotoIs DEF Answer, Idle
  <2> QED
    BY <1>5, <2>1 DEF Answer
<1>6. ASSUME NEW R \in SUBSET warehouse, DeleteWarehouses(R) PROVE WarehouseRefusedNeedsCause'
  BY <1>6 DEF DeleteWarehouses
<1>7. ASSUME NEW R \in SUBSET location, DeleteLocations(R) PROVE WarehouseRefusedNeedsCause'
  BY <1>7 DEF DeleteLocations
<1>8. ASSUME NEW l \in location, NEW t \in Type, NEW w \in warehouse, UpdateLocation(l, t, w) PROVE WarehouseRefusedNeedsCause'
  BY <1>8 DEF UpdateLocation
<1>9. CASE UNCHANGED vars
  BY <1>9 DEF vars
<1> QED
  BY <1>1, <1>2, <1>3, <1>4, <1>5, <1>6, <1>7, <1>8, <1>9 DEF Next, Create

LEMMA StepLocationNumbers == TypeOK /\ IdInv /\ FiniteInv /\ LocationNumbers /\ [Next]_vars => LocationNumbers'
<1> SUFFICES ASSUME TypeOK, IdInv, FiniteInv, LocationNumbers, [Next]_vars PROVE LocationNumbers'
  OBVIOUS
<1> USE DEF LocationNumbers
<1>1. ASSUME NEW c \in Call, NEW f \in Factory, NEW t \in Type, CountWarehouses(c, f, t) PROVE LocationNumbers'
  <2>1. \A d \in Call : call'[d].step = "location" => call'[d] = call[d]
    BY <1>1, GotoIs DEF CountWarehouses
  <2>2. UNCHANGED <<location, warehouse, gone>>
    BY <1>1 DEF CountWarehouses
  <2> QED
    BY <2>1, <2>2 DEF Peers, Nums
<1>2. ASSUME NEW c \in Call, NEW f \in Factory, NEW t \in Type, NEW k \in Nums(warehouse), k[1] = f, CountLocations(c, f, t, k) PROVE LocationNumbers'
  <2>1. /\ \A d \in Call \ {c} : call'[d] = call[d]
        /\ call'[c].num = <<f, t, Cardinality(Peers(f, t, k)) + 1>>
        /\ call'[c].num[3] = Cardinality(Peers(f, t, k)) + 1
        /\ call'[c].of = k /\ call'[c].type = t
    <3>1. call'[c] = [step |-> "location", seen |-> Ids(location), of |-> k, type |-> t,
                      num |-> <<f, t, Cardinality(Peers(f, t, k)) + 1>>]
      BY <1>2, GotoIs DEF CountLocations, Peers
    <3>2. \A d \in Call \ {c} : call'[d] = call[d]
      BY <1>2, GotoIs DEF CountLocations
    <3> QED
      BY <3>1, <3>2
  <2>2. UNCHANGED <<location, warehouse, gone>>
    BY <1>2 DEF CountLocations
  <2>3. \A f1, t1, k1 : Peers(f1, t1, k1)' = Peers(f1, t1, k1)
    BY <2>2 DEF Peers
  <2>4. ASSUME gone = {}, NEW l \in Peers(f, t, k) PROVE l.num[3] < call'[c].num[3]
    <3>1. l.num[3] <= Cardinality(Peers(f, t, k))
      BY <2>4 DEF Peers
    <3>2. l.num[3] \in Nat
      BY NumType DEF Peers
    <3> QED
      BY <2>1, <3>1, <3>2, CountType
  <2>5. ASSUME gone = {}, NEW d \in Call, call'[d].step = "location"
        PROVE  /\ call'[d].num[2] = call'[d].type /\ call'[d].of \in Nums(warehouse)
               /\ call'[d].num[3] <= Cardinality(Peers(call'[d].num[1], call'[d].type, call'[d].of)) + 1
               /\ \A l \in Peers(call'[d].num[1], call'[d].type, call'[d].of) :
                    l.id \in call'[d].seen => l.num[3] < call'[d].num[3]
    <3>1. CASE d = c
      BY <2>1, <2>4, <2>5, <3>1, CountType
    <3>2. CASE d # c
      BY <2>1, <2>5, <3>2
    <3> QED
      BY <3>1, <3>2
  <2>6. Nums(warehouse)' = Nums(warehouse)
    BY <2>2
  <2> QED
    BY <2>2, <2>3, <2>5, <2>6
<1>3. ASSUME NEW c \in Call, InsertWarehouse(c) PROVE LocationNumbers'
  <2>1. \A d \in Call : call'[d].step = "location" => call'[d] = call[d]
    BY <1>3, InsertIs
  <2>2. location' = location /\ gone' = gone /\ Nums(warehouse) \subseteq Nums(warehouse)'
    BY <1>3 DEF InsertWarehouse, Nums
  <2>3. \A f1, t1, k1 : Peers(f1, t1, k1)' = Peers(f1, t1, k1)
    BY <2>2 DEF Peers
  <2> QED
    BY <2>1, <2>2, <2>3
<1>4. ASSUME NEW c \in Call, InsertLocation(c) PROVE LocationNumbers'
  <2>1. \A d \in Call : call'[d].step = "location" => call'[d] = call[d]
    BY <1>4, InsertIs
  <2>2. warehouse' = warehouse /\ gone' = gone /\ Nums(warehouse)' = Nums(warehouse)
    BY <1>4 DEF InsertLocation
  <2>3. CASE location' = location
    <3>1. \A f1, t1, k1 : Peers(f1, t1, k1)' = Peers(f1, t1, k1)
      BY <2>3 DEF Peers
    <3> QED
      BY <2>1, <2>2, <2>3, <3>1
  <2>4. CASE location' = location \cup {NewLocation(c)}
    <3>1. PICK n : n = NewLocation(c)
      OBVIOUS
    <3>2. /\ n.id = last + 1 /\ n.num = call[c].num /\ n.type = call[c].type /\ n.of = call[c].of
          /\ n \notin location
      BY <3>1 DEF NewLocation, IdInv, TypeOK
    <3>3. \A f1, t1, k1 : Peers(f1, t1, k1)' =
            IF n.of = k1 /\ n.type = t1 /\ n.num[1] = f1 THEN Peers(f1, t1, k1) \cup {n} ELSE Peers(f1, t1, k1)
      BY <2>4, <3>1 DEF Peers
    <3>4. \A f1, t1, k1 : n \notin Peers(f1, t1, k1)
      BY <3>2 DEF Peers
    <3>5. \A f1, t1, k1 : Cardinality(Peers(f1, t1, k1)') =
            IF n.of = k1 /\ n.type = t1 /\ n.num[1] = f1
            THEN Cardinality(Peers(f1, t1, k1)) + 1 ELSE Cardinality(Peers(f1, t1, k1))
      BY <3>3, <3>4, CountType, FS_AddElement
    <3>6. ASSUME gone = {}, NEW l \in location'
          PROVE  l.num[2] = l.type /\ l.num[3] <= Cardinality(Peers(l.num[1], l.type, l.of)')
      <4>1. CASE l = n
        BY <1>4, <3>2, <3>5, <3>6, <4>1 DEF InsertLocation
      <4>2. CASE l \in location
        BY <3>5, <3>6, <4>2, NumType, CountType
      <4> QED
        BY <2>4, <3>1, <4>1, <4>2
    <3>7. ASSUME gone = {}, NEW d \in Call, call'[d].step = "location", NEW f1, NEW t1, NEW k1,
                 f1 = call[d].num[1], t1 = call[d].type, k1 = call[d].of
          PROVE  /\ call[d].num[3] <= Cardinality(Peers(f1, t1, k1)') + 1
                 /\ \A l \in Peers(f1, t1, k1)' : l.id \in call[d].seen => l.num[3] < call[d].num[3]
      <4>1. call[d] # Idle /\ call[d].step = "location"
        BY <2>1, <3>7 DEF Idle
      <4>2. n.id \notin call[d].seen
        BY <3>2, <4>1, CallShape DEF IdInv, TypeOK
      <4>3. call[d].num[3] \in Nat
        BY <4>1, NumType
      <4>4. /\ call[d].num[3] <= Cardinality(Peers(f1, t1, k1)) + 1
            /\ \A l \in Peers(f1, t1, k1) : l.id \in call[d].seen => l.num[3] < call[d].num[3]
        BY <3>7, <4>1
      <4> QED
        BY <3>3, <3>5, <4>2, <4>3, <4>4, CountType
    <3> QED
      BY <2>1, <2>2, <3>6, <3>7
  <2> QED
    BY <1>4, <2>3, <2>4 DEF InsertLocation
<1>5. ASSUME NEW c \in Call, Answer(c) PROVE LocationNumbers'
  <2>1. \A d \in Call : call'[d].step = "location" => call'[d] = call[d]
    BY <1>5, GotoIs DEF Answer, Idle
  <2>2. UNCHANGED <<location, gone>> /\ Nums(warehouse)' = Nums(warehouse)
    BY <1>5 DEF Answer
  <2>3. \A f1, t1, k1 : Peers(f1, t1, k1)' = Peers(f1, t1, k1)
    BY <2>2 DEF Peers
  <2> QED
    BY <2>1, <2>2, <2>3
<1>6. ASSUME NEW R \in SUBSET warehouse, DeleteWarehouses(R) PROVE LocationNumbers'
  BY <1>6 DEF DeleteWarehouses
<1>7. ASSUME NEW R \in SUBSET location, DeleteLocations(R) PROVE LocationNumbers'
  BY <1>7 DEF DeleteLocations
<1>8. ASSUME NEW l \in location, NEW t \in Type, NEW w \in warehouse, UpdateLocation(l, t, w) PROVE LocationNumbers'
  BY <1>8 DEF UpdateLocation
<1>9. CASE UNCHANGED vars
  BY <1>9 DEF vars, Peers, Nums
<1> QED
  BY <1>1, <1>2, <1>3, <1>4, <1>5, <1>6, <1>7, <1>8, <1>9 DEF Next, Create

LEMMA StepLocationRefused == TypeOK /\ IdInv /\ LocationNumbers /\ LocationRefusedNeedsCause /\ [Next]_vars => LocationRefusedNeedsCause'
<1> SUFFICES ASSUME TypeOK, IdInv, LocationNumbers, LocationRefusedNeedsCause, [Next]_vars PROVE LocationRefusedNeedsCause'
  OBVIOUS
<1> USE DEF LocationRefusedNeedsCause, Clash, Refused
<1>1. ASSUME NEW c \in Call, NEW f \in Factory, NEW t \in Type, CountWarehouses(c, f, t) PROVE LocationRefusedNeedsCause'
  <2>1. \A d \in Call : Refused(d)' => call'[d] = call[d]
    BY <1>1, GotoIs DEF CountWarehouses
  <2> QED
    BY <1>1, <2>1 DEF CountWarehouses
<1>2. ASSUME NEW c \in Call, NEW f \in Factory, NEW t \in Type, NEW k \in Nums(warehouse), k[1] = f, CountLocations(c, f, t, k) PROVE LocationRefusedNeedsCause'
  <2>1. \A d \in Call : Refused(d)' => call'[d] = call[d]
    BY <1>2, GotoIs DEF CountLocations
  <2> QED
    BY <1>2, <2>1 DEF CountLocations
<1>3. ASSUME NEW c \in Call, InsertWarehouse(c) PROVE LocationRefusedNeedsCause'
  <2>1. \A d \in Call : Refused(d)' => call'[d] = call[d] \/ "of" \notin DOMAIN call'[d]
    BY <1>3, InsertIs
  <2> QED
    BY <1>3, <2>1 DEF InsertWarehouse
<1>4. ASSUME NEW c \in Call, InsertLocation(c) PROVE LocationRefusedNeedsCause'
  <2>1. \A d \in Call : Refused(d)' => call'[d] = call[d] \/ d = c
    BY <1>4, InsertIs
  <2>2. location \subseteq location' /\ gone' = gone
    BY <1>4 DEF InsertLocation
  <2>3. ASSUME Refused(c)', gone = {}
        PROVE  \E l \in Clash(c, location)' : l.id \notin call'[c].seen \/ l.of # call'[c].of
    <3>1. call'[c].step = "refused" /\ call[c].step = "location" /\ call[c] # Idle
      BY <1>4, <2>3 DEF InsertLocation, Idle
    <3>2. /\ call[c].num \in Nums(location) \/ HomeOf(call[c].of) = {}
          /\ location' = location
      BY <1>4, <3>1, GotoIs DEF InsertLocation, Idle
    <3>3. HomeOf(call[c].of) # {}
      BY <2>3, <3>1 DEF LocationNumbers, HomeOf, Nums
    <3>4. PICK l \in location : l.num = call[c].num
      BY <3>2, <3>3 DEF Nums
    <3>5. ASSUME l.id \in call[c].seen, l.of = call[c].of PROVE FALSE
      <4>1. l.type = call[c].type
        BY <2>3, <3>1, <3>4 DEF LocationNumbers
      <4>2. l \in Peers(call[c].num[1], call[c].type, call[c].of)
        BY <3>4, <3>5, <4>1 DEF Peers
      <4> QED
        BY <2>3, <3>1, <3>4, <3>5, <4>2, NumType DEF LocationNumbers
    <3>6. call'[c].seen = call[c].seen /\ call'[c].num = call[c].num /\ call'[c].of = call[c].of
      BY <1>4, <3>1, InsertIs
    <3> QED
      BY <3>2, <3>4, <3>5, <3>6
  <2> QED
    BY <2>1, <2>2, <2>3
<1>5. ASSUME NEW c \in Call, Answer(c) PROVE LocationRefusedNeedsCause'
  <2>1. \A d \in Call : Refused(d)' => call'[d] = call[d]
    BY <1>5, GotoIs DEF Answer, Idle
  <2> QED
    BY <1>5, <2>1 DEF Answer
<1>6. ASSUME NEW R \in SUBSET warehouse, DeleteWarehouses(R) PROVE LocationRefusedNeedsCause'
  BY <1>6 DEF DeleteWarehouses
<1>7. ASSUME NEW R \in SUBSET location, DeleteLocations(R) PROVE LocationRefusedNeedsCause'
  BY <1>7 DEF DeleteLocations
<1>8. ASSUME NEW l \in location, NEW t \in Type, NEW w \in warehouse, UpdateLocation(l, t, w) PROVE LocationRefusedNeedsCause'
  BY <1>8 DEF UpdateLocation
<1>9. CASE UNCHANGED vars
  BY <1>9 DEF vars
<1> QED
  BY <1>1, <1>2, <1>3, <1>4, <1>5, <1>6, <1>7, <1>8, <1>9 DEF Next, Create

-----------------------------------------------------------------------------
LEMMA InitIInv == Init => IInv
<1> SUFFICES ASSUME Init PROVE IInv
  OBVIOUS
<1>1. TypeOK /\ IdInv /\ HomeInv /\ LocationsStay
  BY DEF Init, TypeOK, Idle, IdInv, HomeInv, LocationsStay
<1>2. FiniteInv
  BY FS_EmptySet DEF Init, FiniteInv
<1>3. WarehouseNumbers /\ LocationNumbers
  BY DEF Init, Idle, WarehouseNumbers, LocationNumbers
<1>4. WarehouseRefusedNeedsCause /\ LocationRefusedNeedsCause
  BY DEF Init, Idle, WarehouseRefusedNeedsCause, LocationRefusedNeedsCause, Refused
<1> QED
  BY <1>1, <1>2, <1>3, <1>4 DEF IInv

LEMMA StepIInv == IInv /\ [Next]_vars => IInv'
BY StepType, StepIds, StepFinite, StepHome, StepStay, StepWarehouseNumbers, StepLocationNumbers,
   StepWarehouseRefused, StepLocationRefused DEF IInv

\* The inductive invariant holds in every reachable state.
THEOREM Inductive == Spec => []IInv
BY InitIInv, StepIInv, PTL DEF Spec

\* Every reachable state is well typed.
THEOREM TypeCorrect == Spec => []TypeOK
<1>1. IInv => TypeOK
  BY DEF IInv
<1> QED
  BY <1>1, Inductive, PTL

\* However many requests create rows, a number is refused only after a
\* deletion or a change, to a create that was overtaken, or to a location
\* that shares its factory and type with one of another warehouse.
THEOREM RefusedNeedsCauseAlways == Spec => []RefusedNeedsCause
<1>1. IInv => RefusedNeedsCause
  BY DEF IInv, RefusedNeedsCause
<1> QED
  BY <1>1, Inductive, PTL

\* The locations of a warehouse were created in it or moved to it, except
\* those a deleted one of its number has left where no key is enforced.
THEOREM LocationsStayAlways == Spec => []LocationsStay
<1>1. IInv => LocationsStay
  BY DEF IInv
<1> QED
  BY <1>1, Inductive, PTL
=============================================================================
