------------------------------- MODULE Orders -------------------------------
(***************************************************************************)
(* The queue of undelivered orders of the TPC-C tables (tpcctables.cc):    *)
(* newOrder puts an order into it, delivery takes them out.  The queue is  *)
(* the tree neworders_, a map ordered by its packed keys (what BTree       *)
(* implements).  A transaction runs inside one section of the lock and is  *)
(* one step here.                                                          *)
(***************************************************************************)
EXTENDS Integers, FiniteSetsExt, Bitwise

CONSTANTS
  Warehouses,           \* the w_ids
  NumPerWarehouse,      \* District::NUM_PER_WAREHOUSE
  MaxWarehouseId,       \* Warehouse::MAX_WAREHOUSE_ID
  Customers,            \* customers_per_district of the generator, and so its orders
  NewOrders,            \* new_orders_per_district: the last of them are undelivered
  MaxOrders,            \* bound: the order ids of a district
  MaxDeliveries         \* bound: delivery transactions of a warehouse

Districts == 1..NumPerWarehouse

VARIABLES
  neworders,    \* neworders_: pairs of a key and a row <<w_id, d_id, o_id>>
  open,         \* open[w][d]: the orders_ whose o_carrier_id is NULL_CARRIER_ID
  next_o_id,    \* d_next_o_id
  delivered     \* history: delivery transactions of a warehouse
vars == <<neworders, open, next_o_id, delivered>>

makeNewOrderKey(w, d, o) == ((w * MaxWarehouseId + d) * 256) | o
Entry(w, d, o) == <<makeNewOrderKey(w, d, o), <<w, d, o>>>>
Put(map, e) == {p \in map : p[1] # e[1]} \union {e}

Init ==
  LET new == (Customers - NewOrders + 1)..Customers
  IN  /\ neworders = {Entry(w, d, o) : w \in Warehouses, d \in Districts, o \in new}
      /\ open = [w \in Warehouses |-> [d \in Districts |-> new]]
      /\ next_o_id = [w \in Warehouses |-> [d \in Districts |-> Customers + 1]]
      /\ delivered = [w \in Warehouses |-> 0]

\* An order of items that exist; one of an item that does not changes nothing.
newOrder(w, d) ==
  LET o == next_o_id[w][d]
  IN  /\ o <= MaxOrders
      /\ next_o_id' = [next_o_id EXCEPT ![w][d] = @ + 1]
      /\ open' = [open EXCEPT ![w][d] = @ \union {o}]
      /\ neworders' = Put(neworders, Entry(w, d, o))
      /\ UNCHANGED delivered

\* What findLastLessThan finds, if it is a row of the district: at most one
ToDeliver(map, w, d) ==
  LET before == {p \in map : p[1] < makeNewOrderKey(w, d, 1)}
  IN  {p \in before : (\A q \in before : q[1] <= p[1]) /\ p[2][1] = w /\ p[2][2] = d}

delivery(w) ==
  LET after[d \in 0..NumPerWarehouse] ==    \* the queue after the first d districts
        IF d = 0 THEN neworders ELSE after[d - 1] \ ToDeliver(after[d - 1], w, d)
      gone == neworders \ after[NumPerWarehouse]
  IN  /\ delivered[w] < MaxDeliveries
      /\ delivered' = [delivered EXCEPT ![w] = @ + 1]
      /\ neworders' = after[NumPerWarehouse]
      /\ open' = [open EXCEPT ![w] = [d \in Districts |-> @[d] \ {p[2][3] : p \in {q \in gone : q[2][2] = d}}]]
      /\ UNCHANGED next_o_id

Next == \E w \in Warehouses : delivery(w) \/ \E d \in Districts : newOrder(w, d)
Spec == Init /\ [][Next]_vars

\* "Find and remove the lowest numbered order for the district": a delivery
\* takes the oldest undelivered order of each district of its warehouse that
\* has one, and no other.
DeliversLowest ==
  [][\A w \in Warehouses : delivered'[w] # delivered[w] =>
       \A d \in Districts : open'[w][d] = IF open[w][d] = {} THEN {}
                                          ELSE open[w][d] \ {Min(open[w][d])}]_vars
=============================================================================
