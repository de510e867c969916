------------------------------ MODULE OrderBook ------------------------------
(* crates/trading-domain/src/order_book.rs: price-time matching over a slab of
   orders.  An index of the slab is free, rests in one of the two sides of the
   book, or is the taker that is being matched.  Each side is sorted so that
   its best order is last.  Owners are left out: nothing reads them. *)
EXTENDS Integers, Sequences, SequencesExt

CONSTANTS Capacity,                     \* 65536 in the code
          MaxPrice, MaxQuantity, MaxTime, MaxOrders   \* bounds

VARIABLES orders, freeList, bids, asks, nextOrderId, currentTime,
          taker       \* the index place_order is matching, -1 between calls

bookVars == <<orders, freeList, bids, asks, nextOrderId, currentTime, taker>>

Slab == 0..(Capacity - 1)
Untaken == -1
book(side) == IF side = "Buy" THEN bids ELSE asks
opposite(side) == IF side = "Buy" THEN "Sell" ELSE "Buy"
remaining(i) == orders[i].quantity - orders[i].filled
setBook(side, s) == IF side = "Buy" THEN bids' = s /\ asks' = asks ELSE asks' = s /\ bids' = bids

Init ==
  /\ orders = [i \in Slab |-> [id |-> 0, price |-> 0, quantity |-> 0, filled |-> 0, side |-> "Buy",
                               timestamp |-> 0, status |-> "Cancelled"]]
  /\ freeList = [i \in 1..Capacity |-> Capacity - i]
  /\ bids = <<>> /\ asks = <<>> /\ nextOrderId = 0 /\ currentTime = 0 /\ taker = Untaken

setTime(t) ==
  /\ taker = Untaken /\ currentTime' = t
  /\ UNCHANGED <<orders, freeList, bids, asks, nextOrderId, taker>>

(* place_order, up to the matching: without a free index the order is dropped
   although its caller gets an id. *)
placeOrder(price, quantity, side) ==
  /\ taker = Untaken /\ nextOrderId < MaxOrders /\ nextOrderId' = nextOrderId + 1
  /\ IF freeList = <<>> THEN UNCHANGED <<orders, freeList, taker>>
     ELSE /\ taker' = Last(freeList) /\ freeList' = Front(freeList)
          /\ orders' = [orders EXCEPT ![Last(freeList)] =
                [id |-> nextOrderId, price |-> price, quantity |-> quantity, filled |-> 0,
                 side |-> side, timestamp |-> currentTime, status |-> "Open"]]
  /\ UNCHANGED <<bids, asks, currentTime>>

canMatch(maker, i) ==
  IF orders[i].side = "Buy" THEN orders[maker].price <= orders[i].price
                            ELSE orders[maker].price >= orders[i].price

matching ==
  /\ taker # Untaken /\ remaining(taker) > 0
  /\ book(opposite(orders[taker].side)) # <<>>
  /\ canMatch(Last(book(opposite(orders[taker].side))), taker)

(* One round of match_loop: the fill, and a filled maker leaves the book. *)
fill ==
  /\ matching
  /\ LET side == opposite(orders[taker].side)
         maker == Last(book(side))
         quantity == Min({remaining(taker), remaining(maker)})
         isFilled == quantity = remaining(maker)
     IN /\ orders' = [orders EXCEPT ![maker].filled = @ + quantity, ![taker].filled = @ + quantity,
                                    ![maker].status = IF isFilled THEN "Filled" ELSE @]
        /\ setBook(side, IF isFilled THEN Front(book(side)) ELSE book(side))
        /\ freeList' = IF isFilled THEN Append(freeList, maker) ELSE freeList
  /\ UNCHANGED <<nextOrderId, currentTime, taker>>

(* The order of a side, worst first: price, then the younger timestamp. *)
worse(i, j, side) ==
  \/ IF side = "Buy" THEN orders[i].price < orders[j].price ELSE orders[i].price > orders[j].price
  \/ orders[i].price = orders[j].price /\ orders[i].timestamp > orders[j].timestamp

(* Where binary_search_by may put index i in book s: at any of its equals, or
   between the worse and the better. *)
insertPoints(s, i, side) ==
  LET equals == {p \in 1..Len(s) : ~worse(s[p], i, side) /\ ~worse(i, s[p], side)}
  IN IF equals # {} THEN equals
     ELSE {Cardinality({p \in 1..Len(s) : worse(s[p], i, side)}) + 1}

\* Mutant: the taker's index is returned to the free list although it rests.
FreeAlways(rests, i) == Append(freeList, i)

freeAfter(rests, i) == IF rests THEN freeList ELSE Append(freeList, i)

(* The end of place_order: what remains rests in the book. *)
rest ==
  /\ taker # Untaken /\ ~matching
  /\ LET rests == remaining(taker) > 0  side == orders[taker].side IN
     /\ IF rests THEN \E p \in insertPoints(book(side), taker, side) :
                        setBook(side, InsertAt(book(side), p, taker)) /\ UNCHANGED orders
                 ELSE orders' = [orders EXCEPT ![taker].status = "Filled"] /\ UNCHANGED <<bids, asks>>
     /\ freeList' = freeAfter(rests, taker)
  /\ taker' = Untaken
  /\ UNCHANGED <<nextOrderId, currentTime>>

(* cancel_order finds an order by its id in the side it is told. *)
cancelOrder(p, side) ==
  /\ taker = Untaken /\ p \in 1..Len(book(side))
  /\ orders' = [orders EXCEPT ![book(side)[p]].status = "Cancelled"]
  /\ freeList' = Append(freeList, book(side)[p])
  /\ setBook(side, RemoveAt(book(side), p))
  /\ UNCHANGED <<nextOrderId, currentTime, taker>>

Next ==
  \/ \E t \in 0..MaxTime : setTime(t)
  \/ \E price \in 1..MaxPrice, quantity \in 1..MaxQuantity, side \in {"Buy", "Sell"} :
       placeOrder(price, quantity, side)
  \/ fill \/ rest
  \/ \E p \in 1..Capacity, side \in {"Buy", "Sell"} : cancelOrder(p, side)

Spec == Init /\ [][Next]_bookVars

TypeOK ==
  /\ freeList \in Seq(Slab) /\ bids \in Seq(Slab) /\ asks \in Seq(Slab)
  /\ nextOrderId \in 0..MaxOrders /\ currentTime \in 0..MaxTime /\ taker \in Slab \cup {Untaken}
  /\ orders \in [Slab -> [id : 0..MaxOrders, price : 0..MaxPrice, quantity : 0..MaxQuantity,
                          filled : 0..MaxQuantity, side : {"Buy", "Sell"}, timestamp : 0..MaxTime,
                          status : {"Open", "Filled", "Cancelled"}]]

(* No index is freed twice or lost. *)
SlabPartition ==
  LET all == freeList \o bids \o asks \o (IF taker = Untaken THEN <<>> ELSE <<taker>>)
  IN Len(all) = Capacity /\ ToSet(all) = Slab

(* Each side lists its open orders, worst first. *)
SidesSorted ==
  \A side \in {"Buy", "Sell"} : \A p \in 1..Len(book(side)) :
    /\ orders[book(side)[p]].side = side /\ orders[book(side)[p]].status = "Open"
    /\ remaining(book(side)[p]) > 0
    /\ \A r \in 1..(p - 1) : ~worse(book(side)[p], book(side)[r], side)

(* Between calls the book is not crossed: whatever could trade has traded. *)
Uncrossed ==
  taker = Untaken /\ bids # <<>> /\ asks # <<>> => orders[Last(bids)].price < orders[Last(asks)].price

(* Over any sequence of orders, fills, cancellations and clock settings, clocks
   that go back included: the slab leaks nothing, the best order of each side
   is the one the matcher takes, and the book is uncrossed
   (order_book.rs:78, 140, 162, 270, 370). *)
BookSound == SlabPartition /\ SidesSorted /\ Uncrossed
=============================================================================
