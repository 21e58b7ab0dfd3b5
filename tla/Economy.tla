------------------------------- MODULE Economy -------------------------------
(***************************************************************************)
(* The database thread's requests about gold and items                     *)
(* (Project1/DatabaseThread.cpp): the shop, the inventory, the player's    *)
(* data.  One request at a time; each is one action that runs its          *)
(* statements in order and answers.                                        *)
(*                                                                         *)
(* The connection to the database is part of the state.  Purchases and     *)
(* item removals send several statements in one query, read the result of  *)
(* the first and leave the others unread.  From then on the client library *)
(* refuses every command ("commands out of sync"), and nothing ever reads  *)
(* the rest: only a new process has a connection that works.               *)
(*                                                                         *)
(* Integers.  Word stands for 2^32, the range of the requests' uint32;     *)
(* IntMax for the largest value of an INT column.  The server refuses a    *)
(* statement that would exceed it.                                         *)
(***************************************************************************)
EXTENDS Integers

CONSTANTS
    Users,          \* accounts
    Goods,          \* item_master.item_id
    Items,          \* item ids that requests may carry, known or not
    Price,          \* item_master.base_price
    Word,           \* 2^32
    StartGold,      \* gold and items of a new account
    StartItems,
    NoRow,          \* there is no such row
    NoReply,
    QueryOutcomes   \* how a statement may end, see DatabaseThread

IntMax == Word \div 2 - 1

ASSUME EconomyAssumption ==
    /\ Word \in Nat /\ Word > 1
    /\ Goods \subseteq Items /\ StartItems \subseteq Goods
    /\ Price \in [Goods -> 0..IntMax]
    /\ StartGold \in 0..IntMax /\ 1 \in 0..IntMax
    /\ NoRow \notin Int
    /\ QueryOutcomes \subseteq {"ok", "error", "lost", "fresh"} /\ "ok" \in QueryOutcomes

VARIABLES
    gold,       \* player_data.gold
    items,      \* player_inventory.item_count
    unread,     \* the connection has results that nobody will read
    reply       \* the response the last step enqueued

tables == <<gold, items>>
vars == <<tables, unread, reply>>

\* what may happen to the next statement
MayFail == unread \/ QueryOutcomes \cap {"error", "lost"} # {}
MayBreak == ~unread /\ "lost" \in QueryOutcomes      \* took effect, reported as failed
MayReopen == ~unread /\ "fresh" \in QueryOutcomes    \* on a connection just re-opened

Fits(n) == n \in 0..IntMax
HasRow(u, i) == i \in Goods /\ items[u][i] # NoRow
Held(u, i) == IF HasRow(u, i) THEN items[u][i] ELSE 0

Answer(kind, u, i, n, result, shown, listed) ==
    reply' = [kind |-> kind, user |-> u, item |-> i, count |-> n, result |-> result,
              gold |-> shown, listed |-> listed]

\* an answer that shows nothing, to a request that changed no table
Refuse(kind, u, i, n, result) ==
    /\ Answer(kind, u, i, n, result, 0, {})
    /\ UNCHANGED <<tables, unread>>

-----------------------------------------------------------------------------
(* Purchase.  The price times the count is a uint32 product.               *)

Total(i, n) == (Price[i] * n) % Word

\* Mutant: the price of one item is compared, not that of all.
AffordsOne(u, i, n) == gold[u] >= Price[i]

Affords(u, i, n) == gold[u] >= Total(i, n)

\* Mutant: items bought replace those of the same kind.
PurchaseReplaces(u, i, n) ==
    /\ gold' = [gold EXCEPT ![u] = @ - Total(i, n)]
    /\ items' = [items EXCEPT ![u][i] = n]

\* the UPDATE and the INSERT ... ON DUPLICATE KEY UPDATE of the transaction, committed
PurchaseApplied(u, i, n) ==
    /\ gold' = [gold EXCEPT ![u] = @ - Total(i, n)]
    /\ items' = [items EXCEPT ![u][i] = Held(u, i) + n]

Buyable(u, i) == ~unread /\ i \in Goods /\ gold[u] # NoRow

\* the price query fails, or its result cannot be fetched, or START TRANSACTION fails
PurchaseQueryFails(u, i, n) ==
    \/ MayFail /\ Refuse("Purchase", u, i, n, "FAIL")
    \/ MayBreak /\ Refuse("Purchase", u, i, n, "ITEM_NOT_FOUND")

PurchaseNotFound(u, i, n) ==
    /\ ~unread
    /\ i \notin Goods \/ gold[u] = NoRow
    /\ Refuse("Purchase", u, i, n, "ITEM_NOT_FOUND")

PurchaseTooDear(u, i, n) ==
    /\ Buyable(u, i)
    /\ ~Affords(u, i, n)
    /\ Refuse("Purchase", u, i, n, "INSUFFICIENT_GOLD")

\* START TRANSACTION succeeded: that is all the code learns of the four statements
PurchaseAcknowledged(u, i, n) ==
    /\ Buyable(u, i) /\ Affords(u, i, n)
    /\ \/ /\ Fits(Held(u, i) + n)
          /\ PurchaseApplied(u, i, n)
       \/ /\ MayFail \/ ~Fits(Held(u, i) + n)
          /\ UNCHANGED tables
    /\ unread' = TRUE
    /\ Answer("Purchase", u, i, n, "SUCCESS", gold[u] - Total(i, n), {})

\* the connection broke before the first result came; the server went on
PurchaseUnknown(u, i, n) ==
    /\ Buyable(u, i) /\ Affords(u, i, n)
    /\ MayBreak
    /\ Fits(Held(u, i) + n)
    /\ PurchaseApplied(u, i, n)
    /\ Answer("Purchase", u, i, n, "FAIL", 0, {})
    /\ UNCHANGED unread

HandleShopPurchase(u, i, n) ==
    \/ PurchaseQueryFails(u, i, n)
    \/ PurchaseNotFound(u, i, n)
    \/ PurchaseTooDear(u, i, n)
    \/ PurchaseAcknowledged(u, i, n)
    \/ PurchaseUnknown(u, i, n)

-----------------------------------------------------------------------------
(* Sale.  A transaction of single statements: START TRANSACTION, 1 the      *)
(* count goes down, 2 a row of 0 is deleted, 3 the gold goes up, 4 COMMIT.  *)

SellPrice(i, n) == ((Price[i] \div 2) * n) % Word
PayFits(u, i, n) == gold[u] # NoRow => Fits(gold[u] + SellPrice(i, n))

\* Mutant: there is no transaction, every statement is committed by itself.
SaleEffectUnbracketed(f, k) == (1..k) \cap 1..3

\* Which statements last, if the first k succeeded: all or, after the final ROLLBACK, none
\* (a ROLLBACK that fails has no connection, and the server rolls back by itself).  But a
\* connection that is re-opened before statement f has lost the transaction, and from
\* there on every statement is committed by itself.
SaleEffect(f, k) ==
    IF f > 0 THEN (f..k) \cap 1..3
    ELSE IF k = 4 THEN 1..3 ELSE {}

SaleTables(u, i, n, S) ==
    LET left == IF 1 \in S THEN items[u][i] - n ELSE items[u][i] IN
    /\ items' = [items EXCEPT ![u][i] = IF 2 \in S /\ left = 0 THEN NoRow ELSE left]
    /\ gold' = [gold EXCEPT ![u] = IF 3 \in S /\ @ # NoRow THEN @ + SellPrice(i, n) ELSE @]

SaleQueryFails(u, i, n) ==
    \/ MayFail /\ Refuse("Sale", u, i, n, "FAIL")
    \/ MayBreak /\ Refuse("Sale", u, i, n, "ITEM_NOT_FOUND")

SaleRefused(u, i, n) ==
    /\ ~unread
    /\ HasRow(u, i) => items[u][i] < n
    /\ Refuse("Sale", u, i, n, "ITEM_NOT_FOUND")

SaleExecuted(u, i, n) ==
    /\ ~unread /\ HasRow(u, i) /\ items[u][i] >= n
    /\ \E f \in 0..4, k \in 0..4 :
          /\ f > 0 => MayReopen /\ f <= k
          /\ k >= 3 => PayFits(u, i, n)
          /\ k < 4 => MayFail \/ (k = 2 /\ ~PayFits(u, i, n))
          /\ SaleTables(u, i, n, SaleEffect(f, k))
          /\ \/ /\ k = 4 /\ gold[u] # NoRow
                /\ Answer("Sale", u, i, n, "SUCCESS", gold'[u], {})
             \* a statement failed, COMMIT was lost, or the gold cannot be read afterwards
             \/ /\ k < 4 \/ MayFail \/ gold[u] = NoRow
                /\ Answer("Sale", u, i, n, "FAIL", 0, {})
    /\ UNCHANGED unread

HandleShopSell(u, i, n) ==
    \/ SaleQueryFails(u, i, n)
    \/ SaleRefused(u, i, n)
    \/ SaleExecuted(u, i, n)

-----------------------------------------------------------------------------
(* The inventory and the player's data.  Left out, as they concern neither *)
(* gold nor items: the lookup of one item (item request type 3), and the   *)
(* update of level, position and so on (player data request type 1).       *)

AddApplied(u, i, n) ==
    /\ i \in Goods /\ Fits(Held(u, i) + n)
    /\ items' = [items EXCEPT ![u][i] = Held(u, i) + n]
    /\ UNCHANGED <<gold, unread>>

AddItem(u, i, n) ==
    \/ ~unread /\ AddApplied(u, i, n) /\ Answer("AddItem", u, i, n, "SUCCESS", 0, {})
    \/ MayBreak /\ AddApplied(u, i, n) /\ Answer("AddItem", u, i, n, "FAIL", 0, {})
    \/ /\ MayFail \/ i \notin Goods \/ ~Fits(Held(u, i) + n)
       /\ Refuse("AddItem", u, i, n, "FAIL")

RemoveApplied(u, i, n) ==
    /\ items' = IF ~HasRow(u, i) THEN items
                ELSE [items EXCEPT ![u][i] = IF @ > n THEN @ - n ELSE NoRow]
    /\ UNCHANGED gold

\* four statements in one query, like a purchase
RemoveItem(u, i, n) ==
    \/ /\ ~unread
       /\ RemoveApplied(u, i, n) \/ (MayFail /\ UNCHANGED tables)
       /\ unread' = TRUE
       /\ Answer("RemoveItem", u, i, n, "SUCCESS", 0, {})
    \/ /\ MayBreak
       /\ RemoveApplied(u, i, n)
       /\ Answer("RemoveItem", u, i, n, "FAIL", 0, {})
       /\ UNCHANGED unread
    \/ MayFail /\ Refuse("RemoveItem", u, i, n, "FAIL")

\* item_count of request type 1 and 2 is any uint32
HandleItemModification(u, i, n) == AddItem(u, i, n) \/ RemoveItem(u, i, n)

\* the rows of the query, which joins player_data
Inventory(u) == IF gold[u] = NoRow THEN {} ELSE {i \in Goods : items[u][i] # NoRow}

HandleItemDataRequest(u) ==
    /\ \/ /\ ~unread
          /\ Answer("ItemData", u, NoRow, 0, "SUCCESS",
                    IF Inventory(u) = {} THEN 0 ELSE gold[u], Inventory(u))
       \/ /\ MayFail
          /\ Answer("ItemData", u, NoRow, 0, "SUCCESS", 0, {})
    /\ UNCHANGED <<tables, unread>>

HandlePlayerDataRequest(u) ==
    /\ \/ /\ ~unread /\ gold[u] # NoRow
          /\ Answer("PlayerData", u, NoRow, 0, "SUCCESS", gold[u], {})
       \/ /\ MayFail \/ gold[u] = NoRow
          /\ Answer("PlayerData", u, NoRow, 0, "USER_NOT_FOUND", 0, {})
    /\ UNCHANGED <<tables, unread>>

SaveApplied(u, g) ==
    /\ gold[u] # NoRow /\ Fits(g)
    /\ gold' = [gold EXCEPT ![u] = g]
    /\ UNCHANGED <<items, unread>>

\* a row that does not change, or changes unnoticed, is reported as not found
HandleSavePlayerDataRequest(u, g) ==
    \/ /\ ~unread
       /\ SaveApplied(u, g)
       /\ \/ Answer("SavePlayerData", u, NoRow, g, "SUCCESS", 0, {})
          \/ /\ g = gold[u] \/ MayBreak
             /\ Answer("SavePlayerData", u, NoRow, g, "USER_NOT_FOUND", 0, {})
    \/ /\ MayFail \/ gold[u] = NoRow \/ ~Fits(g)
       /\ Refuse("SavePlayerData", u, NoRow, g, "USER_NOT_FOUND")

\* requests the Validate functions refuse: an id of 0, a count of 0, an unknown type
Rejected(u) ==
    \/ Refuse("Shop", u, NoRow, 0, "FAIL")
    \/ Refuse("ItemData", u, NoRow, 0, "INVALID_USER")
    \/ Refuse("PlayerData", u, NoRow, 0, "INVALID_USER")
    \/ Refuse("SavePlayerData", u, NoRow, 0, "FAIL")

-----------------------------------------------------------------------------
\* a new process, with a new connection; the server rolls open transactions back
Restart ==
    /\ unread' = FALSE
    /\ reply' = NoReply
    /\ UNCHANGED tables

\* CreateDefaultPlayerData, of which any statement may have failed
Init ==
    /\ gold \in [Users -> {StartGold, NoRow}]
    /\ items \in [Users -> {[i \in Goods |-> NoRow],
                            [i \in Goods |-> IF i \in StartItems THEN 1 ELSE NoRow]}]
    /\ unread = FALSE
    /\ reply = NoReply

Uint32 == 0..(Word - 1)

Request(u) ==
    \/ \E i \in Items, n \in Uint32 \ {0} : HandleShopPurchase(u, i, n) \/ HandleShopSell(u, i, n)
    \/ \E i \in Items, n \in Uint32 : HandleItemModification(u, i, n)
    \/ HandleItemDataRequest(u)
    \/ HandlePlayerDataRequest(u)
    \/ \E g \in Uint32 : HandleSavePlayerDataRequest(u, g)
    \/ Rejected(u)

Next == (\E u \in Users : Request(u)) \/ Restart

Spec == Init /\ [][Next]_vars
-----------------------------------------------------------------------------
\* Gold and counts stay within their columns and never fall below zero, whatever the
\* products and sums of the requests come to.
TypeOK ==
    /\ gold \in [Users -> 0..IntMax \cup {NoRow}]
    /\ items \in [Users -> [Goods -> 0..IntMax \cup {NoRow}]]
    /\ unread \in BOOLEAN

Traded(kind, u, i, n) ==
    reply' # NoReply /\ reply'.kind = kind /\ reply'.user = u /\ reply'.item = i /\ reply'.count = n

\* Gold and items change together in a sale (game_server_flowcharts.html:519), and the
\* gold a seller is told is what there is.  Without player_data there is nobody to pay.
SaleAtomic ==
    [][\A u \in Users, i \in Goods, n \in Uint32 :
          Traded("Sale", u, i, n) /\ gold[u] # NoRow =>
             \/ /\ gold' = gold /\ items' = items
                /\ reply'.result # "SUCCESS"
             \/ /\ gold'[u] = gold[u] + SellPrice(i, n)
                /\ Held(u, i)' = Held(u, i) - n
                /\ reply'.result = "SUCCESS" => reply'.gold = gold'[u]]_vars

Worth(u, i) == gold[u] + Price[i] * Held(u, i)

\* The shop gives nothing away: what a player owns is worth the same after a purchase
\* and not more after a sale, unless the product of price and count exceeded 32 bits.
ShopKeepsWorth ==
    [][\A u \in Users, i \in Goods, n \in Uint32 :
          gold[u] # NoRow =>
             /\ Traded("Purchase", u, i, n) /\ Price[i] * n < Word => Worth(u, i)' = Worth(u, i)
             /\ Traded("Sale", u, i, n) => Worth(u, i)' <= Worth(u, i)]_vars

\* A client that is told its inventory is empty has none (DatabaseThread.cpp:680).
EmptyMeansEmpty ==
    reply # NoReply /\ reply.kind = "ItemData" /\ reply.result = "SUCCESS" /\ reply.listed = {}
        => Inventory(reply.user) = {}
=============================================================================
