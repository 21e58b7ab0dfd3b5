---------------------------- MODULE EconomyProofs ----------------------------
(***************************************************************************)
(* Proofs about Economy, for every set of users and items, all prices, and *)
(* any word that holds them.  As in DatabaseThreadProofs, a lemma per kind *)
(* of request says what it can do to the tables and what it answers.       *)
(***************************************************************************)
EXTENDS Economy, TLAPS

\* A product of naturals is a natural and grows with either factor.
LEMMA Products ==
    ASSUME NEW a \in Nat, NEW b \in Nat, NEW c \in Nat, a <= b
    PROVE  /\ a * c \in Nat
           /\ b * c \in Nat
           /\ a * c <= b * c
  <1>1. \A x \in Nat : x * c \in Nat
    BY SMT
  <1>2. (b - a) * c \in Nat
    BY <1>1
  <1>3. b * c = a * c + (b - a) * c
    BY SMT
  <1> QED BY <1>1, <1>2, <1>3

\* What is left of a natural after it is cut to a word.
LEMMA Remainders ==
    ASSUME NEW a \in Nat
    PROVE  /\ a % Word \in Nat
           /\ a % Word < Word
           /\ a % Word <= a
           /\ a < Word => a % Word = a
  <1>1. Word \in Nat /\ Word > 0
    BY EconomyAssumption
  <1> QED BY <1>1

\* The prices a purchase or a sale computes are uint32s, and a sale's is at most the
\* shop's price for as many.
LEMMA Prices ==
    ASSUME NEW i \in Goods, NEW n \in Uint32
    PROVE  /\ Price[i] \in Nat
           /\ n \in Nat
           /\ Price[i] * n \in Nat
           /\ Total(i, n) \in Nat
           /\ Price[i] * n < Word => Total(i, n) = Price[i] * n
           /\ SellPrice(i, n) \in Nat
           /\ SellPrice(i, n) <= Price[i] * n
  <1>1. Price[i] \in Nat /\ n \in Nat
    BY EconomyAssumption DEF Uint32, IntMax
  <1>2. Price[i] \div 2 \in Nat /\ Price[i] \div 2 <= Price[i]
    BY <1>1
  <1>3. /\ (Price[i] \div 2) * n \in Nat
        /\ Price[i] * n \in Nat
        /\ (Price[i] \div 2) * n <= Price[i] * n
    BY <1>1, <1>2, Products
  <1>4. /\ SellPrice(i, n) \in Nat
        /\ SellPrice(i, n) <= (Price[i] \div 2) * n
    BY <1>3, Remainders DEF SellPrice
  <1>5. /\ Total(i, n) \in Nat
        /\ Price[i] * n < Word => Total(i, n) = Price[i] * n
    BY <1>3, Remainders DEF Total
  <1>6. SellPrice(i, n) <= Price[i] * n
    <2> DEFINE s == SellPrice(i, n)
               h == (Price[i] \div 2) * n
               p == Price[i] * n
    <2>1. s \in Nat /\ h \in Nat /\ p \in Nat /\ s <= h /\ h <= p
      BY <1>3, <1>4
    <2> HIDE DEF s, h, p
    <2>2. s <= p
      BY <2>1
    <2> QED BY <2>2 DEF s, p
  <1> QED BY <1>1, <1>3, <1>4, <1>5, <1>6

-----------------------------------------------------------------------------
\* A number that fits is a value of an INT column; a missing row is not a number.
LEMMA Columns ==
    ASSUME TypeOK, NEW u \in Users, NEW i \in Goods
    PROVE  /\ NoRow \notin Nat
           /\ \A x : Fits(x) => x \in 0..IntMax
           /\ gold[u] \in 0..IntMax \cup {NoRow}
           /\ items[u][i] \in 0..IntMax \cup {NoRow}
           /\ IntMax \in Nat
           /\ Held(u, i) \in Nat
           /\ HasRow(u, i) => Held(u, i) = items[u][i] /\ items[u][i] \in Nat
  <1>1. NoRow \notin Int /\ Word \in Nat /\ Word > 1
    BY EconomyAssumption
  <1>2. IntMax \in Nat
    BY <1>1 DEF IntMax
  <1> QED BY <1>1, <1>2 DEF TypeOK, Fits, Held, HasRow

\* What changes in one account leaves the types of the tables alone.
LEMMA TypesStep ==
    ASSUME TypeOK, unread' \in BOOLEAN,
           NEW u \in Users, NEW g, gold' = [gold EXCEPT ![u] = g], g \in 0..IntMax \cup {NoRow},
           NEW i \in Goods, NEW x, items' = [items EXCEPT ![u][i] = x],
           x \in 0..IntMax \cup {NoRow}
    PROVE  TypeOK'
  BY DEF TypeOK, IntMax

\* A purchase is paid for and takes effect as a whole, or changes no table.
LEMMA PurchaseStep ==
    ASSUME NEW u \in Users, NEW i \in Items, NEW n \in Uint32, HandleShopPurchase(u, i, n)
    PROVE  /\ \/ /\ i \in Goods /\ gold[u] # NoRow
                 /\ Affords(u, i, n) /\ Fits(Held(u, i) + n)
                 /\ PurchaseApplied(u, i, n)
              \/ UNCHANGED tables
           /\ unread' = TRUE \/ unread' = unread
           /\ reply'.kind = "Purchase" /\ reply'.user = u /\ reply'.item = i
           /\ reply'.count = n
  <1>1. CASE PurchaseQueryFails(u, i, n) \/ PurchaseNotFound(u, i, n) \/ PurchaseTooDear(u, i, n)
    BY <1>1 DEF PurchaseQueryFails, PurchaseNotFound, PurchaseTooDear, Refuse, Answer
  <1>2. CASE PurchaseAcknowledged(u, i, n) \/ PurchaseUnknown(u, i, n)
    BY <1>2 DEF PurchaseAcknowledged, PurchaseUnknown, Buyable, Answer
  <1> QED BY <1>1, <1>2 DEF HandleShopPurchase

\* The statements of a sale that may last.
LEMMA SaleEffects ==
    ASSUME NEW f \in 0..4, NEW k \in 0..4
    PROVE  /\ \A x \in SaleEffect(f, k) : x \in 1..3 /\ x <= k
           /\ f = 0 /\ k < 4 => SaleEffect(f, k) = {}
           /\ f = 0 /\ k = 4 => {1, 2, 3} \subseteq SaleEffect(f, k)
  BY DEF SaleEffect

\* A sale changes no table, or its statements take effect as SaleTables says.
LEMMA SaleStep ==
    ASSUME NEW u \in Users, NEW i \in Items, NEW n \in Uint32, HandleShopSell(u, i, n)
    PROVE  /\ \/ /\ UNCHANGED tables
                 /\ reply'.result # "SUCCESS"
              \/ \E f \in 0..4, k \in 0..4 :
                    /\ f > 0 => "fresh" \in QueryOutcomes
                    /\ HasRow(u, i) /\ items[u][i] >= n
                    /\ k >= 3 => PayFits(u, i, n)
                    /\ SaleTables(u, i, n, SaleEffect(f, k))
                    /\ reply'.result = "SUCCESS" => k = 4 /\ reply'.gold = gold'[u]
           /\ UNCHANGED unread
           /\ reply'.kind = "Sale" /\ reply'.user = u /\ reply'.item = i
           /\ reply'.count = n
  <1>1. CASE SaleQueryFails(u, i, n) \/ SaleRefused(u, i, n)
    BY <1>1 DEF SaleQueryFails, SaleRefused, Refuse, Answer
  <1>2. CASE SaleExecuted(u, i, n)
    <2>1. PICK f \in 0..4, k \in 0..4 :
             /\ f > 0 => MayReopen /\ f <= k
             /\ k >= 3 => PayFits(u, i, n)
             /\ SaleTables(u, i, n, SaleEffect(f, k))
             /\ \/ /\ k = 4
                   /\ Answer("Sale", u, i, n, "SUCCESS", gold'[u], {})
                \/ Answer("Sale", u, i, n, "FAIL", 0, {})
      BY <1>2 DEF SaleExecuted
    <2> HIDE DEF SaleTables, SaleEffect, PayFits
    <2>2. reply'.result = "SUCCESS" => k = 4 /\ reply'.gold = gold'[u]
      BY <2>1 DEF Answer
    <2>3. HasRow(u, i) /\ items[u][i] >= n /\ UNCHANGED unread
      BY <1>2 DEF SaleExecuted
    <2>4. reply'.kind = "Sale" /\ reply'.user = u /\ reply'.item = i /\ reply'.count = n
      BY <2>1 DEF Answer
    <2> QED BY <2>1, <2>2, <2>3, <2>4 DEF MayReopen
  <1> QED BY <1>1, <1>2 DEF HandleShopSell

\* A request to add or remove items changes no gold, and one count at most.
LEMMA ModificationStep ==
    ASSUME TypeOK, NEW u \in Users, NEW i \in Items, NEW n \in Uint32,
           HandleItemModification(u, i, n)
    PROVE  /\ UNCHANGED gold
           /\ \/ UNCHANGED items
              \/ i \in Goods /\ \E x \in 0..IntMax \cup {NoRow} :
                                   items' = [items EXCEPT ![u][i] = x]
           /\ unread' = TRUE \/ unread' = unread
           /\ reply'.kind \in {"AddItem", "RemoveItem"}
  <1>1. CASE AddItem(u, i, n)
    <2>1. Fits(Held(u, i) + n) => Held(u, i) + n \in 0..IntMax
      BY DEF Fits
    <2> QED BY <1>1, <2>1 DEF AddItem, AddApplied, Refuse, Answer, tables
  <1>2. CASE RemoveItem(u, i, n)
    <2>1. CASE RemoveApplied(u, i, n) /\ HasRow(u, i)
      <3>1. i \in Goods /\ n \in Nat
        BY <2>1, EconomyAssumption DEF HasRow, Uint32
      <3> DEFINE x == IF items[u][i] > n THEN items[u][i] - n ELSE NoRow
      <3>2. x \in 0..IntMax \cup {NoRow}
        BY <2>1, <3>1, Columns DEF HasRow
      <3>3. items' = [items EXCEPT ![u][i] = x]
        BY <2>1, <3>1 DEF RemoveApplied, TypeOK
      <3> HIDE DEF x
      <3>4. UNCHANGED gold
        BY <2>1 DEF RemoveApplied
      <3>5. /\ unread' = TRUE \/ unread' = unread
            /\ reply'.kind = "RemoveItem"
        BY <1>2 DEF RemoveItem, Refuse, Answer
      <3> QED BY <3>1, <3>2, <3>3, <3>4, <3>5
    <2>2. CASE ~(RemoveApplied(u, i, n) /\ HasRow(u, i))
      BY <1>2, <2>2 DEF RemoveItem, RemoveApplied, Refuse, Answer, tables
    <2> QED BY <2>1, <2>2
  <1> QED BY <1>1, <1>2 DEF HandleItemModification

\* The remaining requests change no items, and no gold but by a save.
LEMMA OtherStep ==
    ASSUME NEW u \in Users,
           \/ HandleItemDataRequest(u)
           \/ HandlePlayerDataRequest(u)
           \/ \E g \in Uint32 : HandleSavePlayerDataRequest(u, g)
           \/ Rejected(u)
    PROVE  /\ UNCHANGED <<items, unread>>
           /\ \/ UNCHANGED gold
              \/ \E g \in 0..IntMax : gold' = [gold EXCEPT ![u] = g]
           /\ reply'.kind \in {"ItemData", "PlayerData", "SavePlayerData", "Shop"}
  <1>1. CASE HandleItemDataRequest(u) \/ HandlePlayerDataRequest(u)
    BY <1>1 DEF HandleItemDataRequest, HandlePlayerDataRequest, Answer, tables
  <1>2. ASSUME NEW g \in Uint32, HandleSavePlayerDataRequest(u, g)
        PROVE  /\ UNCHANGED <<items, unread>>
               /\ UNCHANGED gold \/ \E h \in 0..IntMax : gold' = [gold EXCEPT ![u] = h]
               /\ reply'.kind = "SavePlayerData"
    BY <1>2 DEF HandleSavePlayerDataRequest, SaveApplied, Fits, Refuse, Answer, tables
  <1>3. CASE Rejected(u)
    BY <1>3 DEF Rejected, Refuse, Answer, tables
  <1> QED BY <1>1, <1>2, <1>3

-----------------------------------------------------------------------------
\* The tables of a new account have their types.
LEMMA TypesInit == Init => TypeOK
  <1> SUFFICES ASSUME Init PROVE TypeOK
    OBVIOUS
  <1>1. StartGold \in 0..IntMax /\ 1 \in 0..IntMax
    BY EconomyAssumption
  <1>2. gold \in [Users -> 0..IntMax \cup {NoRow}]
    BY <1>1 DEF Init
  <1>3. items \in [Users -> [Goods -> 0..IntMax \cup {NoRow}]]
    <2>1. /\ [i \in Goods |-> NoRow] \in [Goods -> 0..IntMax \cup {NoRow}]
          /\ [i \in Goods |-> IF i \in StartItems THEN 1 ELSE NoRow]
                \in [Goods -> 0..IntMax \cup {NoRow}]
      BY <1>1
    <2>2. items \in [Users -> {[i \in Goods |-> NoRow],
                              [i \in Goods |-> IF i \in StartItems THEN 1 ELSE NoRow]}]
      BY DEF Init
    <2> QED BY <2>1, <2>2
  <1> QED BY <1>2, <1>3 DEF Init, TypeOK

\* Purchases keep the types: what is paid is there, and the new count fits.
LEMMA TypesPurchase ==
    ASSUME TypeOK, NEW u \in Users, NEW i \in Items, NEW n \in Uint32,
           HandleShopPurchase(u, i, n)
    PROVE  TypeOK'
  <1>1. unread' \in BOOLEAN
    BY PurchaseStep DEF TypeOK
  <1>2. CASE UNCHANGED tables
    BY <1>1, <1>2 DEF TypeOK, tables
  <1>3. CASE /\ i \in Goods /\ gold[u] # NoRow
             /\ Affords(u, i, n) /\ Fits(Held(u, i) + n)
             /\ PurchaseApplied(u, i, n)
    <2>1. gold[u] - Total(i, n) \in 0..IntMax
      BY <1>3, Prices, Columns DEF Affords
    <2>2. Held(u, i) + n \in 0..IntMax
      BY <1>3 DEF Fits
    <2>3. gold' = [gold EXCEPT ![u] = gold[u] - Total(i, n)]
      BY <1>3 DEF PurchaseApplied, TypeOK
    <2>4. items' = [items EXCEPT ![u][i] = Held(u, i) + n]
      BY <1>3 DEF PurchaseApplied
    <2> QED BY <1>1, <1>3, <2>1, <2>2, <2>3, <2>4, TypesStep
  <1> QED BY <1>2, <1>3, PurchaseStep

\* Sales keep the types, even if only some of their statements last.
LEMMA TypesSale ==
    ASSUME TypeOK, NEW u \in Users, NEW i \in Items, NEW n \in Uint32,
           HandleShopSell(u, i, n)
    PROVE  TypeOK'
  <1>1. unread' \in BOOLEAN
    BY SaleStep DEF TypeOK
  <1>2. CASE UNCHANGED tables
    BY <1>1, <1>2 DEF TypeOK, tables
  <1>3. ASSUME NEW f \in 0..4, NEW k \in 0..4,
               HasRow(u, i), items[u][i] >= n, k >= 3 => PayFits(u, i, n),
               SaleTables(u, i, n, SaleEffect(f, k))
        PROVE  TypeOK'
    <2> DEFINE S == SaleEffect(f, k)
               left == IF 1 \in S THEN items[u][i] - n ELSE items[u][i]
               x == IF 2 \in S /\ left = 0 THEN NoRow ELSE left
               g == IF 3 \in S /\ gold[u] # NoRow THEN gold[u] + SellPrice(i, n) ELSE gold[u]
    <2>1. i \in Goods /\ n \in Nat
      BY <1>3, EconomyAssumption DEF HasRow, Uint32
    <2>2. 3 \in S => k >= 3
      BY SaleEffects
    <2> HIDE DEF S
    <2>3. x \in 0..IntMax \cup {NoRow}
      BY <1>3, <2>1, Columns DEF HasRow
    <2>4. g \in 0..IntMax \cup {NoRow}
      BY <1>3, <2>1, <2>2, Columns DEF PayFits, Fits
    <2>5. gold' = [gold EXCEPT ![u] = g] /\ items' = [items EXCEPT ![u][i] = x]
      BY <1>3 DEF SaleTables, S, TypeOK
    <2> HIDE DEF x, g
    <2> QED BY <1>1, <2>1, <2>3, <2>4, <2>5, TypesStep
  <1> QED BY <1>2, <1>3, SaleStep

\* Gold and counts stay within their columns, whatever is bought, sold, added or saved.
THEOREM LedgerTypes == Spec => []TypeOK
  <1>1. ASSUME TypeOK, [Next]_vars
        PROVE  TypeOK'
    <2>1. ASSUME NEW u \in Users, NEW i \in Items, NEW n \in Uint32,
                 HandleShopPurchase(u, i, n) \/ HandleShopSell(u, i, n)
          PROVE  TypeOK'
      BY <1>1, <2>1, TypesPurchase, TypesSale
    <2>2. ASSUME NEW u \in Users, NEW i \in Items, NEW n \in Uint32,
                 HandleItemModification(u, i, n)
          PROVE  TypeOK'
      <3>1. UNCHANGED gold /\ unread' \in BOOLEAN
        BY <1>1, <2>2, ModificationStep DEF TypeOK
      <3>2. CASE UNCHANGED items
        BY <1>1, <3>1, <3>2 DEF TypeOK, IntMax
      <3>3. ASSUME i \in Goods, NEW x \in 0..IntMax \cup {NoRow},
                   items' = [items EXCEPT ![u][i] = x]
            PROVE  TypeOK'
        BY <1>1, <3>1, <3>3 DEF TypeOK, IntMax
      <3> QED BY <1>1, <2>2, <3>2, <3>3, ModificationStep
    <2>3. ASSUME NEW u \in Users,
                 \/ HandleItemDataRequest(u)
                 \/ HandlePlayerDataRequest(u)
                 \/ \E g \in Uint32 : HandleSavePlayerDataRequest(u, g)
                 \/ Rejected(u)
          PROVE  TypeOK'
      BY <1>1, <2>3, OtherStep DEF TypeOK, IntMax
    <2>4. CASE Restart \/ UNCHANGED vars
      BY <1>1, <2>4 DEF Restart, TypeOK, tables, vars
    <2> QED BY <1>1, <2>1, <2>2, <2>3, <2>4 DEF Next, Request
  <1> QED BY <1>1, TypesInit, PTL DEF Spec
-----------------------------------------------------------------------------
\* Only a purchase answers a purchase, only a sale a sale, and the answer names it.
LEMMA TradedBy ==
    ASSUME TypeOK, [Next]_vars, ~UNCHANGED vars,
           NEW u \in Users, NEW i \in Goods, NEW n \in Uint32
    PROVE  /\ Traded("Purchase", u, i, n) => HandleShopPurchase(u, i, n)
           /\ Traded("Sale", u, i, n) => HandleShopSell(u, i, n)
  <1>1. ASSUME NEW v \in Users, NEW j \in Items, NEW m \in Uint32, HandleShopPurchase(v, j, m)
        PROVE  /\ Traded("Purchase", u, i, n) => u = v /\ i = j /\ n = m
               /\ ~Traded("Sale", u, i, n)
    BY <1>1, PurchaseStep DEF Traded
  <1>2. ASSUME NEW v \in Users, NEW j \in Items, NEW m \in Uint32, HandleShopSell(v, j, m)
        PROVE  /\ Traded("Sale", u, i, n) => u = v /\ i = j /\ n = m
               /\ ~Traded("Purchase", u, i, n)
    BY <1>2, SaleStep DEF Traded
  <1>3. ASSUME NEW v \in Users, NEW j \in Items, NEW m \in Uint32,
               HandleItemModification(v, j, m)
        PROVE  ~Traded("Purchase", u, i, n) /\ ~Traded("Sale", u, i, n)
    BY <1>3, ModificationStep DEF Traded
  <1>4. ASSUME NEW v \in Users,
               \/ HandleItemDataRequest(v)
               \/ HandlePlayerDataRequest(v)
               \/ \E g \in Uint32 : HandleSavePlayerDataRequest(v, g)
               \/ Rejected(v)
        PROVE  ~Traded("Purchase", u, i, n) /\ ~Traded("Sale", u, i, n)
    BY <1>4, OtherStep DEF Traded
  <1>5. CASE Restart
    BY <1>5 DEF Restart, Traded
  <1> QED BY <1>1, <1>2, <1>3, <1>4, <1>5 DEF Next, Request

\* A sale over a connection that is not re-opened pays for what it takes, or does nothing.
LEMMA SaleOutcome ==
    ASSUME "fresh" \notin QueryOutcomes, TypeOK,
           NEW u \in Users, NEW i \in Goods, NEW n \in Uint32,
           HandleShopSell(u, i, n), gold[u] # NoRow
    PROVE  \/ /\ gold' = gold /\ items' = items
              /\ reply'.result # "SUCCESS"
           \/ /\ gold'[u] = gold[u] + SellPrice(i, n)
              /\ Held(u, i)' = Held(u, i) - n
              /\ reply'.result = "SUCCESS" => reply'.gold = gold'[u]
  <1>1. i \in Items /\ n \in Nat
    BY EconomyAssumption DEF Uint32
  <1>2. CASE UNCHANGED tables /\ reply'.result # "SUCCESS"
    BY <1>2 DEF tables
  <1>3. ASSUME NEW k \in 0..4,
               HasRow(u, i), items[u][i] >= n,
               SaleTables(u, i, n, SaleEffect(0, k)),
               reply'.result = "SUCCESS" => k = 4 /\ reply'.gold = gold'[u]
        PROVE  \/ /\ gold' = gold /\ items' = items
                  /\ reply'.result # "SUCCESS"
               \/ /\ gold'[u] = gold[u] + SellPrice(i, n)
                  /\ Held(u, i)' = Held(u, i) - n
                  /\ reply'.result = "SUCCESS" => reply'.gold = gold'[u]
    <2> DEFINE S == SaleEffect(0, k)
    <2>1. 0 \in 0..4 /\ gold \in [Users -> 0..IntMax \cup {NoRow}]
                     /\ items \in [Users -> [Goods -> 0..IntMax \cup {NoRow}]]
      BY DEF TypeOK
    <2>2. CASE k < 4
      <3>1. S = {}
        BY <2>1, <2>2, SaleEffects
      <3> HIDE DEF S
      <3>2. gold' = gold
        BY <1>3, <2>1, <3>1 DEF SaleTables, S
      <3>3. items' = [items EXCEPT ![u][i] = items[u][i]]
        BY <1>3, <3>1 DEF SaleTables, S
      <3>4. items' = items
        BY <2>1, <3>3
      <3> QED BY <1>3, <2>2, <3>2, <3>4
    <2>3. CASE k = 4
      <3>1. {1, 2, 3} \subseteq S
        BY <2>1, <2>3, SaleEffects
      <3> HIDE DEF S
      <3>2. gold' = [gold EXCEPT ![u] = gold[u] + SellPrice(i, n)]
        BY <1>3, <2>1, <3>1 DEF SaleTables, S
      <3> DEFINE left == items[u][i] - n
      <3>3. items' = [items EXCEPT ![u][i] = IF left = 0 THEN NoRow ELSE left]
        BY <1>3, <3>1 DEF SaleTables, S
      <3>4. items'[u][i] = IF left = 0 THEN NoRow ELSE left
        BY <2>1, <3>3
      <3>5. /\ items[u][i] \in Nat /\ left \in Nat /\ NoRow \notin Nat
            /\ Held(u, i) = items[u][i]
        BY <1>1, <1>3, Columns
      <3> HIDE DEF left
      <3>6. Held(u, i)' = left
        BY <3>4, <3>5 DEF Held, HasRow
      <3> QED BY <1>3, <2>1, <3>2, <3>5, <3>6 DEF left
    <2> QED BY <2>2, <2>3
  <1> QED BY <1>1, <1>2, <1>3, SaleStep

\* Gold and items change together in a sale, unless a connection is re-opened within it.
THEOREM SalesAreAtomic ==
    ASSUME "fresh" \notin QueryOutcomes PROVE Spec => SaleAtomic
  <1>1. ASSUME TypeOK, [Next]_vars, ~UNCHANGED vars,
               NEW u \in Users, NEW i \in Goods, NEW n \in Uint32,
               Traded("Sale", u, i, n), gold[u] # NoRow
        PROVE  \/ /\ gold' = gold /\ items' = items
                  /\ reply'.result # "SUCCESS"
               \/ /\ gold'[u] = gold[u] + SellPrice(i, n)
                  /\ Held(u, i)' = Held(u, i) - n
                  /\ reply'.result = "SUCCESS" => reply'.gold = gold'[u]
    BY <1>1, TradedBy, SaleOutcome
  <1>2. ASSUME TypeOK, [Next]_vars
        PROVE  [\A u \in Users, i \in Goods, n \in Uint32 :
                  Traded("Sale", u, i, n) /\ gold[u] # NoRow =>
                     \/ /\ gold' = gold /\ items' = items
                        /\ reply'.result # "SUCCESS"
                     \/ /\ gold'[u] = gold[u] + SellPrice(i, n)
                        /\ Held(u, i)' = Held(u, i) - n
                        /\ reply'.result = "SUCCESS" => reply'.gold = gold'[u]]_vars
    BY <1>1, <1>2
  <1> QED BY <1>2, LedgerTypes, PTL DEF Spec, SaleAtomic

\* A purchase that takes effect at its full price leaves the worth of what is owned.
LEMMA PurchaseWorth ==
    ASSUME TypeOK, NEW u \in Users, NEW i \in Goods, NEW n \in Uint32,
           HandleShopPurchase(u, i, n), gold[u] # NoRow, Price[i] * n < Word
    PROVE  Worth(u, i)' = Worth(u, i)
  <1>1. i \in Items
    BY EconomyAssumption
  <1>2. CASE UNCHANGED tables
    BY <1>2 DEF Worth, Held, HasRow, tables
  <1>3. CASE PurchaseApplied(u, i, n)
    <2> DEFINE h == Held(u, i)
    <2>1. /\ h \in Nat /\ n \in Nat /\ Price[i] \in Nat /\ NoRow \notin Nat
          /\ gold[u] \in Nat /\ Total(i, n) = Price[i] * n
      BY Columns, Prices
    <2>2. gold'[u] = gold[u] - Price[i] * n
      BY <1>3, <2>1 DEF PurchaseApplied, TypeOK
    <2>3. items'[u][i] = h + n
      BY <1>3 DEF PurchaseApplied, TypeOK
    <2>4. Held(u, i)' = h + n
      BY <2>1, <2>3 DEF Held, HasRow
    <2>5. Worth(u, i)' = (gold[u] - Price[i] * n) + Price[i] * (h + n)
      BY <2>2, <2>4 DEF Worth
    <2> HIDE DEF h
    <2>6. (gold[u] - Price[i] * n) + Price[i] * (h + n) = gold[u] + Price[i] * h
      BY <2>1
    <2> QED BY <2>5, <2>6 DEF Worth, h
  <1> QED BY <1>1, <1>2, <1>3, PurchaseStep

\* A sale pays no more than the shop would ask for the same items.
LEMMA SaleWorth ==
    ASSUME "fresh" \notin QueryOutcomes, TypeOK,
           NEW u \in Users, NEW i \in Goods, NEW n \in Uint32,
           HandleShopSell(u, i, n), gold[u] # NoRow
    PROVE  Worth(u, i)' <= Worth(u, i)
  <1> DEFINE h == Held(u, i)
             s == SellPrice(i, n)
             p == Price[i]
             g == gold[u]
  <1>1. /\ h \in Nat /\ n \in Nat /\ p \in Nat /\ g \in Nat
        /\ s \in Nat /\ p * n \in Nat /\ s <= p * n
    BY Columns, Prices
  <1>2. CASE gold' = gold /\ items' = items
    <2>1. Worth(u, i)' = Worth(u, i)
      BY <1>2 DEF Worth, Held, HasRow
    <2>2. Worth(u, i) \in Int
      BY <1>1 DEF Worth
    <2> QED BY <2>1, <2>2
  <1>3. CASE gold'[u] = gold[u] + SellPrice(i, n) /\ Held(u, i)' = Held(u, i) - n
    <2>1. Worth(u, i)' = (g + s) + p * (h - n)
      BY <1>3 DEF Worth
    <2> HIDE DEF h, s, p, g
    <2>2. p * (h - n) = p * h - p * n /\ p * h \in Int
      BY <1>1
    <2>3. (g + s) + p * (h - n) <= g + p * h
      BY <1>1, <2>2
    <2> QED BY <2>1, <2>3 DEF Worth, h, s, p, g
  <1> QED BY <1>2, <1>3, SaleOutcome

\* Trade does not create worth, for any prices, counts and failures of statements.
THEOREM TradeKeepsWorth ==
    ASSUME "fresh" \notin QueryOutcomes PROVE Spec => ShopKeepsWorth
  <1>1. ASSUME TypeOK, [Next]_vars, ~UNCHANGED vars,
               NEW u \in Users, NEW i \in Goods, NEW n \in Uint32, gold[u] # NoRow
        PROVE  /\ Traded("Purchase", u, i, n) /\ Price[i] * n < Word
                  => Worth(u, i)' = Worth(u, i)
               /\ Traded("Sale", u, i, n) => Worth(u, i)' <= Worth(u, i)
    BY <1>1, TradedBy, PurchaseWorth, SaleWorth
  <1>2. ASSUME TypeOK, [Next]_vars
        PROVE  [\A u \in Users, i \in Goods, n \in Uint32 :
                  gold[u] # NoRow =>
                     /\ Traded("Purchase", u, i, n) /\ Price[i] * n < Word
                        => Worth(u, i)' = Worth(u, i)
                     /\ Traded("Sale", u, i, n) => Worth(u, i)' <= Worth(u, i)]_vars
    BY <1>1, <1>2
  <1> QED BY <1>2, LedgerTypes, PTL DEF Spec, ShopKeepsWorth
=============================================================================
