---------------------------- MODULE ZetaMarkets ----------------------------
(***************************************************************************)
(* The products of a ZetaGroup and how they are found by the key of their  *)
(* market (zeta_account.rs).  The Zeta program lists the markets, in any   *)
(* order; a product that is not listed yet has the default key, which is   *)
(* below every other.                                                      *)
(***************************************************************************)
EXTENDS Integers, FiniteSets

CONSTANTS
  NUM_EXPIRIES,             \* expiry_series.len()
  NUM_PRODUCTS_PER_SERIES,
  Keys                      \* the market key of every product index

NumMarkets == NUM_EXPIRIES * NUM_PRODUCTS_PER_SERIES   \* products.len()
Indices == 0 .. NumMarkets - 1
DefaultKey == 0

\* binary_search_by_key is meant for sorted slices: the indices are taken to
\* be given in the order of the keys, which this code relies on.
ASSUME MarketsAssumption ==
  /\ NUM_EXPIRIES \in Nat \ {0} /\ NUM_PRODUCTS_PER_SERIES \in Nat \ {0}
  /\ Keys \in [Indices -> Nat \ {DefaultKey}]
  /\ \A i, j \in Indices : i < j => Keys[i] < Keys[j]

VARIABLE market   \* ZetaGroup.products[i].market

MarketsInit == market = [i \in Indices |-> DefaultKey]

ListMarket(i) ==
  /\ market[i] = DefaultKey
  /\ market' = [market EXCEPT ![i] = Keys[i]]

-----------------------------------------------------------------------------
(* Lookups *)

SliceIndices == 0 .. NUM_PRODUCTS_PER_SERIES - 1

\* The markets of the products of a series.
get_products_slice(expiry_index) ==
  LET head == expiry_index * NUM_PRODUCTS_PER_SERIES
  IN [i \in SliceIndices |-> market[head + i]]

get_products_slice_market_index(expiry_index, product_index) ==
  expiry_index * NUM_PRODUCTS_PER_SERIES + product_index

\* What read_program_data logs of the products of the front series: each
\* product's market, and the index under which mark prices and positions are
\* kept for it.  The first product whose strike is not set ends it with an
\* error; strikes are those of the products that are set.
read_program_data(front_expiry_index, strikes) ==
  { [market |-> get_products_slice(front_expiry_index)[i],
     market_index |-> get_products_slice_market_index(front_expiry_index, i)]
    : i \in { k \in SliceIndices :
               \A j \in 0 .. k : front_expiry_index * NUM_PRODUCTS_PER_SERIES + j \in strikes } }

\* Fault: indices are counted across the series first.
ProductMajor(i) == i % NUM_EXPIRIES

get_expiry_index_by_product_index(i) == i \div NUM_PRODUCTS_PER_SERIES

NotFound == NumMarkets

\* Fault: products that are not listed are filtered out before the search.
IndexAmongListed(key) ==
  IF key \notin { market[i] : i \in Indices } THEN NotFound
  ELSE Cardinality({ i \in Indices : market[i] # DefaultKey /\ market[i] < key })

\* What is left to search: the indices from left on and below right.
Ranges == [left : 0 .. NumMarkets, right : 0 .. NumMarkets]

\* slice::binary_search_by_key, NotFound for its Err
binary_search_by_key(products, key) ==
  LET search[r \in Ranges] ==
        LET mid == r.left + (r.right - r.left) \div 2
        IN IF r.left >= r.right THEN NotFound
           ELSE IF products[mid] = key THEN mid
           ELSE IF products[mid] < key THEN search[[r EXCEPT !.left = mid + 1]]
           ELSE search[[r EXCEPT !.right = mid]]
  IN search[[left |-> 0, right |-> NumMarkets]]

\* get_product_index_by_key: a search of all products, listed or not, NotFound
\* for InvalidProductMarketKey.
get_product_index_by_key(key) == binary_search_by_key(market, key)

Found(key) == get_product_index_by_key(key) # NotFound

\* Of a key that is found.
get_product_and_expiry_index_by_key(key) ==
  LET i == get_product_index_by_key(key)
  IN <<i, get_expiry_index_by_product_index(i)>>

-----------------------------------------------------------------------------
(* Properties *)

\* When every market is listed, each of those read_program_data shows, of
\* whichever series is the front one and whichever strikes are set
\* (lib.rs:87, 108-131), is found by its key at the index shown with it, and in
\* that series (zeta_account.rs:173-220).
EveryMarketIsFound ==
  DefaultKey \notin { market[i] : i \in Indices } =>
    \A front \in 0 .. NUM_EXPIRIES - 1, strikes \in SUBSET Indices :
      \A shown \in read_program_data(front, strikes) :
        get_product_and_expiry_index_by_key(shown.market) = <<shown.market_index, front>>

\* While the markets are being listed the products are not sorted, and one
\* that is listed may not be found (zeta_account.rs:181): but a market that
\* has been found once is found, at the same index, whatever is listed after
\* it and in whatever order.
FoundStaysFound ==
  [][\A i \in Indices :
       Found(Keys[i]) =>
         get_product_index_by_key(Keys[i])' = get_product_index_by_key(Keys[i])]_market
=============================================================================
