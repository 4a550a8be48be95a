-------------------------- MODULE ZetaClientProofs --------------------------
(***************************************************************************)
(* Why the product of a market is found, for every number of series and    *)
(* products and every order in which the markets are listed, and what      *)
(* clients may count on because of it.                                     *)
(***************************************************************************)
EXTENDS ZetaClient, Inductions, TLAPS

-----------------------------------------------------------------------------
(* Ranges *)

\* There are markets, and their keys are not the default key.
LEMMA MarketNumbers ==
  /\ NumMarkets \in Nat \ {0} /\ NUM_EXPIRIES \in Nat \ {0}
  /\ NUM_PRODUCTS_PER_SERIES \in Nat \ {0}
  /\ Keys \in [Indices -> Nat \ {0}]
<1>1. /\ NUM_EXPIRIES \in Nat \ {0} /\ NUM_PRODUCTS_PER_SERIES \in Nat \ {0}
      /\ Keys \in [Indices -> Nat \ {0}]
  BY MarketsAssumption DEF DefaultKey
<1>2. \A x, y \in Nat \ {0} : x * y \in Nat \ {0}
  OBVIOUS
<1> QED  BY <1>1, <1>2 DEF NumMarkets

\* The two halves of a range, and the index between them.
Middle(r) == r.left + (r.right - r.left) \div 2
Above(r) == [r EXCEPT !.left = Middle(r) + 1]
Below(r) == [r EXCEPT !.right = Middle(r)]
\* How many products a range holds.
Width(r) == r.right - r.left

\* Both halves of a range are smaller ranges.
LEMMA Halves ==
  ASSUME NEW r \in Ranges, r.left < r.right
  PROVE  /\ Middle(r) \in Indices /\ r.left <= Middle(r) /\ Middle(r) < r.right
         /\ Above(r) \in Ranges /\ Above(r).left = Middle(r) + 1 /\ Above(r).right = r.right
         /\ Below(r) \in Ranges /\ Below(r).left = r.left /\ Below(r).right = Middle(r)
         /\ Width(Above(r)) < Width(r) /\ Width(Below(r)) < Width(r)
<1> DEFINE l == r.left
           h == r.right
           d == h - l
           q == d \div 2
           m == Middle(r)
<1>1. l \in Nat /\ h \in Nat /\ l < h /\ h <= NumMarkets /\ NumMarkets \in Nat
  BY MarketNumbers DEF Ranges
<1>2. m = l + q
  BY DEF Middle
<1> HIDE DEF l, h, m
<1>3. d \in Nat \ {0}
  BY <1>1
<1> HIDE DEF d
<1>4. q \in Nat /\ q < d
  BY <1>3
<1> HIDE DEF q
<1>5. m \in Nat /\ l <= m /\ m < h
  BY <1>1, <1>2, <1>4 DEF d
<1>6. m \in Indices /\ m + 1 \in 0 .. NumMarkets /\ m \in 0 .. NumMarkets
  BY <1>1, <1>5 DEF Indices
<1>7. /\ Above(r) \in Ranges /\ Above(r).left = m + 1 /\ Above(r).right = h
      /\ Below(r) \in Ranges /\ Below(r).left = l /\ Below(r).right = m
  BY <1>6 DEF Above, Below, Ranges, m, h, l
<1>8. Width(Above(r)) < Width(r) /\ Width(Below(r)) < Width(r)
  <2>1. Width(r) = h - l
    BY DEF Width, h, l
  <2> QED  BY <1>1, <1>5, <1>7, <2>1 DEF Width
<1> QED  BY <1>5, <1>6, <1>7, <1>8 DEF m, l, h

\* Induction over the width of a range, for a set of ranges.
LEMMA RangeInduction ==
  ASSUME NEW F,
         \A r \in Ranges :
           (r.left < r.right => Above(r) \in F /\ Below(r) \in F) => r \in F
  PROVE  \A r \in Ranges : r \in F
<1> DEFINE G == { n \in Nat : \A r \in Ranges : Width(r) <= n => r \in F }
<1>0. \A r \in Ranges : Width(r) \in Int /\ (r.left < r.right <=> Width(r) > 0) /\ Width(r) <= NumMarkets
  BY MarketNumbers DEF Width, Ranges
<1>1. 0 \in G
  BY <1>0
<1>2. ASSUME NEW n \in Nat, n \in G PROVE n + 1 \in G
  <2> SUFFICES ASSUME NEW r \in Ranges, Width(r) <= n + 1 PROVE r \in F
    OBVIOUS
  <2>1. ASSUME r.left < r.right PROVE Above(r) \in F /\ Below(r) \in F
    <3>1. /\ Above(r) \in Ranges /\ Width(Above(r)) < Width(r)
          /\ Below(r) \in Ranges /\ Width(Below(r)) < Width(r)
      BY <2>1, Halves
    <3>2. Width(Above(r)) <= n /\ Width(Below(r)) <= n
      BY <1>0, <3>1
    <3> QED  BY <1>2, <3>1, <3>2
  <2> QED  BY <2>1
<1>3. NumMarkets \in G
  <2> HIDE DEF G
  <2>1. \A n \in Nat : n \in G
    BY <1>1, <1>2, NumberInduction
  <2> QED  BY <2>1, MarketNumbers
<1> QED  BY <1>0, <1>3

-----------------------------------------------------------------------------
(* The search *)

\* One step of the search, and a function that takes this step everywhere.
SearchStep(f, products, key, r) ==
  IF r.left >= r.right THEN NotFound
  ELSE IF products[Middle(r)] = key THEN Middle(r)
  ELSE IF products[Middle(r)] < key THEN f[Above(r)]
  ELSE f[Below(r)]

IsSearch(f, products, key, S) == f = [r \in S |-> SearchStep(f, products, key, r)]

\* The recursion of the search is well-founded.
LEMMA SearchExists ==
  ASSUME NEW products, NEW key
  PROVE  \E f : IsSearch(f, products, key, Ranges)
<1> DEFINE Upto(n) == { r \in Ranges : Width(r) <= n }
           F == { n \in Nat : \E f : IsSearch(f, products, key, Upto(n)) }
<1>0. \A r \in Ranges : Width(r) \in Int /\ (r.left < r.right <=> Width(r) > 0) /\ Width(r) <= NumMarkets
                        /\ (r.left >= r.right <=> ~(r.left < r.right))
  BY MarketNumbers DEF Width, Ranges
<1>1. 0 \in F
  <2> DEFINE g == [r \in Upto(0) |-> NotFound]
  <2>1. \A r \in Upto(0) : r.left >= r.right
    BY <1>0
  <2>2. IsSearch(g, products, key, Upto(0))
    BY <2>1 DEF IsSearch, SearchStep
  <2> HIDE DEF g, Upto
  <2>3. \E f : IsSearch(f, products, key, Upto(0))
    BY <2>2
  <2> QED  BY <2>3
<1>2. ASSUME NEW n \in Nat, n \in F PROVE n + 1 \in F
  <2>1. PICK f : IsSearch(f, products, key, Upto(n))
    BY <1>2
  <2> DEFINE g == [r \in Upto(n + 1) |-> SearchStep(f, products, key, r)]
  <2>2. \A r \in Upto(n) : r \in Upto(n + 1) /\ g[r] = f[r]
    <3> SUFFICES ASSUME NEW r \in Upto(n) PROVE r \in Upto(n + 1) /\ g[r] = f[r]
      OBVIOUS
    <3>1. r \in Upto(n + 1)
      BY <1>0
    <3>2. f[r] = SearchStep(f, products, key, r)
      BY <2>1 DEF IsSearch
    <3> QED  BY <3>1, <3>2
  <2>3. ASSUME NEW r \in Upto(n + 1), r.left < r.right
        PROVE  Above(r) \in Upto(n) /\ Below(r) \in Upto(n)
    <3>1. /\ Above(r) \in Ranges /\ Width(Above(r)) < Width(r)
          /\ Below(r) \in Ranges /\ Width(Below(r)) < Width(r)
      BY <2>3, Halves
    <3> QED  BY <1>0, <3>1
  <2>4. \A r \in Upto(n + 1) : g[r] = SearchStep(g, products, key, r)
    <3> SUFFICES ASSUME NEW r \in Upto(n + 1) PROVE g[r] = SearchStep(g, products, key, r)
      OBVIOUS
    <3>1. g[r] = SearchStep(f, products, key, r)
      OBVIOUS
    <3>2. r.left < r.right => f[Above(r)] = g[Above(r)] /\ f[Below(r)] = g[Below(r)]
      BY <2>2, <2>3
    <3> HIDE DEF g
    <3> QED  BY <1>0, <3>1, <3>2 DEF SearchStep
  <2>5. IsSearch(g, products, key, Upto(n + 1))
    <3>1. g = [r \in Upto(n + 1) |-> g[r]]
      OBVIOUS
    <3> HIDE DEF g
    <3> QED  BY <2>4, <3>1 DEF IsSearch
  <2> HIDE DEF g, Upto
  <2>6. n + 1 \in Nat /\ \E h : IsSearch(h, products, key, Upto(n + 1))
    BY <2>5
  <2> QED  BY <2>6
<1>3. NumMarkets \in F
  <2> HIDE DEF F
  <2>1. \A n \in Nat : n \in F
    BY <1>1, <1>2, NumberInduction
  <2> QED  BY <2>1, MarketNumbers
<1>4. Upto(NumMarkets) = Ranges
  BY <1>0
<1> QED  BY <1>3, <1>4

\* The range that the search starts with.
Everything == [left |-> 0, right |-> NumMarkets]

\* The steps that binary_search_by_key takes.
LEMMA SearchSteps ==
  ASSUME NEW products, NEW key
  PROVE  \E f : /\ \A r \in Ranges : f[r] = SearchStep(f, products, key, r)
                /\ binary_search_by_key(products, key) = f[Everything]
<1> DEFINE search[r \in Ranges] ==
             LET mid == r.left + (r.right - r.left) \div 2
             IN IF r.left >= r.right THEN NotFound
                ELSE IF products[mid] = key THEN mid
                ELSE IF products[mid] < key THEN search[[r EXCEPT !.left = mid + 1]]
                ELSE search[[r EXCEPT !.right = mid]]
<1>1. binary_search_by_key(products, key) = search[Everything]
  BY DEF binary_search_by_key, Everything
<1>2. search = CHOOSE f : IsSearch(f, products, key, Ranges)
  BY DEF IsSearch, SearchStep, Above, Below, Middle
<1> HIDE DEF search
<1>3. IsSearch(search, products, key, Ranges)
  BY <1>2, SearchExists
<1>4. \A r \in Ranges : search[r] = SearchStep(search, products, key, r)
  BY <1>3 DEF IsSearch
<1> QED  BY <1>1, <1>4

-----------------------------------------------------------------------------
(* What is found *)

\* Products of which some are listed.
Listed(products) ==
  /\ products \in [Indices -> Nat]
  /\ \A i \in Indices : products[i] \in {0, Keys[i]}

\* Keys are in the order of the indices.
LEMMA KeyOrder ==
  \A i, j \in Indices :
    /\ i \in Int /\ j \in Int /\ Keys[i] \in Nat \ {0}
    /\ Keys[i] = Keys[j] => i = j
    /\ Keys[i] < Keys[j] => i < j
    /\ i < j => Keys[i] < Keys[j]
<1> SUFFICES ASSUME NEW i \in Indices, NEW j \in Indices
             PROVE  /\ i \in Int /\ j \in Int /\ Keys[i] \in Nat \ {0}
                    /\ Keys[i] = Keys[j] => i = j
                    /\ Keys[i] < Keys[j] => i < j
                    /\ i < j => Keys[i] < Keys[j]
  OBVIOUS
<1>1. i \in Int /\ j \in Int
  BY DEF Indices
<1>2. (i < j => Keys[i] < Keys[j]) /\ (j < i => Keys[j] < Keys[i])
  BY MarketsAssumption
<1>3. Keys[i] \in Nat \ {0} /\ Keys[j] \in Nat \ {0}
  BY MarketNumbers
<1> HIDE DEF Indices
<1> QED  BY <1>1, <1>2, <1>3

\* What a probe at mid tells about the index of a key.
LEMMA Probe ==
  ASSUME NEW products, Listed(products), NEW i \in Indices, NEW mid \in Indices
  PROVE  /\ products[mid] = Keys[i] <=> mid = i /\ products[i] = Keys[i]
         /\ products[mid] < Keys[i] <=> products[mid] = 0 \/ mid < i
         /\ mid \in Int /\ i \in Int /\ i # NotFound
<1>1. /\ mid \in Int /\ i \in Int /\ Keys[i] \in Nat \ {0} /\ Keys[mid] \in Nat \ {0}
      /\ Keys[mid] = Keys[i] => mid = i
      /\ Keys[mid] < Keys[i] => mid < i
      /\ mid < i => Keys[mid] < Keys[i]
  BY KeyOrder
<1>2. products[mid] \in Nat /\ products[mid] \in {0, Keys[mid]}
  BY DEF Listed
<1>3. i # NotFound
  BY MarketNumbers DEF Indices, NotFound
<1> QED  BY <1>1, <1>2, <1>3

\* zeta_account.rs:181: what is found has the key, and is where it was looked
\* for.
LEMMA FoundHasKey ==
  ASSUME NEW products, Listed(products), NEW i \in Indices,
         NEW f, \A r \in Ranges : f[r] = SearchStep(f, products, Keys[i], r)
  PROVE  \A r \in Ranges :
           f[r] # NotFound =>
             /\ f[r] = i /\ products[i] = Keys[i]
             /\ r.left <= i /\ i < r.right
<1> DEFINE Claim(r) == f[r] # NotFound =>
                         /\ f[r] = i /\ products[i] = Keys[i]
                         /\ r.left <= i /\ i < r.right
           F == { r \in Ranges : Claim(r) }
<1>1. ASSUME NEW r \in Ranges, r.left < r.right => Above(r) \in F /\ Below(r) \in F
      PROVE  r \in F
  <2> DEFINE mid == Middle(r)
  <2>0. r.left \in Int /\ r.right \in Int
    BY MarketNumbers DEF Ranges
  <2>1. f[r] = SearchStep(f, products, Keys[i], r)
    OBVIOUS
  <2>2. CASE r.left >= r.right
    BY <2>1, <2>2 DEF SearchStep
  <2>3. CASE r.left < r.right
    <3>1. /\ mid \in Indices /\ r.left <= mid /\ mid < r.right
          /\ Above(r).left = mid + 1 /\ Above(r).right = r.right
          /\ Below(r).left = r.left /\ Below(r).right = mid
      BY <2>3, Halves
    <3>2. /\ products[mid] = Keys[i] <=> mid = i /\ products[i] = Keys[i]
          /\ mid \in Int /\ i \in Int
      BY <3>1, Probe
    <3>3. Claim(Above(r)) /\ Claim(Below(r))
      BY <1>1, <2>3
    <3> HIDE DEF mid
    <3>4. f[r] = IF products[mid] = Keys[i] THEN mid
                 ELSE IF products[mid] < Keys[i] THEN f[Above(r)] ELSE f[Below(r)]
      BY <2>0, <2>1, <2>3 DEF SearchStep, mid
    <3>5. CASE products[mid] = Keys[i]
      BY <3>1, <3>2, <3>4, <3>5
    <3>6. CASE products[mid] # Keys[i] /\ products[mid] < Keys[i]
      <4>1. f[r] = f[Above(r)]
        BY <3>4, <3>6
      <4> QED  BY <2>0, <3>1, <3>2, <3>3, <4>1
    <3>7. CASE products[mid] # Keys[i] /\ ~(products[mid] < Keys[i])
      <4>1. f[r] = f[Below(r)]
        BY <3>4, <3>7
      <4> QED  BY <2>0, <3>1, <3>2, <3>3, <4>1
    <3> QED  BY <3>5, <3>6, <3>7
  <2> QED  BY <2>0, <2>2, <2>3
<1> HIDE DEF F
<1>2. \A r \in Ranges : r \in F
  BY <1>1, RangeInduction
<1> QED  BY <1>2 DEF F

\* When every product is listed, each is found.
LEMMA AllListedFound ==
  ASSUME NEW products, Listed(products), \A x \in Indices : products[x] # 0,
         NEW i \in Indices,
         NEW f, \A r \in Ranges : f[r] = SearchStep(f, products, Keys[i], r)
  PROVE  \A r \in Ranges : r.left <= i /\ i < r.right => f[r] = i
<1> DEFINE Claim(r) == r.left <= i /\ i < r.right => f[r] = i
           F == { r \in Ranges : Claim(r) }
<1>1. ASSUME NEW r \in Ranges, r.left < r.right => Above(r) \in F /\ Below(r) \in F,
             r.left <= i, i < r.right
      PROVE  f[r] = i
  <2> DEFINE mid == Middle(r)
  <2>0. r.left \in Int /\ r.right \in Int /\ i \in Int
    BY MarketNumbers DEF Ranges, Indices
  <2>1. r.left < r.right /\ ~(r.left >= r.right)
    BY <1>1, <2>0
  <2>2. f[r] = SearchStep(f, products, Keys[i], r)
    OBVIOUS
  <2>3. /\ mid \in Indices
        /\ Above(r).left = mid + 1 /\ Above(r).right = r.right
        /\ Below(r).left = r.left /\ Below(r).right = mid
    BY <2>1, Halves
  <2>4. /\ products[mid] = Keys[i] <=> mid = i /\ products[i] = Keys[i]
        /\ products[mid] < Keys[i] <=> products[mid] = 0 \/ mid < i
        /\ mid \in Int /\ products[mid] # 0 /\ products[i] = Keys[i]
    <3>1. products[i] = Keys[i] /\ products[mid] # 0
      BY <2>3 DEF Listed
    <3> QED  BY <2>3, <3>1, Probe
  <2>5. Claim(Above(r)) /\ Claim(Below(r))
    BY <1>1, <2>1
  <2> HIDE DEF mid
  <2>6. f[r] = IF products[mid] = Keys[i] THEN mid
               ELSE IF products[mid] < Keys[i] THEN f[Above(r)] ELSE f[Below(r)]
    BY <2>1, <2>2 DEF SearchStep, mid
  <2>7. CASE mid = i
    BY <2>4, <2>6, <2>7
  <2>8. CASE mid < i
    <3>1. f[r] = f[Above(r)]
      BY <2>0, <2>4, <2>6, <2>8
    <3> QED  BY <1>1, <2>0, <2>3, <2>4, <2>5, <2>8, <3>1
  <2>9. CASE i < mid
    <3>1. f[r] = f[Below(r)]
      BY <2>0, <2>4, <2>6, <2>9
    <3> QED  BY <1>1, <2>0, <2>3, <2>4, <2>5, <2>9, <3>1
  <2> QED  BY <2>0, <2>4, <2>7, <2>8, <2>9
<1>2. ASSUME NEW r \in Ranges, r.left < r.right => Above(r) \in F /\ Below(r) \in F
      PROVE  r \in F
  BY <1>1, <1>2
<1> HIDE DEF F
<1>3. \A r \in Ranges : r \in F
  BY <1>2, RangeInduction
<1> QED  BY <1>3 DEF F

\* zeta_account.rs:173-220: the listing of one more product does not turn the
\* search away from one that it finds.
LEMMA ListingKeepsSearch ==
  ASSUME NEW products, Listed(products), NEW after, Listed(after),
         \A x \in Indices : products[x] # 0 => after[x] = products[x],
         NEW i \in Indices,
         NEW f, \A r \in Ranges : f[r] = SearchStep(f, products, Keys[i], r),
         NEW g, \A r \in Ranges : g[r] = SearchStep(g, after, Keys[i], r)
  PROVE  \A r \in Ranges : f[r] = i => g[r] = i
<1> DEFINE Claim(r) == f[r] = i => g[r] = i
           F == { r \in Ranges : Claim(r) }
<1>1. ASSUME NEW r \in Ranges, r.left < r.right => Above(r) \in F /\ Below(r) \in F,
             f[r] = i
      PROVE  g[r] = i
  <2> DEFINE mid == Middle(r)
  <2>0. r.left \in Int /\ r.right \in Int /\ i \in Int /\ i # NotFound
    BY MarketNumbers DEF Ranges, Indices, NotFound
  <2>1. f[r] = SearchStep(f, products, Keys[i], r) /\ g[r] = SearchStep(g, after, Keys[i], r)
    OBVIOUS
  <2>2. r.left < r.right /\ ~(r.left >= r.right)
    BY <1>1, <2>0, <2>1 DEF SearchStep
  <2>3. /\ mid \in Indices
        /\ Above(r) \in Ranges /\ Above(r).left = mid + 1
        /\ Below(r) \in Ranges /\ Below(r).right = mid
    BY <2>2, Halves
  <2>4. /\ products[mid] = Keys[i] <=> mid = i /\ products[i] = Keys[i]
        /\ products[mid] < Keys[i] <=> products[mid] = 0 \/ mid < i
        /\ after[mid] = Keys[i] <=> mid = i /\ after[i] = Keys[i]
        /\ after[mid] < Keys[i] <=> after[mid] = 0 \/ mid < i
        /\ mid \in Int
    BY <2>3, Probe
  <2>5. Claim(Above(r)) /\ Claim(Below(r))
    BY <1>1, <2>2
  <2>6. /\ f[Above(r)] # NotFound => mid + 1 <= i
        /\ f[Below(r)] # NotFound => i < mid
    BY <2>3, FoundHasKey
  <2> HIDE DEF mid
  <2>7. f[r] = IF products[mid] = Keys[i] THEN mid
               ELSE IF products[mid] < Keys[i] THEN f[Above(r)] ELSE f[Below(r)]
    BY <2>1, <2>2 DEF SearchStep, mid
  <2>8. g[r] = IF after[mid] = Keys[i] THEN mid
               ELSE IF after[mid] < Keys[i] THEN g[Above(r)] ELSE g[Below(r)]
    BY <2>1, <2>2 DEF SearchStep, mid
  <2>9. products[mid] # 0 => after[mid] = products[mid]
    BY <2>3
  <2>10. CASE products[mid] = Keys[i]
    <3>1. products[mid] # 0
      BY <2>3, <2>10, MarketNumbers
    <3> QED  BY <1>1, <2>4, <2>7, <2>8, <2>9, <2>10, <3>1
  <2>11. CASE products[mid] # Keys[i] /\ products[mid] < Keys[i]
    <3>1. f[Above(r)] = i /\ mid < i
      BY <1>1, <2>0, <2>4, <2>6, <2>7, <2>11
    <3>2. after[mid] # Keys[i] /\ after[mid] < Keys[i]
      BY <2>0, <2>4, <3>1
    <3> QED  BY <2>5, <2>8, <3>1, <3>2
  <2>12. CASE products[mid] # Keys[i] /\ ~(products[mid] < Keys[i])
    <3>1. f[Below(r)] = i
      BY <1>1, <2>7, <2>12
    <3>2. after[mid] = products[mid]
      BY <2>4, <2>9, <2>12
    <3> QED  BY <2>5, <2>8, <2>12, <3>1, <3>2
  <2> QED  BY <2>10, <2>11, <2>12
<1>2. ASSUME NEW r \in Ranges, r.left < r.right => Above(r) \in F /\ Below(r) \in F
      PROVE  r \in F
  BY <1>1, <1>2
<1> HIDE DEF F
<1>3. \A r \in Ranges : r \in F
  BY <1>2, RangeInduction
<1> QED  BY <1>3 DEF F

\* The search from the whole range.
LEMMA SearchOfKey ==
  ASSUME NEW products, Listed(products), NEW i \in Indices
  PROVE  /\ binary_search_by_key(products, Keys[i]) \in {i, NotFound}
         /\ (\A x \in Indices : products[x] # 0) => binary_search_by_key(products, Keys[i]) = i
         /\ i # NotFound
<1>1. PICK f : /\ \A r \in Ranges : f[r] = SearchStep(f, products, Keys[i], r)
               /\ binary_search_by_key(products, Keys[i]) = f[Everything]
  BY SearchSteps
<1>2. /\ Everything \in Ranges /\ Everything.left = 0 /\ Everything.right = NumMarkets
      /\ 0 <= i /\ i < NumMarkets
  BY MarketNumbers DEF Everything, Ranges, Indices
<1>3. f[Everything] \in {i, NotFound}
  BY <1>1, <1>2, FoundHasKey
<1>4. ASSUME \A x \in Indices : products[x] # 0 PROVE f[Everything] = i
  <2>1. \A r \in Ranges : r.left <= i /\ i < r.right => f[r] = i
    BY <1>1, <1>4, AllListedFound
  <2> QED  BY <1>2, <2>1
<1>5. i # NotFound
  BY <1>2, MarketNumbers DEF NotFound, Indices
<1> QED  BY <1>1, <1>3, <1>4, <1>5

\* The search after one more product is listed.
LEMMA SearchAfterListing ==
  ASSUME NEW products, Listed(products), NEW after, Listed(after),
         \A x \in Indices : products[x] # 0 => after[x] = products[x],
         NEW i \in Indices, binary_search_by_key(products, Keys[i]) # NotFound
  PROVE  binary_search_by_key(after, Keys[i]) = binary_search_by_key(products, Keys[i])
<1>1. PICK f : /\ \A r \in Ranges : f[r] = SearchStep(f, products, Keys[i], r)
               /\ binary_search_by_key(products, Keys[i]) = f[Everything]
  BY SearchSteps
<1>2. PICK g : /\ \A r \in Ranges : g[r] = SearchStep(g, after, Keys[i], r)
               /\ binary_search_by_key(after, Keys[i]) = g[Everything]
  BY SearchSteps
<1>3. Everything \in Ranges
  BY MarketNumbers DEF Everything, Ranges
<1>4. f[Everything] = i
  BY <1>1, SearchOfKey
<1>5. \A r \in Ranges : f[r] = i => g[r] = i
  BY <1>1, <1>2, ListingKeepsSearch
<1> QED  BY <1>1, <1>2, <1>3, <1>4, <1>5

\* An index of a series is split back into the series and its product.
LEMMA SeriesOfIndex ==
  ASSUME NEW e \in 0 .. NUM_EXPIRIES - 1, NEW i \in SliceIndices
  PROVE  LET n == e * NUM_PRODUCTS_PER_SERIES + i
         IN n \in Indices /\ n \div NUM_PRODUCTS_PER_SERIES = e
<1> DEFINE size == NUM_PRODUCTS_PER_SERIES
           series == NUM_EXPIRIES
           n == e * size + i
           q == n \div size
<1>1. size \in Nat \ {0} /\ series \in Nat \ {0}
  BY MarketNumbers
<1>2. e \in Nat /\ e + 1 <= series /\ i \in Nat /\ i < size
  BY <1>1 DEF SliceIndices
<1> HIDE DEF size, series
<1>3. n \in Nat /\ size * e <= n /\ n < size * e + size
  BY <1>1, <1>2
<1>4. n < series * size
  <2>1. (e + 1) * size <= series * size
    BY <1>1, <1>2
  <2>2. (e + 1) * size = size * e + size
    BY <1>1, <1>2
  <2> QED  BY <1>1, <1>2, <1>3, <2>1, <2>2
<1> HIDE DEF n
<1>5. q \in Nat /\ size * q <= n /\ n < size * q + size
  BY <1>1, <1>3
<1> HIDE DEF q
<1>6. q = e
  <2>1. size * q < size * (e + 1) /\ size * e < size * (q + 1)
    BY <1>1, <1>2, <1>3, <1>5
  <2>2. q < e + 1 /\ e < q + 1
    BY <1>1, <1>2, <1>5, <2>1
  <2> QED  BY <1>2, <1>5, <2>2
<1>7. n \in 0 .. series * size - 1
  BY <1>1, <1>3, <1>4
<1> QED  BY <1>6, <1>7 DEF n, q, size, series, Indices, NumMarkets

-----------------------------------------------------------------------------
(* The accounts *)

MarginAddress(u) == find_program_address(MarginAccountSeeds(zeta_group, u))

\* The nonces of a margin account: 0 or that of an open orders account.
Nonces == {0} \cup { Bump(OpenOrdersAccountSeeds(dex_program, m, u)) : m \in MarketKeys, u \in Authorities }

MarginAccount == [authority : Authorities, balance : Int, open_orders_nonce : [Indices -> Nonces]]

OpenOrdersAccount == [authority : Authorities, market : MarketKeys]

\* A margin account is at the address derived for its authority.
MarginAccountOK(x, account) ==
  account \in MarginAccount /\ x = MarginAddress(account.authority)

\* An open orders account is at the address derived for its authority and
\* market, and the nonce that gives this address is where it will be looked
\* up: at the index of a market that is found.
OpenOrdersOK(x, account, accounts) ==
  /\ account \in OpenOrdersAccount
  /\ x = OpenOrdersOf(account.authority, account.market)
  /\ Found(account.market)
  /\ MarginAddress(account.authority) \in DOMAIN accounts
  /\ accounts[MarginAddress(account.authority)]
       .open_orders_nonce[get_product_index_by_key(account.market)]
       = Bump(OpenOrdersAccountSeeds(dex_program, account.market, account.authority))

\* The inductive invariant: the markets are listed in order, the accounts are
\* where their addresses are derived, orders are in accounts that exist.
ClientInv ==
  /\ Listed(market)
  /\ \A x \in DOMAIN margin_accounts : MarginAccountOK(x, margin_accounts[x])
  /\ \A x \in DOMAIN open_orders : OpenOrdersOK(x, open_orders[x], margin_accounts)
  /\ \A o \in orders : o.open_orders \in DOMAIN open_orders

\* Addresses of different owners or markets are different.
LEMMA AddressesDiffer ==
  /\ \A u, w : MarginAddress(u) = MarginAddress(w) => u = w
  /\ \A u, w, m, n : OpenOrdersOf(u, m) = OpenOrdersOf(w, n) => u = w /\ m = n
BY DEF MarginAddress, OpenOrdersOf, find_program_address, create_program_address,
       MarginAccountSeeds, OpenOrdersAccountSeeds

\* Different markets that are found have different indices.
LEMMA IndicesOfMarkets ==
  ASSUME Listed(market)
  PROVE  /\ \A m \in MarketKeys : Found(m) => get_product_index_by_key(m) \in Indices
         /\ \A m, n \in MarketKeys :
              Found(m) /\ Found(n) /\ get_product_index_by_key(m) = get_product_index_by_key(n)
                => m = n
<1>1. \A i \in Indices : Found(Keys[i]) => get_product_index_by_key(Keys[i]) = i
  BY SearchOfKey DEF Found, get_product_index_by_key
<1> QED  BY <1>1 DEF MarketKeys

\* What is found stays found when a market is listed.
LEMMA ListMarketKeepsIndices ==
  ASSUME Listed(market), NEW j \in Indices, ListMarket(j)
  PROVE  /\ Listed(market')
         /\ \A m \in MarketKeys : Found(m) =>
              Found(m)' /\ get_product_index_by_key(m)' = get_product_index_by_key(m)
<1>1. market' \in [Indices -> Nat] /\ \A x \in Indices : market'[x] = IF x = j THEN Keys[j] ELSE market[x]
  BY MarketNumbers DEF Listed, ListMarket
<1>2. Listed(market') /\ market[j] = 0
  BY <1>1 DEF Listed, ListMarket, DefaultKey
<1> DEFINE before == market
           after == market'
<1>3. /\ Listed(before) /\ Listed(after)
      /\ \A x \in Indices : before[x] # 0 => after[x] = before[x]
  BY <1>1, <1>2
<1> HIDE DEF before, after
<1>4. \A i \in Indices :
        binary_search_by_key(before, Keys[i]) # NotFound =>
          binary_search_by_key(after, Keys[i]) = binary_search_by_key(before, Keys[i])
  BY <1>3, SearchAfterListing
<1> QED  BY <1>2, <1>4 DEF before, after, MarketKeys, Found, get_product_index_by_key

-----------------------------------------------------------------------------
(* The proxies *)

\* The arguments the proxies pass: the nonces of the addresses Zeta derives.
MarginArgs(a) == <<Bump(MarginAccountSeeds(a.zeta_group, a.authority))>>
OpenOrdersArgs(a) ==
  <<Bump(OpenOrdersAccountSeeds(a.dex_program, a.market, a.authority)),
    Bump(MapAccountSeeds(a.open_orders))>>

\* Which instructions are accepted.
LEMMA Accepted ==
  ASSUME NEW a
  PROVE  /\ Accepts(initialize_margin_account(a))
              <=> AcceptsInitializeMarginAccount(a, MarginArgs(a))
         /\ Accepts(initialize_open_orders(a))
              <=> AcceptsInitializeOpenOrders(a, OpenOrdersArgs(a))
         /\ \A amount : Accepts(withdraw(a, amount)) <=> AcceptsWithdraw(a, <<amount>>)
         /\ \A side, id : Accepts(cancel_order(a, side, id))
              <=> IsOpenOrders(a) /\ Cancelled(a, <<side, id>>) # {}
BY DEF Accepts, Instruction, initialize_margin_account, initialize_open_orders, withdraw,
       cancel_order, MarginArgs, OpenOrdersArgs, MarginSeeds, OpenOrdersSeeds,
       MapSeeds, MarginAccountSeeds, OpenOrdersAccountSeeds, MapAccountSeeds

\* What an instruction does.
LEMMA Invoked ==
  ASSUME NEW a
  PROVE  /\ Invoke(initialize_margin_account(a)) =>
              /\ AcceptsInitializeMarginAccount(a, MarginArgs(a))
              /\ InitializeMarginAccount(a, MarginArgs(a)) /\ UNCHANGED market
         /\ Invoke(initialize_open_orders(a)) =>
              /\ AcceptsInitializeOpenOrders(a, OpenOrdersArgs(a))
              /\ InitializeOpenOrders(a, OpenOrdersArgs(a)) /\ UNCHANGED market
         /\ \A amount : Invoke(deposit(a, amount)) =>
              /\ IsMarginAccountOf(a.margin_account, a.authority)
              /\ Move(a, amount) /\ UNCHANGED market
         /\ \A amount : Invoke(withdraw(a, amount)) =>
              /\ IsMarginAccountOf(a.margin_account, a.authority)
              /\ Move(a, -amount) /\ UNCHANGED market
         /\ \A side : Invoke(place_order(a, 1, 1, side, "None")) =>
              /\ IsOpenOrders(a)
              /\ PlaceOrder(a, <<1, 1, side, "None">>) /\ UNCHANGED market
         /\ \A side, id : Invoke(cancel_order(a, side, id)) =>
              CancelOrder(a, <<side, id>>) /\ UNCHANGED market
<1>1. Invoke(initialize_margin_account(a)) =>
        /\ AcceptsInitializeMarginAccount(a, MarginArgs(a))
        /\ InitializeMarginAccount(a, MarginArgs(a)) /\ UNCHANGED market
  BY DEF Invoke, Accepts, Instruction, initialize_margin_account, MarginArgs, MarginSeeds,
         MarginAccountSeeds
<1>2. Invoke(initialize_open_orders(a)) =>
        /\ AcceptsInitializeOpenOrders(a, OpenOrdersArgs(a))
        /\ InitializeOpenOrders(a, OpenOrdersArgs(a)) /\ UNCHANGED market
  BY DEF Invoke, Accepts, Instruction, initialize_open_orders, OpenOrdersArgs, OpenOrdersSeeds,
         MapSeeds, OpenOrdersAccountSeeds, MapAccountSeeds
<1>3. ASSUME NEW amount, Invoke(deposit(a, amount))
      PROVE  /\ IsMarginAccountOf(a.margin_account, a.authority)
             /\ Move(a, amount) /\ UNCHANGED market
  BY <1>3 DEF Invoke, Accepts, Instruction, deposit, AcceptsDeposit
<1>4. ASSUME NEW amount, Invoke(withdraw(a, amount))
      PROVE  /\ IsMarginAccountOf(a.margin_account, a.authority)
             /\ Move(a, -amount) /\ UNCHANGED market
  BY <1>4 DEF Invoke, Accepts, Instruction, withdraw, AcceptsWithdraw
<1>5. ASSUME NEW side, Invoke(place_order(a, 1, 1, side, "None"))
      PROVE  /\ IsOpenOrders(a)
             /\ PlaceOrder(a, <<1, 1, side, "None">>) /\ UNCHANGED market
  BY <1>5 DEF Invoke, Accepts, Instruction, place_order
<1>6. ASSUME NEW side, NEW id, Invoke(cancel_order(a, side, id))
      PROVE  CancelOrder(a, <<side, id>>) /\ UNCHANGED market
  BY <1>6 DEF Invoke, Accepts, Instruction, cancel_order
<1> QED  BY <1>1, <1>2, <1>3, <1>4, <1>5, <1>6

\* The accounts that a client passes.
LEMMA AccountFields ==
  ASSUME NEW signer, NEW owner, NEW m, NEW m2
  PROVE  LET a == Accounts(signer, owner, m, m2)
         IN /\ a.zeta_group = zeta_group /\ a.dex_program = dex_program
            /\ a.authority = signer /\ a.market = m
            /\ a.margin_account = MarginAddress(owner)
            /\ a.open_orders = OpenOrdersOf(owner, m2)
            /\ a.open_orders_map = find_program_address(MapAccountSeeds(OpenOrdersOf(owner, m2)))
BY DEF Accounts, MarginAddress

-----------------------------------------------------------------------------
(* The invariant *)

\* Open orders keep their place in margin accounts that keep their nonces.
LEMMA OpenOrdersKept ==
  ASSUME NEW before, NEW after, NEW x, NEW account, OpenOrdersOK(x, account, before),
         DOMAIN before \subseteq DOMAIN after,
         \A y \in DOMAIN before : after[y].open_orders_nonce = before[y].open_orders_nonce
  PROVE  OpenOrdersOK(x, account, after)
BY DEF OpenOrdersOK

\* Listing a market keeps the index of every market that was found.
LEMMA ListMarketStep ==
  ASSUME ClientInv, NEW i \in Indices, ListMarket(i),
         UNCHANGED <<user_usdc, margin_accounts, open_orders, orders>>
  PROVE  ClientInv'
<1>1. /\ Listed(market')
      /\ \A m \in MarketKeys : Found(m) =>
           Found(m)' /\ get_product_index_by_key(m)' = get_product_index_by_key(m)
  BY ListMarketKeepsIndices DEF ClientInv
<1>2. ASSUME NEW x \in DOMAIN open_orders
      PROVE  OpenOrdersOK(x, open_orders[x], margin_accounts)'
  <2> DEFINE m == open_orders[x].market
  <2>1. OpenOrdersOK(x, open_orders[x], margin_accounts)
    BY DEF ClientInv
  <2>2. m \in MarketKeys /\ Found(m)
    BY <2>1 DEF OpenOrdersOK, OpenOrdersAccount
  <2>3. Found(m)' /\ get_product_index_by_key(m)' = get_product_index_by_key(m)
    BY <1>1, <2>2
  <2>4. open_orders' = open_orders /\ margin_accounts' = margin_accounts
    OBVIOUS
  <2> QED  BY <2>1, <2>3, <2>4 DEF OpenOrdersOK, Found, get_product_index_by_key
<1> QED  BY <1>1, <1>2 DEF ClientInv, MarginAccountOK

\* A new margin account takes the place of no other.
LEMMA InitializeMarginAccountStep ==
  ASSUME ClientInv, NEW signer \in Authorities, NEW owner \in Authorities, NEW m, NEW m2,
         Invoke(initialize_margin_account(Accounts(signer, owner, m, m2)))
  PROVE  ClientInv'
<1> DEFINE a == Accounts(signer, owner, m, m2)
           address == MarginAddress(owner)
           account == [authority |-> signer, balance |-> 0,
                       open_orders_nonce |-> [i \in Indices |-> 0]]
<1>1. /\ AcceptsInitializeMarginAccount(a, MarginArgs(a))
      /\ InitializeMarginAccount(a, MarginArgs(a)) /\ UNCHANGED market
  BY Invoked
<1>2. /\ a.zeta_group = zeta_group /\ a.authority = signer /\ a.margin_account = address
  BY AccountFields
<1> HIDE DEF a
<1>3. address \notin DOMAIN margin_accounts /\ address = MarginAddress(signer)
  BY <1>1, <1>2 DEF AcceptsInitializeMarginAccount, MarginArgs, MarginAddress, find_program_address
<1>4. /\ margin_accounts' = WithAccount(margin_accounts, address, account)
      /\ UNCHANGED <<market, open_orders, orders>>
  BY <1>1, <1>2 DEF InitializeMarginAccount
<1>5. MarginAccountOK(address, account)
  BY <1>3 DEF MarginAccountOK, MarginAccount, Nonces
<1> HIDE DEF address, account
<1>6. /\ DOMAIN margin_accounts' = DOMAIN margin_accounts \cup {address}
      /\ \A x \in DOMAIN margin_accounts : margin_accounts'[x] = margin_accounts[x]
      /\ margin_accounts'[address] = account
  BY <1>3, <1>4 DEF WithAccount
<1>7. \A x \in DOMAIN margin_accounts' : MarginAccountOK(x, margin_accounts'[x])
  BY <1>5, <1>6 DEF ClientInv
<1>8. \A x \in DOMAIN open_orders : OpenOrdersOK(x, open_orders[x], margin_accounts')
  BY <1>6, OpenOrdersKept DEF ClientInv
<1> QED  BY <1>4, <1>7, <1>8 DEF ClientInv, OpenOrdersOK, MarginAccountOK, Found,
                                get_product_index_by_key

\* A deposit or withdrawal changes a balance and no nonce.
LEMMA MoveStep ==
  ASSUME ClientInv, NEW signer \in Authorities, NEW owner \in Authorities, NEW m, NEW m2,
         NEW amount \in Int,
         IsMarginAccountOf(Accounts(signer, owner, m, m2).margin_account, signer),
         Move(Accounts(signer, owner, m, m2), amount), UNCHANGED market
  PROVE  ClientInv'
<1> DEFINE address == Accounts(signer, owner, m, m2).margin_account
           old == margin_accounts[address]
           account == [old EXCEPT !.balance = @ + amount]
<1>1. address \in DOMAIN margin_accounts /\ MarginAccountOK(address, old)
  BY DEF IsMarginAccountOf, ClientInv
<1>2. /\ margin_accounts' = [margin_accounts EXCEPT ![address] = account]
      /\ UNCHANGED <<market, open_orders, orders>>
  BY DEF Move
<1>3. MarginAccountOK(address, account) /\ account.open_orders_nonce = old.open_orders_nonce
  BY <1>1 DEF MarginAccountOK, MarginAccount
<1> HIDE DEF address, account
<1>4. /\ DOMAIN margin_accounts' = DOMAIN margin_accounts
      /\ \A x \in DOMAIN margin_accounts :
           margin_accounts'[x] = IF x = address THEN account ELSE margin_accounts[x]
  BY <1>2
<1>5. \A x \in DOMAIN margin_accounts' : MarginAccountOK(x, margin_accounts'[x])
  BY <1>3, <1>4 DEF ClientInv
<1>6. \A x \in DOMAIN margin_accounts :
        margin_accounts'[x].open_orders_nonce = margin_accounts[x].open_orders_nonce
  BY <1>3, <1>4
<1>7. \A x \in DOMAIN open_orders : OpenOrdersOK(x, open_orders[x], margin_accounts')
  BY <1>4, <1>6, OpenOrdersKept DEF ClientInv
<1> QED  BY <1>2, <1>5, <1>7 DEF ClientInv, OpenOrdersOK, MarginAccountOK, Found,
                                get_product_index_by_key

\* A new open orders account writes its nonce where it will be looked up, and
\* no other account of its owner is looked up there.
LEMMA InitializeOpenOrdersStep ==
  ASSUME ClientInv, NEW signer \in Authorities, NEW owner \in Authorities,
         NEW m \in MarketKeys, NEW m2 \in MarketKeys,
         Invoke(initialize_open_orders(Accounts(signer, owner, m, m2)))
  PROVE  ClientInv'
<1> DEFINE a == Accounts(signer, owner, m, m2)
           address == MarginAddress(signer)
           place == OpenOrdersOf(signer, m)
           opened == [authority |-> signer, market |-> m]
           nonce == Bump(OpenOrdersAccountSeeds(dex_program, m, signer))
           index == get_product_index_by_key(m)
           old == margin_accounts[address]
           account == [old EXCEPT !.open_orders_nonce[index] = nonce]
<1>1. /\ AcceptsInitializeOpenOrders(a, OpenOrdersArgs(a))
      /\ InitializeOpenOrders(a, OpenOrdersArgs(a)) /\ UNCHANGED market
  BY Invoked
<1>2. /\ a.dex_program = dex_program /\ a.authority = signer /\ a.market = m
      /\ a.margin_account = MarginAddress(owner) /\ a.open_orders = OpenOrdersOf(owner, m2)
  BY AccountFields
<1> HIDE DEF a
<1>3. OpenOrdersArgs(a)[1] = nonce
  BY <1>2 DEF OpenOrdersArgs
<1>4. OpenOrdersOf(owner, m2) = place
  BY <1>1, <1>2, <1>3 DEF AcceptsInitializeOpenOrders, OpenOrdersOf, find_program_address
<1>5. owner = signer /\ m2 = m
  BY <1>4, AddressesDiffer
<1>6. /\ address \in DOMAIN margin_accounts /\ MarginAccountOK(address, old)
      /\ old.authority = signer /\ Found(m) /\ place \notin DOMAIN open_orders
  BY <1>1, <1>2, <1>5 DEF AcceptsInitializeOpenOrders, IsMarginAccountOf, ClientInv
<1>7. /\ open_orders' = WithAccount(open_orders, place, opened)
      /\ margin_accounts' = [margin_accounts EXCEPT ![address].open_orders_nonce[index] = nonce]
      /\ UNCHANGED <<market, orders>>
  BY <1>1, <1>2, <1>3, <1>5 DEF InitializeOpenOrders
<1>8. index \in Indices
  BY <1>6, IndicesOfMarkets DEF ClientInv
<1>9. nonce \in Nonces
  BY DEF Nonces
<1> HIDE DEF index, nonce, address
<1>10. old \in MarginAccount /\ address = MarginAddress(old.authority)
  BY <1>6 DEF MarginAccountOK
<1>11. /\ account \in MarginAccount /\ account.authority = old.authority
       /\ account.open_orders_nonce = [old.open_orders_nonce EXCEPT ![index] = nonce]
       /\ old.open_orders_nonce \in [Indices -> Nonces]
  BY <1>8, <1>9, <1>10 DEF MarginAccount
<1>12. /\ DOMAIN margin_accounts' = DOMAIN margin_accounts
       /\ \A x \in DOMAIN margin_accounts :
            margin_accounts'[x] = IF x = address THEN account ELSE margin_accounts[x]
  BY <1>7
<1> HIDE DEF account
<1>13. \A x \in DOMAIN margin_accounts' : MarginAccountOK(x, margin_accounts'[x])
  BY <1>10, <1>11, <1>12 DEF ClientInv, MarginAccountOK
<1> HIDE DEF place, opened
<1>14. /\ DOMAIN open_orders' = DOMAIN open_orders \cup {place}
       /\ open_orders'[place] = opened
       /\ \A x \in DOMAIN open_orders : open_orders'[x] = open_orders[x]
  BY <1>6, <1>7 DEF WithAccount
<1>15. OpenOrdersOK(place, opened, margin_accounts')
  <2>1. opened \in OpenOrdersAccount /\ opened.authority = signer /\ opened.market = m
    BY DEF opened, OpenOrdersAccount
  <2>2. margin_accounts'[address].open_orders_nonce[index] = nonce
    BY <1>6, <1>8, <1>11, <1>12
  <2> QED  BY <1>6, <1>12, <2>1, <2>2 DEF OpenOrdersOK, place, address, index, nonce
<1>16. ASSUME NEW x \in DOMAIN open_orders
       PROVE  OpenOrdersOK(x, open_orders[x], margin_accounts')
  <2> DEFINE w == open_orders[x].authority
             n == open_orders[x].market
             at == get_product_index_by_key(n)
  <2>1. /\ open_orders[x] \in OpenOrdersAccount /\ x = OpenOrdersOf(w, n) /\ Found(n)
        /\ MarginAddress(w) \in DOMAIN margin_accounts
        /\ margin_accounts[MarginAddress(w)].open_orders_nonce[at]
             = Bump(OpenOrdersAccountSeeds(dex_program, n, w))
    BY DEF ClientInv, OpenOrdersOK
  <2>2. margin_accounts'[MarginAddress(w)].open_orders_nonce[at]
          = margin_accounts[MarginAddress(w)].open_orders_nonce[at]
    <3>1. CASE MarginAddress(w) # address
      BY <1>12, <2>1, <3>1
    <3>2. CASE MarginAddress(w) = address
      <4>1. w = signer
        BY <3>2, AddressesDiffer DEF address
      <4>2. n # m
        BY <1>6, <2>1, <4>1 DEF place
      <4>3. at \in Indices /\ at # index
        <5>1. n \in MarketKeys
          BY <2>1 DEF OpenOrdersAccount
        <5> QED  BY <1>6, <2>1, <4>2, <5>1, IndicesOfMarkets DEF ClientInv, index
      <4> HIDE DEF at, w, n
      <4>4. account.open_orders_nonce[at] = old.open_orders_nonce[at]
        BY <1>11, <4>3
      <4> QED  BY <1>6, <1>12, <3>2, <4>4
    <3> QED  BY <3>1, <3>2
  <2> QED  BY <1>12, <2>1, <2>2 DEF OpenOrdersOK
<1>17. \A x \in DOMAIN open_orders' : OpenOrdersOK(x, open_orders'[x], margin_accounts')
  BY <1>14, <1>15, <1>16
<1>18. \A o \in orders' : o.open_orders \in DOMAIN open_orders'
  BY <1>7, <1>14 DEF ClientInv
<1> QED  BY <1>7, <1>13, <1>17, <1>18 DEF ClientInv, OpenOrdersOK, MarginAccountOK, Found,
                                       get_product_index_by_key

\* Orders are placed in open orders accounts that exist.
LEMMA OrdersStep ==
  ASSUME ClientInv, NEW a, NEW args, UNCHANGED market,
         \/ IsOpenOrders(a) /\ PlaceOrder(a, args)
         \/ CancelOrder(a, args)
  PROVE  ClientInv'
<1>1. UNCHANGED <<market, margin_accounts, open_orders>>
  BY DEF PlaceOrder, CancelOrder
<1>2. \A o \in orders' : o.open_orders \in DOMAIN open_orders
  <2>1. CASE IsOpenOrders(a) /\ PlaceOrder(a, args)
    <3>1. a.open_orders \in DOMAIN open_orders
      BY <2>1 DEF IsOpenOrders
    <3>2. PICK id : orders' = orders \cup
                      {[open_orders |-> a.open_orders, side |-> args[3], order_id |-> id]}
      BY <2>1 DEF PlaceOrder
    <3> QED  BY <3>1, <3>2 DEF ClientInv
  <2>2. CASE CancelOrder(a, args)
    BY <2>2 DEF CancelOrder, ClientInv
  <2> QED  BY <2>1, <2>2
<1> QED  BY <1>1, <1>2 DEF ClientInv, OpenOrdersOK, MarginAccountOK, Found,
                          get_product_index_by_key

\* Every derived account is where its owner's client looks for it, and the
\* nonce that Zeta checks is at the index of a market that is found.
THEOREM ClientInvariant == ClientSpec => []ClientInv
<1>1. ClientInit => ClientInv
  <2> SUFFICES ASSUME ClientInit PROVE ClientInv
    OBVIOUS
  <2>1. Listed(market)
    BY DEF ClientInit, MarketsInit, Listed, DefaultKey
  <2>2. DOMAIN margin_accounts = {} /\ DOMAIN open_orders = {} /\ orders = {}
    BY DEF ClientInit
  <2> QED  BY <2>1, <2>2 DEF ClientInv
<1>2. ClientInv /\ [ClientNext]_clientVars => ClientInv'
  <2> SUFFICES ASSUME ClientInv, [ClientNext]_clientVars PROVE ClientInv'
    OBVIOUS
  <2>1. ASSUME NEW i \in Indices, ListMarket(i),
               UNCHANGED <<user_usdc, margin_accounts, open_orders, orders>>
        PROVE  ClientInv'
    BY <2>1, ListMarketStep
  <2>2. ASSUME NEW signer \in Authorities, NEW owner \in Authorities,
               NEW m \in MarketKeys, NEW m2 \in MarketKeys,
               Invoke(initialize_margin_account(Accounts(signer, owner, m, m2)))
        PROVE  ClientInv'
    BY <2>2, InitializeMarginAccountStep
  <2>3. ASSUME NEW signer \in Authorities, NEW owner \in Authorities,
               NEW m \in MarketKeys, NEW m2 \in MarketKeys,
               Invoke(initialize_open_orders(Accounts(signer, owner, m, m2)))
        PROVE  ClientInv'
    BY <2>3, InitializeOpenOrdersStep
  <2>4. ASSUME NEW signer \in Authorities, NEW owner \in Authorities,
               NEW m \in MarketKeys, NEW m2 \in MarketKeys, NEW amount \in Amounts,
               \/ Invoke(deposit(Accounts(signer, owner, m, m2), amount))
               \/ Invoke(withdraw(Accounts(signer, owner, m, m2), amount))
        PROVE  ClientInv'
    <3> DEFINE a == Accounts(signer, owner, m, m2)
    <3>1. a.authority = signer
      BY AccountFields
    <3> HIDE DEF a
    <3>2. amount \in Int /\ -amount \in Int
      BY ClientAssumption
    <3>3. /\ IsMarginAccountOf(a.margin_account, signer) /\ UNCHANGED market
          /\ Move(a, amount) \/ Move(a, -amount)
      BY <2>4, <3>1, Invoked DEF a
    <3> QED  BY <3>2, <3>3, MoveStep DEF a
  <2>5. ASSUME NEW signer \in Authorities, NEW owner \in Authorities,
               NEW m \in MarketKeys, NEW m2 \in MarketKeys, NEW side \in Sides,
               Invoke(place_order(Accounts(signer, owner, m, m2), 1, 1, side, "None"))
        PROVE  ClientInv'
    BY <2>5, Invoked, OrdersStep
  <2>6. ASSUME NEW signer \in Authorities, NEW owner \in Authorities,
               NEW m \in MarketKeys, NEW m2 \in MarketKeys, NEW side \in Sides, NEW id \in OrderIds,
               Invoke(cancel_order(Accounts(signer, owner, m, m2), side, id))
        PROVE  ClientInv'
    BY <2>6, Invoked, OrdersStep
  <2>7. CASE UNCHANGED clientVars
    BY <2>7 DEF clientVars, ClientInv, OpenOrdersOK, MarginAccountOK, Found,
                get_product_index_by_key
  <2> QED  BY <2>1, <2>2, <2>3, <2>4, <2>5, <2>6, <2>7 DEF ClientNext
<1> QED  BY <1>1, <1>2, PTL DEF ClientSpec

-----------------------------------------------------------------------------
(* What clients may count on *)

\* zeta_account.rs:173-220, lib.rs:108-131: when every market is listed, each
\* is found by its key, in the series and at the index it is shown with.
THEOREM MarketsAreFound == ClientSpec => []EveryMarketIsFound
<1>1. ClientInv => EveryMarketIsFound
  <2> SUFFICES ASSUME ClientInv, DefaultKey \notin { market[i] : i \in Indices },
                      NEW e \in 0 .. NUM_EXPIRIES - 1, NEW i \in SliceIndices
               PROVE  get_product_and_expiry_index_by_key(get_products_slice(e)[i])
                        = <<get_products_slice_market_index(e, i), e>>
    BY DEF EveryMarketIsFound, read_program_data
  <2> DEFINE n == e * NUM_PRODUCTS_PER_SERIES + i
  <2>1. n \in Indices /\ n \div NUM_PRODUCTS_PER_SERIES = e
    BY SeriesOfIndex
  <2>2. get_products_slice(e)[i] = market[n] /\ get_products_slice_market_index(e, i) = n
    BY DEF get_products_slice, get_products_slice_market_index
  <2> HIDE DEF n
  <2>3. Listed(market) /\ \A x \in Indices : market[x] # 0
    BY DEF ClientInv, DefaultKey
  <2>4. market[n] = Keys[n]
    BY <2>1, <2>3 DEF Listed
  <2>5. get_product_index_by_key(Keys[n]) = n
    BY <2>1, <2>3, SearchOfKey DEF get_product_index_by_key
  <2> QED  BY <2>1, <2>2, <2>4, <2>5 DEF get_product_and_expiry_index_by_key,
                                         get_expiry_index_by_product_index
<1> QED  BY <1>1, ClientInvariant, PTL

\* zeta_account.rs:181: a market that has been found stays where it is found,
\* in whatever order the others are listed.
THEOREM FoundMarketsStay == ClientSpec => FoundStaysFound
<1>1. ClientInv /\ [ClientNext]_clientVars =>
        [\A i \in Indices :
           Found(Keys[i]) =>
             get_product_index_by_key(Keys[i])' = get_product_index_by_key(Keys[i])]_market
  <2> SUFFICES ASSUME ClientInv, [ClientNext]_clientVars, market' # market, NEW i \in Indices,
                      Found(Keys[i])
               PROVE  get_product_index_by_key(Keys[i])' = get_product_index_by_key(Keys[i])
    OBVIOUS
  <2>1. ASSUME NEW signer, NEW owner, NEW m, NEW m2,
               LET a == Accounts(signer, owner, m, m2)
               IN \/ Invoke(initialize_margin_account(a))
                  \/ Invoke(initialize_open_orders(a))
                  \/ \E amount \in Amounts : Invoke(deposit(a, amount)) \/ Invoke(withdraw(a, amount))
                  \/ \E side \in Sides : Invoke(place_order(a, 1, 1, side, "None"))
                  \/ \E side \in Sides, id \in OrderIds : Invoke(cancel_order(a, side, id))
        PROVE  FALSE
    BY <2>1 DEF Invoke
  <2>2. PICK j \in Indices : ListMarket(j)
    BY <2>1 DEF ClientNext, clientVars
  <2>3. Keys[i] \in MarketKeys
    BY DEF MarketKeys
  <2> QED  BY <2>2, <2>3, ListMarketKeepsIndices DEF ClientInv
<1>2. []ClientInv /\ [][ClientNext]_clientVars => FoundStaysFound
  BY <1>1, PTL DEF FoundStaysFound
<1> QED  BY <1>2, ClientInvariant, PTL DEF ClientSpec

\* zeta_client.rs:23-79: a client's own accounts are accepted.
THEOREM ClientsAreServed == ClientSpec => []ClientIsServed
<1>1. ClientInv => ClientIsServed
  <2> SUFFICES ASSUME ClientInv, NEW u \in Authorities, NEW m \in MarketKeys, NEW amount \in Amounts
               PROVE  LET a == Own(u, m)
                          exists == a.margin_account \in DOMAIN margin_accounts
                      IN /\ exists \/ Accepts(initialize_margin_account(a))
                         /\ exists /\ amount <= margin_accounts[a.margin_account].balance
                            => Accepts(withdraw(a, amount))
                         /\ exists /\ Found(m) /\ a.open_orders \notin DOMAIN open_orders
                            => Accepts(initialize_open_orders(a))
    BY DEF ClientIsServed
  <2> DEFINE a == Own(u, m)
             address == MarginAddress(u)
  <2>1. /\ a.zeta_group = zeta_group /\ a.dex_program = dex_program
        /\ a.authority = u /\ a.market = m
        /\ a.margin_account = address /\ a.open_orders = OpenOrdersOf(u, m)
        /\ a.open_orders_map = find_program_address(MapAccountSeeds(OpenOrdersOf(u, m)))
    BY AccountFields DEF Own
  <2> HIDE DEF a
  <2>2. ASSUME address \notin DOMAIN margin_accounts
        PROVE  Accepts(initialize_margin_account(a))
    <3>1. AcceptsInitializeMarginAccount(a, MarginArgs(a))
      BY <2>1, <2>2 DEF AcceptsInitializeMarginAccount, MarginArgs, MarginAddress,
                        find_program_address
    <3> QED  BY <3>1, Accepted
  <2>3. ASSUME address \in DOMAIN margin_accounts
        PROVE  IsMarginAccountOf(address, u)
    BY <2>3, AddressesDiffer DEF ClientInv, MarginAccountOK, IsMarginAccountOf
  <2>4. ASSUME address \in DOMAIN margin_accounts,
               amount <= margin_accounts[address].balance
        PROVE  Accepts(withdraw(a, amount))
    <3>1. AcceptsWithdraw(a, <<amount>>)
      BY <2>1, <2>3, <2>4 DEF AcceptsWithdraw
    <3> QED  BY <3>1, Accepted
  <2>5. ASSUME address \in DOMAIN margin_accounts, Found(m),
               a.open_orders \notin DOMAIN open_orders
        PROVE  Accepts(initialize_open_orders(a))
    <3>1. AcceptsInitializeOpenOrders(a, OpenOrdersArgs(a))
      BY <2>1, <2>3, <2>5 DEF AcceptsInitializeOpenOrders, OpenOrdersArgs, OpenOrdersOf,
                              find_program_address
    <3> QED  BY <3>1, Accepted
  <2> HIDE DEF address
  <2> QED  BY <2>1, <2>2, <2>4, <2>5 DEF a
<1> QED  BY <1>1, ClientInvariant, PTL

\* zeta_client.rs:94: an order on the book can be cancelled by its owner.
THEOREM OrdersCanBeCancelled == ClientSpec => []OwnersCanCancel
<1>1. ClientInv => OwnersCanCancel
  <2> SUFFICES ASSUME ClientInv, NEW o \in orders
               PROVE  Accepts(cancel_order(Own(open_orders[o.open_orders].authority,
                                               open_orders[o.open_orders].market),
                                           o.side, o.order_id))
    BY DEF OwnersCanCancel
  <2> DEFINE x == o.open_orders
             u == open_orders[x].authority
             m == open_orders[x].market
             a == Own(u, m)
             address == MarginAddress(u)
             nonce == Bump(OpenOrdersAccountSeeds(dex_program, m, u))
  <2>1. /\ x \in DOMAIN open_orders /\ x = OpenOrdersOf(u, m) /\ Found(m)
        /\ address \in DOMAIN margin_accounts
        /\ margin_accounts[address].open_orders_nonce[get_product_index_by_key(m)] = nonce
    BY DEF ClientInv, OpenOrdersOK
  <2>2. margin_accounts[address].authority = u
    BY <2>1, AddressesDiffer DEF ClientInv, MarginAccountOK
  <2>3. /\ a.dex_program = dex_program /\ a.authority = u /\ a.market = m
        /\ a.margin_account = address /\ a.open_orders = x
    BY <2>1, AccountFields DEF Own
  <2> HIDE DEF a, u, m, x, address
  <2>4. x = create_program_address(OpenOrdersAccountSeeds(dex_program, m, u), nonce)
    BY <2>1 DEF OpenOrdersOf, find_program_address
  <2>5. IsOpenOrders(a)
    BY <2>1, <2>2, <2>3, <2>4 DEF IsOpenOrders, IsMarginAccountOf
  <2>6. o \in Cancelled(a, <<o.side, o.order_id>>)
    BY <2>3 DEF Cancelled, x
  <2>7. Accepts(cancel_order(a, o.side, o.order_id))
    BY <2>5, <2>6, Accepted
  <2> QED  BY <2>7 DEF a, u, m, x
<1> QED  BY <1>1, ClientInvariant, PTL
=============================================================================
