------------------------------ MODULE ReedSolomon ------------------------------
(***************************************************************************)
(* The erasure code of a video block (starfire-protocol fec.rs): k data    *)
(* shards and m parity shards, parity row j weighting data column i by     *)
(* 1 / ((m + i) XOR j) in a field of 256 elements.  A block is encoded,    *)
(* some of its shards arrive, and what is missing is recovered: by the     *)
(* shipping path from an inverse of the lost columns only, and by the      *)
(* scalar one, its oracle and fallback, from an inverse of all surviving   *)
(* rows.  The bytes of a shard do not meet, so a shard is one byte and a   *)
(* length.                                                                 *)
(***************************************************************************)
EXTENDS Integers, Sequences, FiniteSets, Functions

CONSTANTS
  Order,        \* MAX_BLOCK_SHARDS (255); the field has one element more
  Polynomial,   \* its primitive polynomial (0x11d)
  Xor(_, _),    \* the machine's exclusive or
  CoderCache,   \* coders kept
  Shapes,       \* the blocks' <<k, m>>
  Bytes,        \* bytes the data shards have
  Full,         \* the length of a shard
  MaxBlocks     \* BOUND: blocks

Elements == 0 .. Order

ASSUME WidthAssumption == Order \in Nat \ {0} /\ Polynomial \in Order + 1 .. 2 * Order + 1

\* Xor is the exclusive or of numbers of one bit more than a byte: a commutative group in which
\* every number is its own inverse, whose top bit is that of one argument, and which a
\* shift respects.
ASSUME XorAssumption ==
  LET Wide == 0 .. 2 * Order + 1
  IN  /\ \A a \in Wide : Xor(a, 0) = a /\ Xor(a, a) = 0
      /\ \A a, b \in Wide : /\ Xor(a, b) \in Wide /\ Xor(a, b) = Xor(b, a)
                            /\ Xor(a, b) \in Elements <=> (a \in Elements <=> b \in Elements)
      /\ \A a, b, c \in Wide : Xor(a, Xor(b, c)) = Xor(Xor(a, b), c)
      /\ \A a, b \in Elements : Xor(2 * a, 2 * b) = 2 * Xor(a, b)

ASSUME BlockAssumption ==
  /\ Shapes \subseteq Nat \X Nat /\ Bytes \subseteq Elements
  /\ Full \in Nat \ {0} /\ CoderCache \in Nat \ {0} /\ MaxBlocks \in Nat

VARIABLES
  shape,       \* the current block's <<k, m>>, <<0, 0>> before the first
  data,        \* its data bytes
  coded,       \* all its shards as sent, or Refused
  shards,      \* what arrived of it: a shard [len, byte] or Lost per slot
  rebuilt,     \* what recover_views returned: Rebuilt, Nothing, or still Pending
  coders,      \* the keys of the coders kept
  fast, fallback, blocks

vars == <<shape, data, coded, shards, rebuilt, coders, fast, fallback, blocks>>

Refused == <<>>
Nothing == [state |-> "none", bytes |-> <<>>]
Pending == [state |-> "pending", bytes |-> <<>>]
Rebuilt(bytes) == [state |-> "done", bytes |-> bytes]
Lost    == [len |-> 0, byte |-> 0]

-----------------------------------------------------------------------------
(* The field. *)

Doubled(x) == IF 2 * x > Order THEN Xor(2 * x, Polynomial) ELSE 2 * x

\* Gf256::build.  The powers of 2, twice, and their exponents.
Exp ==
  LET e[i \in 0 .. 2 * Order] ==
        IF i = 0 THEN 1 ELSE IF i >= Order THEN e[i - Order] ELSE Doubled(e[i - 1])
  IN  e

\* The polynomial is primitive: the powers of 2 are every byte but 0, and then start again.
ASSUME PrimitiveAssumption ==
  {Exp[i] : i \in 0 .. Order - 1} = 1 .. Order /\ Doubled(Exp[Order - 1]) = 1

Log == [a \in 1 .. Order |-> CHOOSE i \in 0 .. Order - 1 : Exp[i] = a]

Mul(a, b)  == IF a = 0 \/ b = 0 THEN 0 ELSE Exp[Log[a] + Log[b]]
Reciprocal(a) == IF a = 0 THEN 0 ELSE Exp[Order - Log[a]]

\* The field's sum of the products f[i] g[i] for i in 0 .. n - 1.
Dot(n, f, g) ==
  LET s[i \in 0 .. n] == IF i = 0 THEN 0 ELSE Xor(s[i - 1], Mul(f[i - 1], g[i - 1]))
  IN  s[n]

\* parity_coeff.
Coeff(m, i, j) == Reciprocal(Xor(m + i, j))

Identity(n) == [x \in 0 .. n - 1 |-> [y \in 0 .. n - 1 |-> IF x = y THEN 1 ELSE 0]]

\* generator: the rows of the identity, then the parity rows.
Generator(k, m) ==
  [r \in 0 .. k + m - 1 |->
     [i \in 0 .. k - 1 |-> IF r < k THEN (IF r = i THEN 1 ELSE 0) ELSE Coeff(m, i, r - k)]]

-----------------------------------------------------------------------------
(* Gauss-Jordan elimination: scalar::invert. *)

Swapped(rows, a, b) == [rows EXCEPT ![a] = rows[b], ![b] = rows[a]]

Scaled(row, w)   == [c \in DOMAIN row |-> Mul(row[c], w)]
Added(row, f, p) == [c \in DOMAIN row |-> Xor(row[c], Mul(f, p[c]))]

\* Row `col` scaled by w, and then added to each other row r column[r] times.
Swept(rows, col, w, column) ==
  LET top == Scaled(rows[col], w)
  IN  [r \in DOMAIN rows |-> IF r = col THEN top ELSE Added(rows[r], column[r], top)]

Pivots(mat, n, col) == {r \in col .. n - 1 : mat[r][col] # 0}

\* Column `col` cleared but for the pivot, in a pair [mat, inv]; {} when it is singular.
Eliminated(pair, n, col) ==
  LET piv    == CHOOSE r \in Pivots(pair.mat, n, col) : \A q \in Pivots(pair.mat, n, col) : r <= q
      mat    == Swapped(pair.mat, piv, col)
      column == [r \in 0 .. n - 1 |-> mat[r][col]]
      Clear(rows) == Swept(rows, col, Reciprocal(column[col]), column)
  IN  IF Pivots(pair.mat, n, col) = {} THEN {}
      ELSE {[mat |-> Clear(mat), inv |-> Clear(Swapped(pair.inv, piv, col))]}

\* The pairs, one or none, once the first `col` columns are cleared.
Reduced(mat, n) ==
  LET pairs[col \in 0 .. n] ==
        IF col = 0 THEN {[mat |-> mat, inv |-> Identity(n)]}
        ELSE UNION {Eliminated(p, n, col - 1) : p \in pairs[col - 1]}
  IN  pairs

\* The inverse of an n x n matrix, in a set of at most one.
Inverted(mat, n) == {p.inv : p \in Reduced(mat, n)[n]}

-----------------------------------------------------------------------------
(* Recovery. *)

\* How many of the slots come before s, and the first n slots in ascending order.
Rank(slots, s) == Cardinality({q \in slots : q < s})
Ascending(slots, n) == [i \in 0 .. n - 1 |-> CHOOSE s \in slots : Rank(slots, s) = i]

Present(view) == {s \in DOMAIN view : view[s] # Lost}

\* recover_missing: from the first e surviving parity shards, one inverse of e x e, and the
\* rows that make the missing shards of the present data and the chosen parity.
RecoverMissing(k, m, missing, view) ==
  LET e       == Cardinality(missing)
      alive   == {j \in 0 .. m - 1 : view[k + j] # Lost}
      gone    == Ascending(missing, e)
      parity  == Ascending(alive, e)
      present == Ascending({i \in 0 .. k - 1 : view[i] # Lost}, k - e)
      square  == [t \in 0 .. e - 1 |-> [u \in 0 .. e - 1 |-> Coeff(m, gone[u], parity[t])]]
      crow    == [c \in 0 .. k - e - 1 |-> [t \in 0 .. e - 1 |-> Coeff(m, present[c], parity[t])]]
      sources == [c \in 0 .. k - 1 |-> IF c < k - e THEN view[present[c]].byte
                                       ELSE view[k + parity[c - (k - e)]].byte]
      Row(w)  == [c \in 0 .. k - 1 |-> IF c < k - e THEN Dot(e, w, crow[c]) ELSE w[c - (k - e)]]
  IN  IF Cardinality(alive) < e \/ k + m > Order THEN {}
      ELSE {[s \in missing |-> Dot(k, Row(inv[Rank(missing, s)]), sources)] : inv \in Inverted(square, e)}

\* scalar::recover: from the first k surviving shards, one inverse of k x k.
ScalarRecover(k, m, missing, view) ==
  LET rows  == Ascending(Present(view), k)
      mat   == [r \in 0 .. k - 1 |-> Generator(k, m)[rows[r]]]
      bytes == [r \in 0 .. k - 1 |-> view[rows[r]].byte]
  IN  {[s \in missing |-> Dot(k, inv[s], bytes)] : inv \in Inverted(mat, k)}

\* Mutant: shards of any length are mixed.
SolvableMixed(k, view) == Cardinality(Present(view)) >= k

\* Enough shards survive, and all of one length.
Solvable(k, view) ==
  /\ Cardinality(Present(view)) >= k
  /\ \A s, t \in Present(view) : view[s].len = view[t].len

\* Fec::recover, recover_views.
RecoverViews ==
  /\ rebuilt = Pending /\ coded # Refused
  /\ LET k == shape[1]
         m == shape[2]
         missing == {i \in 0 .. k - 1 : shards[i] = Lost}
         quick   == RecoverMissing(k, m, missing, shards)
         slow    == ScalarRecover(k, m, missing, shards)
     IN  \/ /\ missing = {} /\ rebuilt' = Rebuilt(<<>>)
            /\ UNCHANGED <<fast, fallback>>
         \/ /\ missing # {} /\ ~Solvable(k, shards) /\ rebuilt' = Nothing
            /\ UNCHANGED <<fast, fallback>>
         \/ /\ missing # {} /\ Solvable(k, shards)
            /\ IF quick # {} THEN /\ rebuilt' \in {Rebuilt(b) : b \in quick}
                                  /\ fast' = fast + 1 /\ UNCHANGED fallback
               ELSE /\ rebuilt' \in (IF slow # {} THEN {Rebuilt(b) : b \in slow} ELSE {Nothing})
                    /\ fallback' = fallback + 1 /\ UNCHANGED fast
  /\ UNCHANGED <<shape, data, coded, shards, coders, blocks>>

-----------------------------------------------------------------------------
(* Encoding. *)

Encodable(k, m) == k # 0 /\ m # 0 /\ k + m <= Order

\* Fec::coder: the cache is emptied when it is full.
Cached(key) ==
  IF key \in Range(coders) THEN coders
  ELSE Append(IF Len(coders) >= CoderCache THEN <<>> ELSE coders, key)

\* Fec::encode: the data shards are sent as they are, before the parity.
Encode ==
  /\ blocks < MaxBlocks /\ blocks' = blocks + 1
  /\ rebuilt # Pending
  /\ \E s \in Shapes :
       LET k == s[1]
           m == s[2]
       IN  /\ shape' = s
           /\ data' \in [0 .. k - 1 -> Bytes]
           /\ IF Encodable(k, m)
              THEN /\ coded' = [r \in 0 .. k + m - 1 |->
                                  Dot(k, Generator(k, m)[r], data')]
                   /\ coders' = Cached(s) /\ fast' = fast + 1
              ELSE coded' = Refused /\ UNCHANGED <<coders, fast>>
  /\ shards' = <<>> /\ rebuilt' = Nothing
  /\ UNCHANGED fallback

\* Any of the shards arrive, one of them short.
Arrive ==
  /\ coded # Refused /\ shards = <<>>
  /\ \E there \in SUBSET DOMAIN coded, short \in DOMAIN coded \cup {-1} :
       shards' = [s \in DOMAIN coded |->
                    IF s \notin there THEN Lost
                    ELSE [len |-> IF s = short THEN Full - 1 ELSE Full, byte |-> coded[s]]]
  /\ rebuilt' = Pending
  /\ UNCHANGED <<shape, data, coded, coders, fast, fallback, blocks>>

-----------------------------------------------------------------------------
Init ==
  /\ shape = <<0, 0>> /\ data = <<>> /\ coded = Refused /\ shards = <<>> /\ rebuilt = Nothing
  /\ coders = <<>> /\ fast = 0 /\ fallback = 0 /\ blocks = 0

Next == Encode \/ Arrive \/ RecoverViews

Spec == Init /\ [][Next]_vars

-----------------------------------------------------------------------------
(* Properties. *)

\* A recovery is exact or it does not happen: the missing data comes back as it was sent
\* whenever as many shards as data shards arrive whole, whichever they are; both ways of
\* recovering agree (fec.rs, "every Fec result is gated byte-identical against it"); and
\* nothing is made up from too few shards or from a short one.  No pattern of losses in a
\* block the encoder makes needs the fallback ("The fallback count must stay zero in
\* production").
RecoversExactly ==
  /\ fallback = 0
  /\ shards # <<>> /\ rebuilt # Pending =>
       LET missing == {i \in DOMAIN data : shards[i] = Lost}
           whole   == \A s \in Present(shards) : shards[s].len = Full
       IN  IF Cardinality(Present(shards)) >= shape[1] /\ (whole \/ missing = {})
           THEN /\ rebuilt = Rebuilt([i \in missing |-> data[i]])
                /\ missing # {} => ScalarRecover(shape[1], shape[2], missing, shards) = {rebuilt.bytes}
           ELSE rebuilt # Nothing =>
                  \A s \in Present(shards) : shards[s].len = Full - 1 /\ Cardinality(Present(shards)) >= shape[1]

=============================================================================
