-------------------------- MODULE ConnectionProofs --------------------------
(***************************************************************************)
(* Theorems about the fragment buffers of one connection, for any number   *)
(* of rooms and batches, pieces of any size and any limits.                *)
(***************************************************************************)
EXTENDS Connection, FiniteSetTheorems, TLAPS

-----------------------------------------------------------------------------
(* Counting bytes *)

\* The bytes of finitely many blocks are finitely many.
LEMMA BytesFinite ==
    ASSUME NEW D, IsFiniteSet(D), NEW sizes \in [D -> Nat]
    PROVE  IsFiniteSet(BytesIn(sizes)) /\ ByteCount(sizes) \in Nat
<1> DEFINE block == [x \in D |-> {x} \X (1 .. sizes[x])]
           blocks == {block[x] : x \in D}
<1>1. IsFiniteSet(blocks)
    <2>1. block \in Surjection(D, blocks)
        BY DEF Surjection
    <2> QED BY <2>1, FS_Surjection
<1>2. \A T \in blocks : IsFiniteSet(T)
    <2> SUFFICES ASSUME NEW x \in D
                 PROVE  IsFiniteSet({x} \X (1 .. sizes[x]))
        OBVIOUS
    <2>1. IsFiniteSet({x})
        BY FS_Singleton
    <2>2. sizes[x] \in Int /\ 1 \in Int
        OBVIOUS
    <2>3. IsFiniteSet(1 .. sizes[x])
        BY <2>2, FS_Interval
    <2> HIDE DEF block, blocks
    <2> QED BY <2>1, <2>3, FS_Product
<1>3. BytesIn(sizes) = UNION blocks
    BY DEF BytesIn
<1>4. IsFiniteSet(BytesIn(sizes))
    BY <1>1, <1>2, <1>3, FS_UNION
<1> QED BY <1>4, FS_CardinalityType DEF ByteCount

\* No blocks, no bytes.
LEMMA NoBytes ==
    ASSUME NEW sizes \in [{} -> Nat]
    PROVE  ByteCount(sizes) = 0
<1>1. BytesIn(sizes) = {}
    BY DEF BytesIn
<1> QED BY <1>1, FS_EmptySet DEF ByteCount

\* A block adds its bytes.
LEMMA BytesAdded ==
    ASSUME NEW D, IsFiniteSet(D), NEW x, x \notin D, NEW n \in Nat,
           NEW sizes \in [D -> Nat]
    PROVE  ByteCount(Put(sizes, x, n)) = ByteCount(sizes) + n
<1> DEFINE block == {x} \X (1 .. n)
           more == Put(sizes, x, n)
<1>0. more \in [D \cup {x} -> Nat] /\ more[x] = n /\ \A y \in D : more[y] = sizes[y]
    BY DEF Put
<1> HIDE DEF more
<1>1. BytesIn(more) = BytesIn(sizes) \cup block
    BY <1>0 DEF BytesIn
<1>2. BytesIn(sizes) \cap block = {}
    BY DEF BytesIn
<1>3. IsFiniteSet(block) /\ Cardinality(block) = n
    <2>1. IsFiniteSet({x}) /\ Cardinality({x}) = 1
        BY FS_Singleton
    <2>2. IsFiniteSet(1 .. n) /\ Cardinality(1 .. n) = n
        BY FS_Interval
    <2>3. IsFiniteSet(block) /\ Cardinality(block) = Cardinality({x}) * Cardinality(1 .. n)
        BY <2>1, <2>2, FS_Product
    <2> QED BY <2>1, <2>2, <2>3
<1>4. IsFiniteSet(BytesIn(sizes)) /\ ByteCount(sizes) \in Nat
    BY BytesFinite
<1>5. Cardinality(BytesIn(sizes) \cap block) = 0
    BY <1>2, FS_EmptySet
<1> HIDE DEF block
<1>6. Cardinality(BytesIn(sizes) \cup block)
         = Cardinality(BytesIn(sizes)) + Cardinality(block)
              - Cardinality(BytesIn(sizes) \cap block)
    BY <1>3, <1>4, FS_Union
<1> QED BY <1>1, <1>3, <1>4, <1>5, <1>6 DEF ByteCount, more

\* Fewer blocks have no more bytes.
LEMMA BytesDropped ==
    ASSUME NEW D, IsFiniteSet(D), NEW E \in SUBSET D,
           NEW sizes \in [D -> Nat], NEW fewer \in [E -> Nat],
           \A y \in E : fewer[y] = sizes[y]
    PROVE  ByteCount(fewer) <= ByteCount(sizes)
<1>1. BytesIn(fewer) \subseteq BytesIn(sizes)
    BY DEF BytesIn
<1>2. IsFiniteSet(BytesIn(sizes))
    BY BytesFinite
<1> QED BY <1>1, <1>2, FS_Subset DEF ByteCount

\* A set of pairs, one for each index, has as many members as there are indices.
LEMMA OnePerIndex ==
    ASSUME NEW D, IsFiniteSet(D), NEW f
    PROVE  LET pairs == {<<i, f[i]>> : i \in D} IN
           IsFiniteSet(pairs) /\ Cardinality(pairs) = Cardinality(D)
<1> DEFINE pairs == {<<i, f[i]>> : i \in D}
           pair == [i \in D |-> <<i, f[i]>>]
<1>1. pair \in [D -> pairs] /\ \A i, j \in D : pair[i] = pair[j] => i = j
    OBVIOUS
<1>2. \A q \in pairs : \E i \in D : pair[i] = q
    OBVIOUS
<1>3. pair \in Bijection(D, pairs)
    BY <1>1, <1>2, Zenon DEF Bijection, Injection, Surjection, IsInjective
<1>4. ExistsBijection(D, pairs)
    BY <1>3 DEF ExistsBijection
<1> QED BY <1>4, FS_Bijection


-----------------------------------------------------------------------------
(* The inductive invariant *)

\* The chunks of a batch that arrived, by index.
ChunkMaps == UNION {[D -> Pieces] : D \in SUBSET Nat}

FragmentBatches == [total : Nat, count : Nat, chunks : ChunkMaps, received : Nat,
                    receivedBytes : Nat, left : Nat]

BufferTypes ==
    /\ Open \subseteq Keys /\ IsFiniteSet(Open)
    /\ fragments \in [Open -> FragmentBatches]
    /\ offered \in [Open -> SUBSET (Nat \X Pieces)]

\* The counters of a batch agree with its chunks and stay within its header.
Consistent(batch) ==
    /\ Acceptable(batch.count, batch.total)
    /\ DOMAIN batch.chunks \subseteq 0 .. batch.count - 1
    /\ batch.received = Cardinality(DOMAIN batch.chunks)
    /\ batch.received < batch.count
    /\ batch.receivedBytes = BytesOf(batch.chunks)
    /\ batch.receivedBytes <= batch.total
    /\ batch.left \in 0 .. FragmentTimeout

\* What was sent for an open batch is exactly what it holds.
Pairs(chunks) == {<<i, chunks[i]>> : i \in DOMAIN chunks}
HoldsWhatWasSent(k) == offered[k] = Pairs(fragments[k].chunks)

Claims == [k \in Open |-> fragments[k].total]

WithinLimits ==
    /\ Cardinality(Open) <= MaxFragmentBatches
    /\ ByteCount(Claims) <= MaxFragmentBytesPerConnection

BufferInv ==
    /\ BufferTypes /\ WithinLimits
    /\ \A k \in Open : Consistent(fragments[k]) /\ HoldsWhatWasSent(k)

-----------------------------------------------------------------------------
(* The chunks of a batch *)

\* The chunks that arrived are finitely many, at indices below the count.
LEMMA ChunksOf ==
    ASSUME NEW batch \in FragmentBatches, Consistent(batch)
    PROVE  /\ batch.chunks \in [DOMAIN batch.chunks -> Pieces]
           /\ DOMAIN batch.chunks \subseteq Nat
           /\ IsFiniteSet(DOMAIN batch.chunks)
           /\ BytesOf(batch.chunks) \in Nat
<1>1. PICK D \in SUBSET Nat : batch.chunks \in [D -> Pieces]
    BY DEF FragmentBatches, ChunkMaps
<1>2. DOMAIN batch.chunks = D
    BY <1>1
<1>3. batch.count - 1 \in Int /\ 0 \in Int
    BY DEF FragmentBatches
<1>4. IsFiniteSet(0 .. batch.count - 1)
    BY <1>3, FS_Interval
<1>5. IsFiniteSet(DOMAIN batch.chunks)
    BY <1>4, FS_Subset DEF Consistent
<1>6. [i \in DOMAIN batch.chunks |-> Size[batch.chunks[i]]] \in [DOMAIN batch.chunks -> Nat]
    BY <1>1, <1>2, ConnectionAssumption
<1>7. BytesOf(batch.chunks) \in Nat
    BY <1>5, <1>6, BytesFinite DEF BytesOf
<1> QED BY <1>1, <1>2, <1>5, <1>7

\* A new piece adds its bytes and its pair.
LEMMA PieceAdded ==
    ASSUME NEW D, IsFiniteSet(D), NEW f \in [D -> Pieces],
           NEW i, i \notin D, NEW p \in Pieces
    PROVE  LET g == Put(f, i, p) IN
           /\ g \in [D \cup {i} -> Pieces]
           /\ BytesOf(g) = BytesOf(f) + Size[p]
           /\ Pairs(g) = Pairs(f) \cup {<<i, p>>}
           /\ Cardinality(D \cup {i}) = Cardinality(D) + 1
<1> DEFINE g == Put(f, i, p)
           sizes == [j \in D |-> Size[f[j]]]
           more == [j \in D \cup {i} |-> Size[g[j]]]
<1>1. /\ g \in [D \cup {i} -> Pieces] /\ g[i] = p
      /\ \A j \in D : g[j] = f[j]
    BY DEF Put
<1>2. DOMAIN f = D /\ DOMAIN g = D \cup {i}
    BY <1>1
<1>3. sizes \in [D -> Nat] /\ Size[p] \in Nat
    BY ConnectionAssumption
<1>4. BytesOf(f) = ByteCount(sizes) /\ BytesOf(g) = ByteCount(more)
    BY <1>2 DEF BytesOf
<1>5. BytesOf(g) = BytesOf(f) + Size[p]
    <2>1. more = Put(sizes, i, Size[p])
        BY <1>1 DEF Put
    <2> HIDE DEF g, sizes, more
    <2>2. ByteCount(Put(sizes, i, Size[p])) = ByteCount(sizes) + Size[p]
        BY <1>3, BytesAdded
    <2> QED BY <1>4, <2>1, <2>2
<1> HIDE DEF g, sizes, more
<1>6. Pairs(g) = Pairs(f) \cup {<<i, p>>}
    BY <1>1, <1>2 DEF Pairs
<1>7. Cardinality(D \cup {i}) = Cardinality(D) + 1
    BY FS_AddElement
<1> QED BY <1>1, <1>5, <1>6, <1>7 DEF g

-----------------------------------------------------------------------------
(* What a step does to the buffers *)

\* The claims of the open batches are finitely many numbers.
LEMMA ClaimsOf ==
    ASSUME BufferTypes
    PROVE  Claims \in [Open -> Nat] /\ ByteCount(Claims) \in Nat
<1>1. Claims \in [Open -> Nat]
    BY DEF Claims, BufferTypes, FragmentBatches
<1> QED BY <1>1, BytesFinite DEF BufferTypes

\* The buffers are left alone.
LEMMA KeepBuffers ==
    ASSUME BufferInv, Keep
    PROVE  BufferInv'
BY DEF BufferInv, BufferTypes, Consistent, Acceptable, HoldsWhatWasSent, Pairs, Claims,
       WithinLimits, Keep, Open

\* Batches are dropped: the others are as they were.
LEMMA DropBuffers ==
    ASSUME BufferInv, NEW keys, Drop(keys)
    PROVE  BufferInv'
<1> USE DEF BufferInv
<1>1. /\ Open' = Open \ keys
      /\ \A k \in Open' : fragments'[k] = fragments[k] /\ offered'[k] = offered[k]
      /\ fragments' = [k \in Open' |-> fragments[k]]
      /\ offered' = [k \in Open' |-> offered[k]]
    BY DEF Drop, Restrict, Open
<1>2. IsFiniteSet(Open') /\ Cardinality(Open') <= Cardinality(Open)
      /\ Cardinality(Open) \in Nat /\ Cardinality(Open') \in Nat
    BY <1>1, FS_Subset, FS_CardinalityType DEF BufferTypes
<1>3. BufferTypes'
    BY <1>1, <1>2 DEF BufferTypes
<1>4. \A k \in Open' : Consistent(fragments'[k]) /\ offered'[k] = Pairs(fragments'[k].chunks)
    BY <1>1 DEF HoldsWhatWasSent
<1>5. ByteCount(Claims') <= ByteCount(Claims)
    <2>1. /\ Claims \in [Open -> Nat] /\ Claims' \in [Open' -> Nat]
          /\ \A k \in Open' : Claims'[k] = Claims[k]
        BY <1>1, <1>3 DEF Claims, BufferTypes, FragmentBatches
    <2>2. IsFiniteSet(Open) /\ Open' \in SUBSET Open
        BY <1>1 DEF BufferTypes
    <2> HIDE DEF Claims, Open
    <2> QED BY <2>1, <2>2, BytesDropped
<1>6. ByteCount(Claims) \in Nat /\ ByteCount(Claims') \in Nat
    BY <1>3, ClaimsOf, BytesFinite DEF BufferTypes, Claims, FragmentBatches
<1>7. WithinLimits'
    BY <1>2, <1>5, <1>6, ConnectionAssumption DEF WithinLimits, ByteCount, BytesIn
<1> QED BY <1>3, <1>4, <1>7 DEF HoldsWhatWasSent, Consistent, Acceptable, Pairs

\* A new batch adds the bytes it claims to those the connection has claimed.
LEMMA ClaimAdded ==
    ASSUME BufferTypes, NEW k, k \notin Open, NEW total \in Nat
    PROVE  ByteCount(Put(Claims, k, total)) = ByteCount(Claims) + total
<1>1. IsFiniteSet(Open)
    BY DEF BufferTypes
<1>2. Claims \in [Open -> Nat]
    BY ClaimsOf
<1>3. ASSUME NEW sizes \in [Open -> Nat]
      PROVE  ByteCount(Put(sizes, k, total)) = ByteCount(sizes) + total
    BY <1>1, BytesAdded
<1> QED BY <1>2, <1>3

\* A header opens a batch within the limits that were tested.
LEMMA OpenBuffers ==
    ASSUME BufferInv, NEW k \in Keys, NEW n \in Nat, NEW total \in Nat,
           Acceptable(n, total), OpenBatch(k, n, total)
    PROVE  BufferInv'
<1> USE DEF BufferInv
<1> DEFINE batch == EmptyBatch(n, total)
<1>1. /\ k \notin Open /\ Open' = Open \cup {k}
      /\ fragments' = Put(fragments, k, batch)
      /\ offered' = Put(offered, k, {})
    BY DEF OpenBatch, Put, Open
<1>2. /\ fragments'[k] = batch /\ offered'[k] = {}
      /\ \A x \in Open : fragments'[x] = fragments[x] /\ offered'[x] = offered[x]
    BY <1>1 DEF Put, Open, BufferTypes
<1>3. /\ batch.total = total /\ batch.count = n /\ batch.chunks = <<>>
      /\ batch.received = 0 /\ batch.receivedBytes = 0 /\ batch.left = FragmentTimeout
    BY DEF EmptyBatch
<1>4. <<>> \in [{} -> Pieces] /\ DOMAIN <<>> = {}
    OBVIOUS
<1>5. batch \in FragmentBatches
    BY <1>4, ConnectionAssumption DEF EmptyBatch, FragmentBatches, ChunkMaps
<1>6. Consistent(batch)
    <2>1. Cardinality({}) = 0
        BY FS_EmptySet
    <2>2. BytesOf(<<>>) = 0
        <3>1. [i \in DOMAIN <<>> |-> Size[<<>>[i]]] \in [{} -> Nat]
            BY <1>4
        <3> QED BY <3>1, NoBytes DEF BytesOf
    <2> HIDE DEF batch
    <2> QED BY <1>3, <1>4, <2>1, <2>2, ConnectionAssumption DEF Consistent, Acceptable
<1>7. Pairs(batch.chunks) = {}
    BY <1>3, <1>4 DEF Pairs
<1> HIDE DEF batch
<1>8. BufferTypes'
    <2>1. IsFiniteSet(Open')
        BY <1>1, FS_AddElement DEF BufferTypes
    <2>2. fragments' \in [Open' -> FragmentBatches] /\ offered' \in [Open' -> SUBSET (Nat \X Pieces)]
        BY <1>1, <1>5 DEF BufferTypes, Put
    <2> QED BY <1>1, <2>1, <2>2 DEF BufferTypes
<1>9. \A x \in Open' : Consistent(fragments'[x]) /\ offered'[x] = Pairs(fragments'[x].chunks)
    BY <1>1, <1>2, <1>6, <1>7 DEF HoldsWhatWasSent
<1>10. WithinLimits'
    <2>1. Cardinality(Open') = Cardinality(Open) + 1 /\ Cardinality(Open) \in Nat
        BY <1>1, FS_AddElement, FS_CardinalityType DEF BufferTypes
    <2>2. Cardinality(Open) < MaxFragmentBatches
        BY DEF OpenBatch
    <2>3. Claims' = Put(Claims, k, total)
        <3>1. Claims' = [x \in Open \cup {k} |-> fragments'[x].total]
            BY <1>1 DEF Claims
        <3>2. Put(Claims, k, total)
                 = [x \in Open \cup {k} |-> IF x = k THEN total ELSE fragments[x].total]
            BY <1>1 DEF Claims, Put
        <3>3. \A x \in Open \cup {k} :
                 fragments'[x].total = IF x = k THEN total ELSE fragments[x].total
            BY <1>1, <1>2, <1>3
        <3> QED BY <3>1, <3>2, <3>3
    <2>4. ByteCount(Put(Claims, k, total)) = ByteCount(Claims) + total
        <3>1. BufferTypes /\ k \notin Open
            BY <1>1
        <3> QED BY <3>1, ClaimAdded
    <2>5. ByteCount(Claims) + total <= MaxFragmentBytesPerConnection
        BY DEF OpenBatch, Reserved, Claims
    <2>6. ByteCount(Claims') <= MaxFragmentBytesPerConnection
        BY <2>3, <2>4, <2>5
    <2>7. Cardinality(Open') <= MaxFragmentBatches
        BY <2>1, <2>2, ConnectionAssumption
    <2> QED BY <2>6, <2>7 DEF WithinLimits, ByteCount, BytesIn
<1> QED BY <1>8, <1>9, <1>10 DEF HoldsWhatWasSent, Consistent, Acceptable, Pairs

\* A new chunk of a batch that is not the last one it waits for.
GrownBatch(batch, i, p) ==
    [batch EXCEPT !.chunks = Put(batch.chunks, i, p), !.received = @ + 1,
                  !.receivedBytes = batch.receivedBytes + Size[p]]

\* Storing that chunk keeps the buffers consistent and within their limits.
LEMMA GrowBuffers ==
    ASSUME BufferInv, NEW k \in Open, NEW i \in Nat, NEW p \in Pieces,
           i < fragments[k].count, i \notin DOMAIN fragments[k].chunks,
           fragments[k].receivedBytes + Size[p] <= fragments[k].total,
           fragments[k].received + 1 < fragments[k].count,
           fragments' = Put(fragments, k, GrownBatch(fragments[k], i, p)),
           offered' = Put(offered, k, offered[k] \cup {<<i, p>>})
    PROVE  BufferInv'
<1> USE DEF BufferInv
<1> DEFINE batch == fragments[k]
           grown == GrownBatch(batch, i, p)
           pieces == Put(batch.chunks, i, p)
<1>1. batch \in FragmentBatches /\ Consistent(batch)
    BY DEF BufferTypes
<1>2. /\ Open' = Open
      /\ fragments'[k] = grown /\ offered'[k] = offered[k] \cup {<<i, p>>}
      /\ \A x \in Open : x # k => fragments'[x] = fragments[x] /\ offered'[x] = offered[x]
    BY DEF Put, Open, BufferTypes
<1>3. /\ grown.total = batch.total /\ grown.count = batch.count /\ grown.left = batch.left
      /\ grown.chunks = pieces /\ grown.received = batch.received + 1
      /\ grown.receivedBytes = batch.receivedBytes + Size[p]
    BY <1>1 DEF GrownBatch, FragmentBatches
<1>4. /\ batch.chunks \in [DOMAIN batch.chunks -> Pieces]
      /\ DOMAIN batch.chunks \subseteq Nat
      /\ IsFiniteSet(DOMAIN batch.chunks)
      /\ BytesOf(batch.chunks) \in Nat
    BY <1>1, ChunksOf
<1>5. /\ pieces \in [DOMAIN batch.chunks \cup {i} -> Pieces]
      /\ BytesOf(pieces) = BytesOf(batch.chunks) + Size[p]
      /\ Pairs(pieces) = Pairs(batch.chunks) \cup {<<i, p>>}
      /\ Cardinality(DOMAIN batch.chunks \cup {i}) = Cardinality(DOMAIN batch.chunks) + 1
    BY <1>4, PieceAdded
<1>6. DOMAIN pieces = DOMAIN batch.chunks \cup {i}
    BY <1>5
<1>7. pieces \in ChunkMaps
    BY <1>4, <1>5 DEF ChunkMaps
<1>8. grown \in FragmentBatches
    <2>1. Size[p] \in Nat
        BY ConnectionAssumption
    <2>2. batch.received + 1 \in Nat /\ batch.receivedBytes + Size[p] \in Nat
        BY <1>1, <2>1 DEF FragmentBatches
    <2> HIDE DEF pieces, batch
    <2>3. grown = [batch EXCEPT !.chunks = pieces, !.received = batch.received + 1,
                                !.receivedBytes = batch.receivedBytes + Size[p]]
        BY DEF GrownBatch, pieces
    <2> HIDE DEF grown
    <2> QED BY <1>1, <1>7, <2>2, <2>3 DEF FragmentBatches
<1>9. Consistent(grown)
    <2>1. DOMAIN pieces \subseteq 0 .. batch.count - 1
        BY <1>1, <1>6 DEF Consistent, FragmentBatches
    <2> HIDE DEF batch, grown, pieces
    <2>2. batch.received + 1 < batch.count /\ batch.receivedBytes + Size[p] <= batch.total
        BY DEF batch
    <2>3. /\ Acceptable(grown.count, grown.total) /\ grown.left \in 0 .. FragmentTimeout
          /\ DOMAIN grown.chunks \subseteq 0 .. grown.count - 1
        BY <1>1, <1>3, <2>1 DEF Consistent
    <2>4. /\ grown.received = Cardinality(DOMAIN grown.chunks)
          /\ grown.receivedBytes = BytesOf(grown.chunks)
        BY <1>1, <1>3, <1>5, <1>6 DEF Consistent
    <2> QED BY <1>3, <2>2, <2>3, <2>4 DEF Consistent
<1>10. offered'[k] = Pairs(pieces)
    BY <1>2, <1>5 DEF HoldsWhatWasSent
<1> HIDE DEF batch, grown, pieces
<1>11. BufferTypes'
    <2>1. fragments' \in [Open -> FragmentBatches]
        BY <1>8 DEF BufferTypes, Put, Open, grown, batch
    <2>2. offered' \in [Open -> SUBSET (Nat \X Pieces)]
        BY DEF BufferTypes, Put, Open
    <2> QED BY <1>2, <2>1, <2>2 DEF BufferTypes
<1>12. \A x \in Open' : Consistent(fragments'[x]) /\ offered'[x] = Pairs(fragments'[x].chunks)
    BY <1>2, <1>3, <1>9, <1>10 DEF HoldsWhatWasSent
<1>13. WithinLimits'
    <2>1. Claims' = Claims
        BY <1>2, <1>3 DEF Claims, batch
    <2> QED BY <1>2, <2>1 DEF WithinLimits, ByteCount, BytesIn
<1> QED BY <1>11, <1>12, <1>13 DEF HoldsWhatWasSent, Consistent, Acceptable, Pairs

\* Time passes for every open batch.
LEMMA TickBuffers ==
    ASSUME BufferInv, Tick
    PROVE  BufferInv'
<1> USE DEF BufferInv
<1>1. /\ Open' = Open /\ offered' = offered
      /\ fragments' \in [Open -> FragmentBatches]
      /\ \A k \in Open :
            /\ fragments'[k].total = fragments[k].total
            /\ fragments'[k].count = fragments[k].count
            /\ fragments'[k].chunks = fragments[k].chunks
            /\ fragments'[k].received = fragments[k].received
            /\ fragments'[k].receivedBytes = fragments[k].receivedBytes
            /\ fragments'[k].left
                  = IF fragments[k].left = 0 THEN 0 ELSE fragments[k].left - 1
    BY DEF Tick, Open, BufferTypes, FragmentBatches
<1>2. BufferTypes'
    BY <1>1 DEF BufferTypes
<1>3. ASSUME NEW k \in Open
      PROVE  Consistent(fragments'[k]) /\ offered'[k] = Pairs(fragments'[k].chunks)
    <2>1. Consistent(fragments[k]) /\ offered[k] = Pairs(fragments[k].chunks)
        BY DEF HoldsWhatWasSent
    <2>2. fragments'[k].left \in 0 .. FragmentTimeout
        BY <1>1, <2>1, ConnectionAssumption DEF Consistent
    <2> QED BY <1>1, <2>1, <2>2 DEF Consistent
<1>4. WithinLimits'
    <2>1. Claims' = Claims
        BY <1>1 DEF Claims
    <2> QED BY <1>1, <2>1 DEF WithinLimits, ByteCount, BytesIn
<1> QED BY <1>1, <1>2, <1>3, <1>4 DEF HoldsWhatWasSent, Consistent, Acceptable, Pairs


-----------------------------------------------------------------------------
(* What a message does to the buffers *)

\* A fragment with a new index: it ends its batch, or the batch goes on with it.
LEMMA NewFragmentCases ==
    ASSUME BufferInv, NEW k \in Open, NEW i \in Nat, NEW p \in Pieces, NewFragment(k, i, p)
    PROVE  \/ Drop({k})
           \/ /\ i \notin DOMAIN fragments[k].chunks
              /\ fragments[k].receivedBytes + Size[p] <= fragments[k].total
              /\ fragments[k].received + 1 < fragments[k].count
              /\ fragments' = Put(fragments, k, GrownBatch(fragments[k], i, p))
              /\ offered' = Put(offered, k, offered[k] \cup {<<i, p>>})
<1>1. fragments[k] \in FragmentBatches
    BY DEF BufferInv, BufferTypes
<1>2. fragments[k].receivedBytes + Size[p] \in Nat /\ fragments[k].total \in Nat
    BY <1>1, ConnectionAssumption DEF FragmentBatches
<1> QED BY <1>2 DEF NewFragment, GrownBatch

\* Every step keeps the buffers, drops batches, opens one, adds a chunk to one,
\* or lets time pass.
LEMMA BufferStep ==
    ASSUME BufferInv, [Next]_vars
    PROVE  BufferInv'
<1>1. CASE \E r \in Rooms : JoinRequest(r) \/ Leave(r)
    BY <1>1, KeepBuffers, DropBuffers DEF JoinRequest, Leave
<1>2. CASE \E k \in Keys, p \in Pieces : DocUpdate(k, p)
    BY <1>2, KeepBuffers DEF DocUpdate
<1>3. ASSUME NEW k \in Keys, NEW n \in Counts, NEW total \in Totals, Header(k, n, total)
      PROVE  BufferInv'
    <2>1. CASE RefuseHeader(k, n, total) \/ RepeatHeader(k, n, total)
        BY <2>1, KeepBuffers DEF RefuseHeader, RepeatHeader
    <2>2. CASE ContradictHeader(k, n, total)
        BY <2>2, DropBuffers DEF ContradictHeader
    <2>3. CASE Acceptable(n, total) /\ OpenBatch(k, n, total)
        <3>1. n \in Nat /\ total \in Nat
            BY ConnectionAssumption
        <3> QED BY <2>3, <3>1, OpenBuffers
    <2> QED BY <1>3, <2>1, <2>2, <2>3 DEF Header
<1>4. ASSUME NEW k \in Keys, NEW i \in Counts, NEW p \in Pieces, Fragment(k, i, p)
      PROVE  BufferInv'
    <2>1. i \in Nat
        BY ConnectionAssumption
    <2>2. CASE RefuseFragment(k, i)
        BY <2>2, KeepBuffers DEF RefuseFragment
    <2>3. CASE RepeatFragment(k, i, p)
        BY <2>3, KeepBuffers, DropBuffers DEF RepeatFragment
    <2>4. CASE k \in Open /\ i < fragments[k].count /\ NewFragment(k, i, p)
        BY <2>1, <2>4, NewFragmentCases, DropBuffers, GrowBuffers
    <2> QED BY <1>4, <2>2, <2>3, <2>4 DEF Fragment
<1>5. CASE Expire
    BY <1>5, DropBuffers DEF Expire
<1>6. CASE Quiet
    BY <1>6, KeepBuffers DEF Quiet
<1>7. CASE Tick
    BY <1>7, TickBuffers
<1>8. CASE Close
    BY <1>8, DropBuffers DEF Close
<1>9. CASE UNCHANGED vars
    BY <1>9, KeepBuffers DEF vars, Keep
<1> QED BY <1>1, <1>2, <1>3, <1>4, <1>5, <1>6, <1>7, <1>8, <1>9 DEF Next, Message

\* The rooms of a connection, and where batches may be open.
LEMMA MemberStep ==
    ASSUME BufferInv, OpenOnlyInJoinedRooms, joined \subseteq Rooms,
           phase \in {"expire", "receive", "closed"}, [Next]_vars
    PROVE  /\ OpenOnlyInJoinedRooms' /\ joined' \subseteq Rooms
           /\ phase' \in {"expire", "receive", "closed"}
<1> USE DEF OpenOnlyInJoinedRooms
<1>1. \A keys : Drop(keys) => Open' = Open \ keys
    BY DEF Drop, Restrict, Open
<1>2. Keep => Open' = Open
    BY DEF Keep, Open
<1>3. \A k, value : fragments' = Put(fragments, k, value) => Open' = Open \cup {k}
    BY DEF Put, Open
<1>4. CASE \E r \in Rooms : JoinRequest(r)
    BY <1>2, <1>4 DEF JoinRequest, Handling
<1>5. ASSUME NEW r \in Rooms, Leave(r)
      PROVE  /\ OpenOnlyInJoinedRooms' /\ joined' \subseteq Rooms /\ phase' = "expire"
    <2>1. Open' = Open \ {k \in Open : r \in joined /\ k.room = r}
        BY <1>1, <1>5 DEF Leave
    <2> QED BY <1>5, <2>1 DEF Leave, Handling
<1>6. CASE \E k \in Keys, p \in Pieces : DocUpdate(k, p)
    BY <1>2, <1>6 DEF DocUpdate, Handling
<1>7. ASSUME NEW k \in Keys, NEW n \in Counts, NEW total \in Totals, Header(k, n, total)
      PROVE  OpenOnlyInJoinedRooms' /\ joined' = joined /\ phase' = "expire"
    <2>1. joined' = joined /\ phase' = "expire"
        BY <1>7 DEF Header, Handling
    <2>2. CASE RefuseHeader(k, n, total) \/ RepeatHeader(k, n, total)
        BY <1>2, <2>1, <2>2 DEF RefuseHeader, RepeatHeader
    <2>3. CASE ContradictHeader(k, n, total)
        BY <1>1, <2>1, <2>3 DEF ContradictHeader
    <2>4. CASE k.room \in joined /\ OpenBatch(k, n, total)
        BY <1>3, <2>1, <2>4 DEF OpenBatch
    <2> QED BY <1>7, <2>2, <2>3, <2>4, <2>1 DEF Header
<1>8. ASSUME NEW k \in Keys, NEW i \in Counts, NEW p \in Pieces, Fragment(k, i, p)
      PROVE  OpenOnlyInJoinedRooms' /\ joined' = joined /\ phase' = "expire"
    <2>1. joined' = joined /\ phase' = "expire" /\ i \in Nat
        BY <1>8, ConnectionAssumption DEF Fragment, Handling
    <2>2. CASE RefuseFragment(k, i)
        BY <1>2, <2>1, <2>2 DEF RefuseFragment
    <2>3. CASE RepeatFragment(k, i, p)
        BY <1>1, <1>2, <2>1, <2>3 DEF RepeatFragment
    <2>4. CASE k.room \in joined /\ k \in Open /\ NewFragment(k, i, p)
        <3>1. \/ Drop({k})
              \/ fragments' = Put(fragments, k, GrownBatch(fragments[k], i, p))
            BY <2>1, <2>4, NewFragmentCases
        <3>2. Open' = Open \ {k} \/ Open' = Open \cup {k}
            BY <1>1, <1>3, <3>1
        <3> QED BY <2>1, <2>4, <3>2
    <2> QED BY <1>8, <2>1, <2>2, <2>3, <2>4 DEF Fragment
<1>9. CASE Expire
    BY <1>1, <1>9 DEF Expire
<1>10. CASE Quiet
    BY <1>2, <1>10 DEF Quiet, Handling
<1>11. CASE Tick
    BY <1>11 DEF Tick, Open
<1>12. CASE Close
    BY <1>1, <1>12 DEF Close
<1>13. CASE UNCHANGED vars
    BY <1>13 DEF vars, Open
<1> QED BY <1>4, <1>5, <1>6, <1>7, <1>8, <1>9, <1>10, <1>11, <1>12, <1>13 DEF Next, Message

-----------------------------------------------------------------------------
(* What is handed to the rooms *)

\* What HandedIsWhatWasSent says of one update.
Whole(update) ==
    /\ update.key.room \in joined
    /\ BytesOf(update.pieces) = update.total
    /\ update.sent = Pairs(update.pieces)
    /\ DOMAIN update.pieces = 0 .. Cardinality(update.sent) - 1

Handed(k, pieces, total, sent) == [key |-> k, pieces |-> pieces, total |-> total, sent |-> sent]

\* An update in one message is its only piece.
LEMMA WholeUpdate ==
    ASSUME NEW k \in Keys, k.room \in joined, NEW p \in Pieces
    PROVE  Whole(Handed(k, [i \in {0} |-> p], Size[p], {<<0, p>>}))
<1> DEFINE empty == [i \in {} |-> p]
           one == [i \in {0} |-> p]
<1>1. one = Put(empty, 0, p)
    BY DEF Put
<1>2. empty \in [{} -> Pieces]
    OBVIOUS
<1> HIDE DEF empty
<1>3. /\ BytesOf(one) = BytesOf(empty) + Size[p] /\ Pairs(one) = Pairs(empty) \cup {<<0, p>>}
    BY <1>1, <1>2, FS_EmptySet, PieceAdded
<1>4. BytesOf(empty) = 0
    <2>1. [i \in DOMAIN empty |-> Size[empty[i]]] \in [{} -> Nat]
        BY <1>2
    <2> QED BY <2>1, NoBytes DEF BytesOf
<1>5. Pairs(empty) = {}
    BY <1>2 DEF Pairs
<1>6. Size[p] \in Nat
    BY ConnectionAssumption
<1>7. Cardinality({<<0, p>>}) = 1
    BY FS_Singleton
<1>8. DOMAIN one = 0 .. 1 - 1
    OBVIOUS
<1>9. BytesOf(one) = Size[p] /\ Pairs(one) = {<<0, p>>}
    BY <1>3, <1>4, <1>5, <1>6
<1> HIDE DEF one
<1> QED BY <1>7, <1>8, <1>9 DEF Whole, Handed, one

\* The last fragment completes its batch: one chunk for each index, all of the
\* bytes the header claimed, and no other fragment was sent since.
LEMMA WholeBatch ==
    ASSUME BufferInv, NEW k \in Open, k.room \in joined, NEW i \in Nat, NEW p \in Pieces,
           i < fragments[k].count, i \notin DOMAIN fragments[k].chunks,
           ~(fragments[k].received + 1 < fragments[k].count),
           fragments[k].receivedBytes + Size[p] = fragments[k].total
    PROVE  Whole(Handed(k, Put(fragments[k].chunks, i, p), fragments[k].total,
                        offered[k] \cup {<<i, p>>}))
<1> DEFINE batch == fragments[k]
           D == DOMAIN batch.chunks
           pieces == Put(batch.chunks, i, p)
           sent == offered[k] \cup {<<i, p>>}
<1>1. batch \in FragmentBatches /\ Consistent(batch) /\ offered[k] = Pairs(batch.chunks)
    BY DEF BufferInv, BufferTypes, HoldsWhatWasSent
<1>2. batch.chunks \in [D -> Pieces] /\ IsFiniteSet(D)
    BY <1>1, ChunksOf
<1>3. /\ pieces \in [D \cup {i} -> Pieces]
      /\ BytesOf(pieces) = BytesOf(batch.chunks) + Size[p]
      /\ Pairs(pieces) = Pairs(batch.chunks) \cup {<<i, p>>}
      /\ Cardinality(D \cup {i}) = Cardinality(D) + 1
    BY <1>2, PieceAdded
<1>4. DOMAIN pieces = D \cup {i}
    BY <1>3
<1>5. batch.count \in Nat /\ batch.received \in Nat /\ batch.count # 0
    BY <1>1 DEF FragmentBatches, Consistent
<1>6. Cardinality(D \cup {i}) = batch.count
    <2>1. Cardinality(D) = batch.received /\ batch.received < batch.count
        BY <1>1 DEF Consistent
    <2>2. ~(batch.received + 1 < batch.count)
        OBVIOUS
    <2>3. batch.received + 1 = batch.count
        BY <1>5, <2>1, <2>2
    <2> HIDE DEF batch, D
    <2> QED BY <1>3, <2>1, <2>3
<1>7. D \cup {i} = 0 .. batch.count - 1
    <2>1. D \cup {i} \subseteq 0 .. batch.count - 1
        BY <1>1, <1>5 DEF Consistent
    <2>2. batch.count - 1 \in Int /\ 0 \in Int
        BY <1>5
    <2>3. IsFiniteSet(0 .. batch.count - 1)
          /\ Cardinality(0 .. batch.count - 1)
                = IF 0 > batch.count - 1 THEN 0 ELSE batch.count - 1 - 0 + 1
        BY <2>2, FS_Interval
    <2>4. Cardinality(0 .. batch.count - 1) = batch.count
        BY <1>5, <2>3
    <2> QED BY <1>6, <2>1, <2>3, <2>4, FS_Subset
<1>8. Cardinality(sent) = batch.count
    <2>1. sent = Pairs(pieces)
        BY <1>1, <1>3
    <2>2. IsFiniteSet(DOMAIN pieces)
        BY <1>2, <1>4, FS_AddElement
    <2> HIDE DEF pieces
    <2>3. Cardinality(Pairs(pieces)) = Cardinality(DOMAIN pieces)
        BY <2>2, OnePerIndex DEF Pairs
    <2> QED BY <1>4, <1>6, <2>1, <2>3
<1>9. BytesOf(pieces) = batch.total /\ sent = Pairs(pieces)
    BY <1>1, <1>3 DEF Consistent
<1> HIDE DEF batch, D, pieces, sent
<1> QED BY <1>4, <1>7, <1>8, <1>9 DEF Whole, Handed, batch, pieces, sent


\* A step hands over nothing, or one whole update.
LEMMA HandedStep ==
    ASSUME BufferInv, HandedIsWhatWasSent, [Next]_vars
    PROVE  HandedIsWhatWasSent'
<1>1. ASSUME NEW k, NEW pieces, NEW total, NEW sent, joined' = joined,
             HandOver(k, pieces, total, sent), Whole(Handed(k, pieces, total, sent))
      PROVE  HandedIsWhatWasSent'
    <2>1. handed' = {Handed(k, pieces, total, sent)}
        BY <1>1 DEF HandOver, Handed
    <2> QED BY <1>1, <2>1 DEF HandedIsWhatWasSent, Whole, Pairs, BytesOf, ByteCount, BytesIn
<1>2. ASSUME handed' = {}
      PROVE  HandedIsWhatWasSent'
    BY <1>2 DEF HandedIsWhatWasSent
<1>3. CASE \E r \in Rooms : JoinRequest(r) \/ Leave(r)
    BY <1>2, <1>3 DEF JoinRequest, Leave, Silent
<1>4. CASE \E k \in Keys, p \in Pieces : DocUpdate(k, p)
    BY <1>1, <1>2, <1>4, WholeUpdate DEF DocUpdate, Answer
<1>5. CASE \E k \in Keys, n \in Counts, total \in Totals : Header(k, n, total)
    BY <1>2, <1>5 DEF Header, RefuseHeader, RepeatHeader, ContradictHeader, OpenBatch,
                      Silent, Answer
<1>6. ASSUME NEW k \in Keys, NEW i \in Counts, NEW p \in Pieces, Fragment(k, i, p)
      PROVE  HandedIsWhatWasSent'
    <2>1. i \in Nat /\ joined' = joined
        BY <1>6, ConnectionAssumption DEF Fragment
    <2>2. CASE RefuseFragment(k, i) \/ RepeatFragment(k, i, p)
        BY <1>2, <2>2 DEF RefuseFragment, RepeatFragment, Silent, Answer
    <2>3. CASE k.room \in joined /\ k \in Open /\ i < fragments[k].count /\ NewFragment(k, i, p)
        <3> DEFINE pieces == Put(fragments[k].chunks, i, p)
                   sent == offered[k] \cup {<<i, p>>}
        <3>1. CASE handed' = {}
            BY <1>2, <3>1
        <3>2. CASE /\ i \notin DOMAIN fragments[k].chunks
                   /\ ~(fragments[k].received + 1 < fragments[k].count)
                   /\ fragments[k].receivedBytes + Size[p] = fragments[k].total
                   /\ HandOver(k, pieces, fragments[k].total, sent)
            <4>1. Whole(Handed(k, pieces, fragments[k].total, sent))
                BY <2>1, <2>3, <3>2, WholeBatch
            <4> QED BY <1>1, <2>1, <3>2, <4>1
        <3> QED BY <2>3, <3>1, <3>2 DEF NewFragment, Silent, Answer
    <2> QED BY <1>6, <2>2, <2>3 DEF Fragment
<1>7. CASE Expire \/ Quiet \/ Tick \/ Close
    BY <1>2, <1>7 DEF Expire, Quiet, Tick, Close, Silent
<1>8. CASE UNCHANGED vars
    BY <1>8 DEF vars, HandedIsWhatWasSent, BytesOf, ByteCount, BytesIn
<1> QED BY <1>3, <1>4, <1>5, <1>6, <1>7, <1>8 DEF Next, Message

-----------------------------------------------------------------------------
(* The theorems *)

\* The invariant of a connection.
ConnectionInv ==
    /\ BufferInv /\ OpenOnlyInJoinedRooms /\ HandedIsWhatWasSent
    /\ joined \subseteq Rooms /\ phase \in {"expire", "receive", "closed"}

\* ConnectionHolds: the invariant holds in every state of a connection.
THEOREM ConnectionHolds == Spec => []ConnectionInv
<1>1. Init => ConnectionInv
    <2> SUFFICES ASSUME Init
                 PROVE  ConnectionInv
        OBVIOUS
    <2>1. Open = {} /\ fragments = <<>> /\ offered = <<>>
        BY DEF Init, Open
    <2>2. \A S : <<>> \in [{} -> S]
        OBVIOUS
    <2>3. BufferTypes
        BY <2>1, <2>2, FS_EmptySet DEF BufferTypes
    <2>4. Claims \in [{} -> Nat]
        BY <2>1 DEF Claims
    <2>5. WithinLimits
        <3>1. ByteCount(Claims) = 0 /\ Cardinality(Open) = 0
            BY <2>1, <2>4, NoBytes, FS_EmptySet
        <3>2. MaxFragmentBatches \in Nat /\ MaxFragmentBytesPerConnection \in Nat
            BY ConnectionAssumption
        <3> QED BY <3>1, <3>2 DEF WithinLimits
    <2> QED BY <2>1, <2>3, <2>5
            DEF Init, ConnectionInv, BufferInv, OpenOnlyInJoinedRooms, HandedIsWhatWasSent
<1>2. ConnectionInv /\ [Next]_vars => ConnectionInv'
    BY BufferStep, MemberStep, HandedStep DEF ConnectionInv
<1> QED BY <1>1, <1>2, PTL DEF Spec

\* The counters of every buffered batch agree with the chunks that arrived, with
\* any number of fragments in any order, repeated and contradicted as the client
\* likes (FragmentBatch, server.rs).
THEOREM BuffersAreConsistent == Spec => []TypeOK
<1>1. ConnectionInv => TypeOK
    <2> SUFFICES ASSUME ConnectionInv
                 PROVE  TypeOK
        OBVIOUS
    <2>1. DOMAIN offered = Open
        BY DEF ConnectionInv, BufferInv, BufferTypes
    <2>2. ASSUME NEW k \in Open
          PROVE  /\ fragments[k] \in FragmentBatches /\ Consistent(fragments[k])
                 /\ \A i \in DOMAIN fragments[k].chunks : fragments[k].chunks[i] \in Pieces
        <3>1. fragments[k] \in FragmentBatches /\ Consistent(fragments[k])
            BY DEF ConnectionInv, BufferInv, BufferTypes
        <3> QED BY <3>1, ChunksOf
    <2> QED BY <2>1, <2>2 DEF ConnectionInv, BufferInv, BufferTypes, Consistent, TypeOK
<1> QED BY <1>1, ConnectionHolds, PTL

\* What a connection buffers, and what its open headers may still claim, stays
\* within the configured limits (handle_message, server.rs:278).
THEOREM BuffersStayBounded == Spec => []BuffersBounded
<1>1. ConnectionInv => BuffersBounded
    <2> SUFFICES ASSUME ConnectionInv
                 PROVE  BuffersBounded
        OBVIOUS
    <2>1. \A k \in Open : BytesOf(fragments[k].chunks) <= fragments[k].total
        BY DEF ConnectionInv, BufferInv, Consistent
    <2> QED BY <2>1 DEF ConnectionInv, BufferInv, WithinLimits, Claims, BuffersBounded
<1> QED BY <1>1, ConnectionHolds, PTL

\* An update that reaches a room is what the client declared and sent: one piece
\* per index, all of them, and nothing else was sent for the batch since its
\* header (handle_message, server.rs:389).
THEOREM HandedWasSent == Spec => []HandedIsWhatWasSent
<1>1. ConnectionInv => HandedIsWhatWasSent
    BY DEF ConnectionInv
<1> QED BY <1>1, ConnectionHolds, PTL

\* No batch outlives the membership it was opened under (Leave and Close).
THEOREM OpenWhereJoined == Spec => []OpenOnlyInJoinedRooms
<1>1. ConnectionInv => OpenOnlyInJoinedRooms
    BY DEF ConnectionInv
<1> QED BY <1>1, ConnectionHolds, PTL

\* A batch that disappears while its room is joined is handed over or answered:
\* expired, contradicted and oversized batches are all acknowledged with an error
\* (expire_fragments and handle_message, server.rs).
THEOREM DroppedAreAnswered == Spec => DroppedIsAnswered
<1> DEFINE Told ==
        \A k \in Open \ Open' :
            \/ k.room \notin joined'
            \/ \E update \in handed' : update.key = k
            \/ \E answer \in answers' : answer[1] = k
<1>1. ConnectionInv /\ [Next]_vars => [Told]_vars
    <2> SUFFICES ASSUME BufferInv, OpenOnlyInJoinedRooms, Next
                 PROVE  Told
        BY DEF ConnectionInv
    <2>1. \A keys : Drop(keys) => Open \ Open' \subseteq keys
        BY DEF Drop, Restrict, Open
    <2>2. Keep => Open \ Open' = {}
        BY DEF Keep, Open
    <2>3. \A k, value : fragments' = Put(fragments, k, value) => Open \ Open' = {}
        BY DEF Put, Open
    <2>4. \A k, status : Answer(k, status) => \E answer \in answers' : answer[1] = k
        BY DEF Answer
    <2>5. \A k, pieces, total, sent :
             HandOver(k, pieces, total, sent) => \E update \in handed' : update.key = k
        BY DEF HandOver
    <2>6. CASE \E r \in Rooms : JoinRequest(r)
        BY <2>2, <2>6 DEF JoinRequest
    <2>7. ASSUME NEW r \in Rooms, Leave(r)
          PROVE  Told
        <3>1. Open \ Open' \subseteq {k \in Open : r \in joined /\ k.room = r}
            BY <2>1, <2>7 DEF Leave
        <3> QED BY <2>7, <3>1 DEF Leave
    <2>8. CASE \E k \in Keys, p \in Pieces : DocUpdate(k, p)
        BY <2>2, <2>8 DEF DocUpdate
    <2>9. ASSUME NEW k \in Keys, NEW n \in Counts, NEW total \in Totals, Header(k, n, total)
          PROVE  Told
        <3>1. CASE RefuseHeader(k, n, total) \/ RepeatHeader(k, n, total)
            BY <2>2, <3>1 DEF RefuseHeader, RepeatHeader
        <3>2. CASE ContradictHeader(k, n, total)
            BY <2>1, <2>4, <3>2 DEF ContradictHeader
        <3>3. CASE OpenBatch(k, n, total)
            BY <2>3, <3>3 DEF OpenBatch
        <3> QED BY <2>9, <3>1, <3>2, <3>3 DEF Header
    <2>10. ASSUME NEW k \in Keys, NEW i \in Counts, NEW p \in Pieces, Fragment(k, i, p)
           PROVE  Told
        <3>1. CASE RefuseFragment(k, i)
            BY <2>2, <3>1 DEF RefuseFragment
        <3>2. CASE RepeatFragment(k, i, p)
            BY <2>1, <2>2, <2>4, <3>2 DEF RepeatFragment
        <3>3. CASE NewFragment(k, i, p)
            <4>1. CASE Drop({k})
                      /\ \/ Answer(k, "invalid_update")
                         \/ HandOver(k, Put(fragments[k].chunks, i, p), fragments[k].total,
                                     offered[k] \cup {<<i, p>>})
                BY <2>1, <2>4, <2>5, <4>1
            <4>2. CASE \E value : fragments' = Put(fragments, k, value)
                BY <2>3, <4>2
            <4> QED BY <3>3, <4>1, <4>2 DEF NewFragment
        <3> QED BY <2>10, <3>1, <3>2, <3>3 DEF Fragment
    <2>11. CASE Expire
        <3> DEFINE overdue == {k \in Open : fragments[k].left = 0}
        <3>1. Open \ Open' \subseteq overdue
            BY <2>1, <2>11 DEF Expire
        <3>2. answers' = {<<k, "fragment_timeout">> : k \in overdue}
            BY <2>11 DEF Expire
        <3>3. \A k \in overdue :
                 <<k, "fragment_timeout">> \in answers' /\ <<k, "fragment_timeout">>[1] = k
            BY <3>2
        <3> QED BY <3>1, <3>3
    <2>12. CASE Quiet
        BY <2>2, <2>12 DEF Quiet
    <2>13. CASE Tick
        BY <2>13 DEF Tick, Open
    <2>14. CASE Close
        BY <2>14 DEF Close
    <2> QED BY <2>6, <2>7, <2>8, <2>9, <2>10, <2>11, <2>12, <2>13, <2>14 DEF Next, Message
<1> QED BY <1>1, ConnectionHolds, PTL DEF Spec, DroppedIsAnswered
=============================================================================
