----------------------------- MODULE ShamirField ----------------------------
(***************************************************************************)
(* The arithmetic under ttss_nits_shamir.cpp: the field of a Fermat prime, *)
(* polynomials over it and their interpolation at zero, and the packing of *)
(* field elements into bytes.  The code has ChunkBits = 16, ChunkCount =   *)
(* 16 and ByteBits = 8: the prime is 65537, so a field element needs one   *)
(* bit more than a chunk of the secret, and sixteen of them fill 34 bytes  *)
(* exactly, none of them on a byte boundary but the first and the ninth.   *)
(***************************************************************************)
EXTENDS Integers, Sequences, Functions

CONSTANTS ChunkBits, ChunkCount, ByteBits

P == 2^ChunkBits + 1
Field == 0..(P - 1)
Chunk == 0..(2^ChunkBits - 1)

\* P is a prime, and the packed elements fill their bytes.
ASSUME FieldAssumption ==
    /\ ChunkBits \in Nat \ {0} /\ ChunkCount \in Nat \ {0} /\ ByteBits \in Nat \ {0}
    /\ \A d \in 2..(P - 1) : P % d # 0
    /\ (ChunkCount * (ChunkBits + 1)) % ByteBits = 0

AddMod(a, b) == (a + b) % P
SubMod(a, b) == (a + P - b) % P
MulMod(a, b) == (a * b) % P

\* pow_mod: square and multiply.
PowMod(base, exp) ==
    LET pow[e \in 0..exp] == [b \in Field |->
            IF e = 0 THEN 1
            ELSE MulMod(IF e % 2 = 1 THEN b ELSE 1, pow[e \div 2][MulMod(b, b)])]
    IN pow[exp][base]

\* inv_mod throws for 0; its callers pass differences of distinct points.
InvMod(x) == PowMod(x, P - 2)

\* poly_eval, with the running power of x.
PolyEval(coeffs, x) ==
    LET sum[k \in 0..Len(coeffs)] ==
            IF k = 0 THEN [acc |-> 0, pow |-> 1]
            ELSE [acc |-> AddMod(sum[k - 1].acc, MulMod(coeffs[k], sum[k - 1].pow)),
                  pow |-> MulMod(sum[k - 1].pow, x)]
    IN sum[Len(coeffs)].acc

\* The value at 0 of the polynomial through the points <<x, y>>.
LagrangeAtZero(points) ==
    LET Num(i) == [j \in 1..Len(points) |-> SubMod(0, points[j][1])]
        Den(i) == [j \in 1..Len(points) |-> SubMod(points[i][1], points[j][1])]
        Product(f, i) == FoldFunctionOnSet(MulMod, 1, f, (1..Len(points)) \ {i})
        Weight(i) == MulMod(Product(Num(i), i), InvMod(Product(Den(i), i)))
    IN FoldFunction(AddMod, 0, [i \in 1..Len(points) |-> MulMod(points[i][2], Weight(i))])

\* The elements of Field are written with Width bits each, one after another,
\* into bytes of ByteBits bits, the highest bit first.
Width == ChunkBits + 1
Bytes == (ChunkCount * Width) \div ByteBits

BitOf(v, width, pos) == (v \div 2^(width - 1 - pos)) % 2

\* The number whose `width' bits bit[pos] are, from the highest.
Number(width, bit) == SumFunction([pos \in 0..(width - 1) |-> bit[pos] * 2^(width - 1 - pos)])

PackChunks(values) ==
    [k \in 1..Bytes |->
        Number(ByteBits, [pos \in 0..(ByteBits - 1) |->
            LET at == (k - 1) * ByteBits + pos
            IN BitOf(values[at \div Width + 1], Width, at % Width)])]

\* Sensitivity variant of UnpackChunks: the highest bit of a value is skipped.
UnpackChunksShort(bytes) ==
    [i \in 1..ChunkCount |->
        Number(ChunkBits, [pos \in 0..(ChunkBits - 1) |->
            LET at == (i - 1) * Width + pos + 1
            IN BitOf(bytes[at \div ByteBits + 1], ByteBits, at % ByteBits)])]

UnpackChunks(bytes) ==
    [i \in 1..ChunkCount |->
        Number(Width, [pos \in 0..(Width - 1) |->
            LET at == (i - 1) * Width + pos
            IN BitOf(bytes[at \div ByteBits + 1], ByteBits, at % ByteBits)])]
=============================================================================
