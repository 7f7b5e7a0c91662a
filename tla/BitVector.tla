------------------------------ MODULE BitVector ------------------------------
(***************************************************************************)
(* BitVectorMut and BitVector (bitvector/mod.rs): bits in lines of words,  *)
(* a length, and the number of ones kept up to date by every write.  The   *)
(* last line is padded; nothing may ever be set there, because             *)
(* extend_with_zeros hands the padding out as zeros, and rank, select and  *)
(* the position iterators read whole words.                                *)
(*                                                                         *)
(* A vector grows and changes while it is mutable, is frozen, thawed, and  *)
(* read back from a serialized form that somebody may have changed.        *)
(***************************************************************************)
EXTENDS Integers, Sequences, FiniteSets, FiniteSetsExt

CONSTANTS
  WORD_BITS,    \* 64
  LINE_WORDS,   \* words in a data line (8)
  Overwriting,  \* whether set_bits is called where ones are already set
  MaxLen        \* bound: longest bit vector

ASSUME BitVectorAssumption ==
  /\ WORD_BITS \in Nat \ {0} /\ LINE_WORDS \in Nat \ {0}
  /\ Overwriting \in BOOLEAN /\ MaxLen \in Nat

None == -1
Panic == -2      \* an index past the end of a slice, or a subtraction below zero

VARIABLES
  data,        \* function on 0..(LINE * n_lines - 1)
  n_bits,
  count_ones,
  kind         \* "mut" (BitVectorMut), "fixed" (BitVector) or "moved" into another structure

bitVars == <<data, n_bits, count_ones, kind>>

LINE == WORD_BITS * LINE_WORDS
lines_for(m) == (m + LINE - 1) \div LINE

InitBits ==
  /\ data = [p \in {} |-> FALSE]
  /\ n_bits = 0
  /\ count_ones = 0
  /\ kind = "mut"

\* data with lines for m bits; new ones are zero.
resized(m) ==
  [p \in 0..(lines_for(m) * LINE - 1) |-> IF p \in DOMAIN data THEN data[p] ELSE FALSE]

\* The bits from index on replaced by the function bits.
overwritten(d, index, bits) ==
  [p \in DOMAIN d |-> IF p - index \in DOMAIN bits THEN bits[p - index] ELSE d[p]]

Ones(f) == Cardinality({p \in DOMAIN f : f[p]})

\* Arguments of append_bits and set_bits: up to a word, and no bits after the
\* last (asserted).
Chunks == UNION {[0..(k - 1) -> BOOLEAN] : k \in 1..WORD_BITS}
Size(bits) == Cardinality(DOMAIN bits)

------------------------------------------------------------------------------
(* Writing.                                                                *)

\* push, and append_bits, extend(bool) and collect(), which push bit by bit.
AppendBits ==
  /\ kind = "mut"
  /\ \E bits \in Chunks :
       /\ n_bits + Size(bits) <= MaxLen
       /\ data' = overwritten(resized(n_bits + Size(bits)), n_bits, bits)
       /\ n_bits' = n_bits + Size(bits)
       /\ count_ones' = count_ones + Ones(bits)
  /\ UNCHANGED kind

\* with_zeros is this on a new vector.
ExtendWithZeros ==
  /\ kind = "mut"
  /\ \E k \in 1..(MaxLen - n_bits) : n_bits' = n_bits + k
  /\ data' = resized(n_bits')
  /\ UNCHANGED <<count_ones, kind>>

\* What set does to count_ones.
counted(ones, was, bit) ==
  IF bit /\ ~was THEN ones + 1 ELSE IF ~bit /\ was THEN ones - 1 ELSE ones

Set ==
  /\ kind = "mut"
  /\ \E index \in 0..(n_bits - 1), bit \in BOOLEAN :
       /\ data' = [data EXCEPT ![index] = bit]
       /\ count_ones' = counted(count_ones, data[index], bit)
  /\ UNCHANGED <<n_bits, kind>>

\* set_bits adds the ones it writes and does not subtract those it overwrites.
SetBits ==
  /\ kind = "mut"
  /\ \E index \in 0..(n_bits - 1), bits \in Chunks :
       /\ index + Size(bits) <= n_bits
       /\ Overwriting \/ \A k \in DOMAIN bits : ~data[index + k]
       /\ data' = overwritten(data, index, bits)
       /\ count_ones' = count_ones + Ones(bits)
  /\ UNCHANGED <<n_bits, kind>>

\* extend(usize): one position, beyond the end or not.
ExtendOnes ==
  /\ kind = "mut"
  /\ \E pos \in 0..(MaxLen - 1) :
       LET longer == IF pos >= n_bits THEN pos + 1 ELSE n_bits IN
       /\ n_bits' = longer
       /\ data' = [resized(longer) EXCEPT ![pos] = TRUE]
       /\ count_ones' = counted(count_ones, resized(longer)[pos], TRUE)
  /\ UNCHANGED kind

\* From<BitVectorMut> for BitVector, and back.
Freeze == kind = "mut" /\ kind' = "fixed" /\ UNCHANGED <<data, n_bits, count_ones>>
Thaw == kind = "fixed" /\ kind' = "mut" /\ UNCHANGED <<data, n_bits, count_ones>>

\* validate_deserialized_data: the lines the length needs, and zeros after it.
\* Mutant: the padding is not looked at.
padding_clear_mutant(d, len) == TRUE
padding_clear(d, len) == \A p \in DOMAIN d : p >= len => ~d[p]
validate_deserialized_data(d, len) ==
  Cardinality(DOMAIN d) = lines_for(len) * LINE /\ padding_clear(d, len)

\* The vector was written out and is read back with another length or another
\* bit; the stored count is not used.
Deserialize ==
  /\ kind = "fixed"
  /\ \E len \in {n_bits - 1, n_bits, n_bits + 1} \cap 0..MaxLen :
     \E d \in {data} \cup {[data EXCEPT ![p] = ~ @] : p \in DOMAIN data} :
       /\ validate_deserialized_data(d, len)
       /\ data' = d /\ n_bits' = len /\ count_ones' = Ones(d)
  /\ UNCHANGED kind

NextBits ==
  \/ AppendBits \/ ExtendWithZeros \/ Set \/ SetBits \/ ExtendOnes
  \/ Freeze \/ Thaw \/ Deserialize

------------------------------------------------------------------------------
(* Reading.                                                                *)

n_words == Cardinality(DOMAIN data) \div WORD_BITS

\* A word as a number, its first bit the least significant.
word_value(w) ==
  MapThenSumSet(LAMBDA k : IF data[w * WORD_BITS + k] THEN 2 ^ k ELSE 0, 0..(WORD_BITS - 1))

\* get_bits_slice: from one word, or the end of one and the beginning of the next.
get_bits(index, len) ==
  LET block == index \div WORD_BITS
      shift == index % WORD_BITS
      low == word_value(block) \div 2 ^ shift
      high == (word_value(block + 1) * 2 ^ (WORD_BITS - shift)) % 2 ^ WORD_BITS
  IN IF len = 0 \/ len > WORD_BITS \/ index + len > n_bits THEN None
     ELSE IF shift + len <= WORD_BITS THEN low % 2 ^ len
     ELSE low + (high % 2 ^ len)

get(index) == IF index >= n_bits THEN None ELSE data[index]

------------------------------------------------------------------------------
(* Properties.                                                             *)

\* After any sequence of writes, freezes, thaws and deserializations count_ones()
\* is "the number of ones (bits set to 1) in the bit vector" and the padding
\* of the last line is zero, so that a later extend_with_zeros extends with zeros.
VectorExact ==
  /\ Cardinality(DOMAIN data) = lines_for(n_bits) * LINE
  /\ count_ones = Cardinality({p \in 0..(n_bits - 1) : data[p]})
  /\ \A p \in DOMAIN data : p >= n_bits => ~data[p]
==============================================================================
