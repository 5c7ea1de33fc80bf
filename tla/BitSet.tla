------------------------------- MODULE BitSet -------------------------------
(***************************************************************************)
(* util/bitset.h and util/bitset.cpp: a vector of words that grows by       *)
(* powers of two.  A word is the set of the positions of its ones, so that  *)
(* the operators on words are those on sets.  Two BitSets x and y receive   *)
(* every call in any order; s and t are the sets that they should be then.  *)
(***************************************************************************)
EXTENDS Integers, FiniteSets

CONSTANTS
    W,          \* bits of a word: 64 in the code
    Indices,    \* bound: the bits that are set
    Ends,       \* bound: the ends of the ranges asked for
    Shifts      \* bound: the distances of a shift

VARIABLES
    x, y, ret,  \* two BitSets and the last answer
    s, t, due   \* what they should be: two sets of numbers, and the answer of the set

vars == <<x, y, ret, s, t, due>>

Word == 0..(W - 1)
num_words(b) == Cardinality(DOMAIN b)
num_bits(b)  == num_words(b) * W
Zero == [i \in {0} |-> {}]

test(b, i) == IF i \div W >= num_words(b) THEN FALSE ELSE i % W \in b[i \div W]

(* What a BitSet stands for.                                                 *)
Elems(b) == {i \in 0..(num_bits(b) - 1) : test(b, i)}

-----------------------------------------------------------------------------
bit_ceil(n) == CHOOSE p \in {2^k : k \in 0..n} : p >= n /\ (p = 1 \/ p \div 2 < n)

ensure_capacity(b, i) ==
    LET n == (i + W) \div W
    IN  IF n <= num_words(b) THEN b
        ELSE [k \in 0..(bit_ceil(n) - 1) |-> IF k \in DOMAIN b THEN b[k] ELSE {}]

set(b, i)    == [ensure_capacity(b, i) EXCEPT ![i \div W] = @ \cup {i % W}]
clear(b, i)  == [ensure_capacity(b, i) EXCEPT ![i \div W] = @ \ {i % W}]
assign(b, i, v) == IF v THEN set(b, i) ELSE clear(b, i)     \* reference = v
toggle(b, i) == IF test(b, i) THEN clear(b, i) ELSE set(b, i)

(* operator== compares the words both have; the others have to be zero.      *)
equal_prefix(a, b) ==               \* mutant: the longer one's rest is ignored
    \A i \in DOMAIN a \cap DOMAIN b : a[i] = b[i]
equal(a, b) ==
    LET long == IF num_words(a) > num_words(b) THEN a ELSE b
    IN  /\ \A i \in DOMAIN a \cap DOMAIN b : a[i] = b[i]
        /\ \A i \in DOMAIN long \ (DOMAIN a \cap DOMAIN b) : long[i] = {}

RECURSIVE popcount(_, _)
popcount(b, i) == IF i = num_words(b) THEN 0 ELSE Cardinality(b[i]) + popcount(b, i + 1)
count(b) == popcount(b, 0)

begin_mask(i) == {p \in Word : p >= i % W}
end_mask(i)   == Word \ begin_mask(i)

(* any_range: the first word from begin on, then whole words, then the last up *)
(* to end.  The end is brought within the BitSet, the begin is not: a word     *)
(* beyond it holds anything, and the search for the last word runs past it.    *)
No    == 0
Yes   == 1
Lost  == -1
Truth(p) == IF p THEN Yes ELSE No
word_at(b, i, m) == IF i \in DOMAIN b THEN {Truth(b[i] \cap m # {})} ELSE IF m = {} THEN {No} ELSE {Yes, Lost}

RECURSIVE any_from(_, _, _, _)
any_from(b, i, e, emask) ==
    IF i = e THEN IF emask = {} THEN {No} ELSE word_at(b, i, emask)
    ELSE IF i \notin DOMAIN b THEN {Yes, Lost}
    ELSE IF b[i] # {} THEN {Yes} ELSE any_from(b, i + 1, e, emask)

any_first(b, i, e, bmask, emask) ==
    UNION {IF r = No THEN any_from(b, i + 1, e, emask) ELSE {r} : r \in word_at(b, i, bmask)}

any_range(b, begin, end) ==
    LET z == IF end < num_bits(b) THEN end ELSE num_bits(b)
    IN  IF begin >= end THEN {No}
        ELSE IF begin \div W = z \div W THEN word_at(b, z \div W, begin_mask(begin) \cap end_mask(z))
        ELSE any_first(b, begin \div W, z \div W, begin_mask(begin), end_mask(z))

(* op_assign works on the words of the other one.                             *)
Symm(u, v) == (u \ v) \cup (v \ u)
op_assign(F(_, _), a, b) ==
    LET c == IF num_words(a) < num_words(b) THEN ensure_capacity(a, num_bits(b) - 1) ELSE a
    IN  [i \in DOMAIN c |-> IF i \in DOMAIN b THEN F(c[i], b[i]) ELSE c[i]]

(* operator>>=: whole words first, then the rest with a carry from above.  A    *)
(* shift by all W bits is undefined: nothing is left, or nothing is moved.      *)
shl(w, n) == IF n = W THEN {{}, w} ELSE {{p + n : p \in {p \in w : p + n < W}}}
shr(w, n) == {p - n : p \in {p \in w : p >= n}}

moved(b, div) == [i \in DOMAIN b |-> IF i + div \in DOMAIN b THEN b[i + div] ELSE {}]
Carries(b, rem) == {f \in [DOMAIN b -> UNION {shl(b[i], W - rem) : i \in DOMAIN b} \cup {{}}] :
                       \A i \in DOMAIN b : IF i + 1 \in DOMAIN b THEN f[i] \in shl(b[i + 1], W - rem)
                                           ELSE f[i] = {}}
shift(b, n) ==
    IF n \div W >= num_words(b) THEN {Zero}
    ELSE LET m == moved(b, n \div W)
         IN  {[i \in DOMAIN b |-> shr(m[i], n % W) \cup f[i]] : f \in Carries(m, n % W)}

-----------------------------------------------------------------------------
Init == x = Zero /\ y = Zero /\ ret = No /\ s = {} /\ t = {} /\ due = No

(* A call makes x to b, and should have made s to u; one that only asks gets r    *)
(* and should get d.                                                            *)
Becomes(b, u) == x' = b /\ s' = u /\ UNCHANGED <<y, ret, t, due>>
Answers(r, d) == ret' = r /\ due' = d /\ UNCHANGED <<x, y, s, t>>

Set    == \E i \in Indices : Becomes(set(x, i), s \cup {i})
Clear  == \E i \in Indices : Becomes(clear(x, i), s \ {i})
Toggle == \E i \in Indices : Becomes(toggle(x, i), Symm(s, {i}))
Assign == \E i \in Indices, v \in BOOLEAN : Becomes(assign(x, i, v), IF v THEN s \cup {i} ELSE s \ {i})
Empty  == Becomes(Zero, {})
Or     == Becomes(op_assign(LAMBDA u, v : u \cup v, x, y), s \cup t)
Xor    == Becomes(op_assign(Symm, x, y), Symm(s, t))

(* The copy constructor grows an empty BitSet to the other's size.            *)
Copy   == Becomes([i \in DOMAIN ensure_capacity(Zero, num_bits(y) - 1) |-> y[i]], t)
Swap   == x' = y /\ y' = x /\ s' = t /\ t' = s /\ UNCHANGED <<ret, due>>

Test   == \E i \in Indices : Answers(Truth(test(x, i)), Truth(i \in s))
Equal  == Answers(Truth(equal(x, y)), Truth(s = t))
Count  == Answers(count(x), Cardinality(s))

(* operator[] makes room even in a const BitSet.                              *)
At     == \E i \in Indices : /\ x' = ensure_capacity(x, i)
                             /\ ret' = Truth(test(x', i))
                             /\ due' = Truth(i \in s)
                             /\ UNCHANGED <<y, s, t>>

(* Three calls do not do what they should; each is to do exactly what it does.     *)
(* &= keeps the numbers beyond the words of the other BitSet (bitset.h:138).       *)
Beyond == {i \in s : i >= num_bits(y)}
And    == Becomes(op_assign(LAMBDA u, v : u \cap v, x, y), (s \cap t) \cup Beyond)

(* A shift by whole words may leave bits of the next word behind, but only in words *)
(* below the last that is moved (bitset.cpp:81).                                 *)
Down(n) == {i - n : i \in {i \in s : i >= n}}
Stray(n, b) == n % W = 0 /\ Down(n) \subseteq Elems(b) /\ Elems(b) \subseteq Down(n) \cup Down(n + W)
Shift  == \E n \in Shifts : \E b \in shift(x, n) : Becomes(b, IF Stray(n, b) THEN Elems(b) ELSE Down(n))

(* A range that begins in a word beyond the next has nothing in it, but the search  *)
(* reads what is not there: it finds something or does not end (bitset.cpp:59).     *)
Outside(b, e, r) == b < e /\ b \div W > num_words(x) /\ r # No
Any    == \E b, e \in Ends : \E r \in any_range(x, b, e) :
              Answers(r, IF Outside(b, e, r) THEN r ELSE Truth(\E i \in s : b <= i /\ i < e))

Next == \/ Set \/ Clear \/ Toggle \/ Assign \/ Empty \/ Shift \/ And \/ Or \/ Xor \/ Copy
        \/ Swap \/ Test \/ At \/ Equal \/ Count \/ Any

Spec == Init /\ [][Next]_vars

-----------------------------------------------------------------------------
(* bitset.h: after any calls a BitSet is the set that they should have made of it,   *)
(* and each question is answered as that set would: nothing depends on how many      *)
(* words earlier calls, or questions, have left behind.                           *)
IsASet == Elems(x) = s /\ Elems(y) = t /\ ret = due
=============================================================================
