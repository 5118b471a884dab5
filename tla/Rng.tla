--------------------------------- MODULE Rng ---------------------------------
(***************************************************************************)
(* The random number generator of svdrand.cpp: the MT19937 state mt[N]   *)
(* with its cursor (left, next), seeded once by SeedRandomNumberGenerator *)
(* (from /dev/urandom, or from a CRC of the clock and pid), regenerated   *)
(* in place by next_state, read by genrand, and RandomINT32, the only     *)
(* caller of genrand, which maps its draws onto [lLow, lHigh] by          *)
(* rejection.                                                             *)
(*                                                                         *)
(* TLC's integers are 32-bit and signed, so a UINT32 is a W-bit word and   *)
(* an INT32 a W-bit two's complement value: every product, sum and shift  *)
(* is taken modulo 2^W.  For sums, products and left shifts this is what  *)
(* the code's arithmetic modulo 2^32 leaves in the low W bits; a right    *)
(* shift of a W-bit word is not (the 32-bit shift brings higher bits      *)
(* down), so the model is an MT19937 of width W computed by the code's    *)
(* formulas, not a projection of the 32-bit one.  The reference sequence  *)
(* GenrandIsMT19937 compares against uses the same operators.  N and M,   *)
(* 624 and 397 in the code, are                                           *)
(* parameters with 0 < M < N, so the three loops of next_state all run.   *)
(* What the clock, the pid and /dev/urandom give are inputs: Seeds and    *)
(* SysWords.                                                              *)
(***************************************************************************)
EXTENDS Integers, Sequences, FiniteSets, Bitwise

CONSTANTS
    W,              \* bits of a UINT32 word
    N, M,           \* the MT19937 degree and middle offset
    SysWords,       \* the words a read of /dev/urandom may give (<<>> on failure)
    Seeds,          \* the CRC32 of the clock and the pid
    Ranges,         \* the <<lLow, lHigh>> pairs RandomINT32 is called with
    Elided,         \* whether the build drops the INT32_MAX test (see RandomINT32)
    MaxDraws        \* bound on the genrand calls of a behaviour

ASSUME 0 < M /\ M < N /\ W \in 2..15

Mod == 2^W
Mask(x) == x % Mod                      \* & 0xffffffffUL
UINT32_MAX_VALUE == Mod - 1
INT32_MAX_VALUE == Mod \div 2 - 1
ToINT32(u) == IF u > INT32_MAX_VALUE THEN u - Mod ELSE u
\* A 32-bit literal hi * 2^16 + lo, reduced to W bits.
Word32(hi, lo) == Mask((hi % Mod) * (65536 % Mod) + lo)
MulW(a, x) == Mask((a % Mod) * x)
ShiftL(x, k) == Mask(x * 2^k)
ShiftR(x, k) == x \div 2^k             \* >>, on a word

MATRIX_A == Word32(39176, 45279)        \* 0x9908b0df
UMASK == Mod \div 2                     \* 0x80000000
LMASK == Mod \div 2 - 1                 \* 0x7fffffff
\* The bitwise operators of Bitwise on W-bit words, tabulated once.
Word == 0..UINT32_MAX_VALUE
AndTab == [x \in Word |-> [y \in Word |-> x & y]]
OrTab  == [x \in Word |-> [y \in Word |-> x | y]]
XorTab == [x \in Word |-> [y \in Word |-> x ^^ y]]
BAnd(x, y) == AndTab[x][y]
BOr(x, y)  == OrTab[x][y]
BXor(x, y) == XorTab[x][y]

\* F(v), with v evaluated once: the loops below hand their state to the
\* next iteration through it.
Bind(v, F(_)) == CHOOSE r \in {F(x) : x \in {v}} : TRUE

MIXBITS(u, v) == BOr(BAnd(u, UMASK), BAnd(v, LMASK))
TWIST(u, v) == BXor(ShiftR(MIXBITS(u, v), 1), IF BAnd(v, 1) # 0 THEN MATRIX_A ELSE 0)

\* The tempering at the end of genrand.
Temper(y0) ==
    Bind(BXor(y0, ShiftR(y0, 11)), LAMBDA y1 :
    Bind(BXor(y1, BAnd(ShiftL(y1, 7), Word32(40236, 22144))), LAMBDA y2 :    \* 0x9d2c5680
    Bind(BXor(y2, BAnd(ShiftL(y2, 15), Word32(61382, 0))), LAMBDA y3 :       \* 0xefc60000
         BXor(y3, ShiftR(y3, 18)))))

Idx == 0..N-1
NullPtr == -1                           \* next before the first next_state

-----------------------------------------------------------------------------
(* Seeding.                                                               *)

\* mt[j] = 1812433253 * (mt[j-1] ^ (mt[j-1] >> 30)) + j, for j from 1 on.
RECURSIVE SeedLoop(_, _)
SeedLoop(a, j) ==
    IF j >= N THEN a
    ELSE Bind([a EXCEPT ![j] = Mask(MulW(Word32(27655, 35173), BXor(a[j-1], ShiftR(a[j-1], 30))) + j)],
              LAMBDA b : SeedLoop(b, j + 1))

sgenrand(nSeed) == SeedLoop([j \in Idx |-> IF j = 0 THEN Mask(nSeed) ELSE 0], 1)

\* A step of either loop of sgenrand_from_array: when i passes N-1,
\* mt[0] takes mt[N-1] and i restarts at 1.
Wrap(a, i) ==
    IF i + 1 >= N THEN [mt |-> [a EXCEPT ![0] = a[N-1]], i |-> 1]
    ELSE [mt |-> a, i |-> i + 1]

RECURSIVE KeyLoop(_, _, _, _, _)
KeyLoop(a, key, i, j, k) ==
    IF k = 0 THEN [mt |-> a, i |-> i]
    ELSE Bind(Wrap([a EXCEPT ![i] = Mask(BXor(a[i], MulW(1664525, BXor(a[i-1], ShiftR(a[i-1], 30))))
                                         + key[j+1] + j)], i),
              LAMBDA s : KeyLoop(s.mt, key, s.i, IF j + 1 >= Len(key) THEN 0 ELSE j + 1, k - 1))

RECURSIVE MixLoop(_, _, _)
MixLoop(a, i, k) ==
    IF k = 0 THEN a
    ELSE Bind(Wrap([a EXCEPT ![i] = Mask(BXor(a[i], MulW(1566083941, BXor(a[i-1], ShiftR(a[i-1], 30))))
                                         - i)], i),
              LAMBDA s : MixLoop(s.mt, s.i, k - 1))

sgenrand_from_array(key) ==
    Bind(KeyLoop(sgenrand(19650218), key, 1, 0, IF N > Len(key) THEN N ELSE Len(key)),
         LAMBDA r : [MixLoop(r.mt, r.i, N - 1) EXCEPT ![0] = UMASK])

\* The state SeedRandomNumberGenerator leaves in mt: from the array read
\* from /dev/urandom when it gave at least sizeof(UINT32) words, else from
\* the CRC seed, moved above 1000.
SeedMt(words, nSeed) ==
    IF Len(words) >= 4 THEN sgenrand_from_array(words)
    ELSE sgenrand(IF nSeed <= 1000 THEN nSeed + 22261048 ELSE nSeed)

-----------------------------------------------------------------------------
(* Generation.                                                            *)

\* for (; --j; p++) *p = p[off] ^ TWIST(p[0], p[1]);
RECURSIVE TwistLoop(_, _, _, _)
TwistLoop(a, p, j, off) ==
    IF j - 1 = 0 THEN [mt |-> a, p |-> p]
    ELSE Bind([a EXCEPT ![p] = BXor(a[p + off], TWIST(a[p], a[p+1]))],
              LAMBDA b : TwistLoop(b, p + 1, j - 1, off))

\* Mutant: the last word twists with mt[0] as it was before the loops.
NextStateStale(a) ==
    Bind(TwistLoop(a, 0, N - M + 1, M), LAMBDA r1 :
    Bind(TwistLoop(r1.mt, r1.p, M, M - N), LAMBDA r2 :
         [r2.mt EXCEPT ![r2.p] = BXor(r2.mt[r2.p + M - N], TWIST(r2.mt[r2.p], a[0]))]))

\* The regeneration of next_state, in place: its last word twists with
\* the mt[0] the first loop has already rewritten.
NextState(a) ==
    Bind(TwistLoop(a, 0, N - M + 1, M), LAMBDA r1 :
    Bind(TwistLoop(r1.mt, r1.p, M, M - N), LAMBDA r2 :
         [r2.mt EXCEPT ![r2.p] = BXor(r2.mt[r2.p + M - N], TWIST(r2.mt[r2.p], r2.mt[0]))]))

\* genrand on the generator g = [mt, left, next, bSeeded]; src is what
\* SeedRandomNumberGenerator would read if next_state has to call it.
genrand(g, src) ==
    Bind(IF g.left - 1 = 0
         THEN [mt |-> NextState(IF g.bSeeded THEN g.mt ELSE SeedMt(src.words, src.seed)),
               left |-> N, next |-> 0, bSeeded |-> TRUE]
         ELSE [g EXCEPT !.left = g.left - 1],
         LAMBDA g1 : [g |-> [g1 EXCEPT !.next = g1.next + 1], y |-> Temper(g1.mt[g1.next])])

\* Mutant: the loop also accepts n = nLimit (while (n > nLimit)).
NLimitInclusive(x) == UINT32_MAX_VALUE - (UINT32_MAX_VALUE % x) + 1

\* The greatest multiple of x a UINT32 can hold, the bound on accepted draws.
NLimit(x) == UINT32_MAX_VALUE - (UINT32_MAX_VALUE % x)

\* lLow + (n % x), a UINT32 sum returned as an INT32.
RandomValue(lLow, x, n) == ToINT32(Mask(lLow + (n % x)))
-----------------------------------------------------------------------------
(* State and calls.                                                       *)

VARIABLES
    mt, left, next, bSeeded,    \* the statics of svdrand.cpp
    out,            \* what the last RandomINT32 call returned
    seedmt,         \* history: mt as SeedRandomNumberGenerator left it
    ys              \* history: every value genrand has returned

vars == <<mt, left, next, bSeeded, out, seedmt, ys>>

Sources == [words : SysWords, seed : Seeds]
NoDraw == -1                    \* out.n of a call that drew nothing
Fault == "SIGFPE"               \* the % by zero of a full-range call

Init ==
    /\ mt = [j \in Idx |-> 0]
    /\ left = 1
    /\ next = NullPtr
    /\ bSeeded = FALSE
    /\ out = [lo |-> 0, hi |-> -1, val |-> -1, n |-> NoDraw]
    /\ seedmt = mt
    /\ ys = <<>>

\* The startup call.  A second call returns at once.
SeedRandomNumberGenerator ==
    /\ ~bSeeded
    /\ \E src \in Sources :
          /\ mt' = SeedMt(src.words, src.seed)
          /\ seedmt' = mt'
    /\ left' = 1
    /\ bSeeded' = TRUE
    /\ UNCHANGED <<next, out, ys>>

\* do n = genrand(); while (n >= nLimit); as many draws as it takes, each
\* recorded in hist; n is NoDraw if MaxDraws is reached first.
RECURSIVE Draw(_, _, _, _)
Draw(g, src, nLimit, hist) ==
    IF Len(hist) >= MaxDraws THEN [g |-> g, hist |-> hist, n |-> NoDraw]
    ELSE Bind(genrand(g, src), LAMBDA r :
             IF r.y >= nLimit THEN Draw(r.g, src, nLimit, Append(hist, r.y))
             ELSE [g |-> r.g, hist |-> Append(hist, r.y), n |-> r.y])

\* hi - lLow is an int subtraction: when it overflows (the range holds
\* more than INT32_MAX_VALUE + 1 values) the behaviour is undefined, and a
\* compiler that assumes it does not may drop the INT32_MAX_VALUE test,
\* which then can never hold.  elided is that choice of the build.
RandomINT32(lLow, lHigh) ==
    \E src \in Sources, elided \in Elided :
      LET x0 == Mask(lHigh - lLow)
          x  == Mask(x0 + 1)
          g  == [mt |-> mt, left |-> left, next |-> next, bSeeded |-> bSeeded]
          ret(v) == out' = [lo |-> lLow, hi |-> lHigh, val |-> v, n |-> NoDraw]
                    /\ UNCHANGED <<mt, left, next, bSeeded, seedmt, ys>>
      IN  CASE lHigh < lLow -> ret(-1)
            [] lHigh = lLow -> ret(lLow)
            [] INT32_MAX_VALUE < x0 /\ ~elided -> ret(-1)
            [] x = 0 -> ret(Fault)
            [] OTHER ->
               \E d \in {Draw(g, src, NLimit(x), ys)} :
                 /\ d.n # NoDraw
                 /\ out' = [lo |-> lLow, hi |-> lHigh, val |-> RandomValue(lLow, x, d.n), n |-> d.n]
                 /\ mt' = d.g.mt /\ left' = d.g.left /\ next' = d.g.next
                 /\ bSeeded' = d.g.bSeeded
                 /\ seedmt' = IF bSeeded THEN seedmt ELSE SeedMt(src.words, src.seed)
                 /\ ys' = d.hist

Next ==
    \/ SeedRandomNumberGenerator
    \/ \E r \in Ranges : RandomINT32(r[1], r[2])

Spec == Init /\ [][Next]_vars

-----------------------------------------------------------------------------
(* Properties.                                                            *)

\* The MT19937 sequence of the paper from a seeded state: x[k+N] =
\* x[k+M] ^ TWIST(x[k], x[k+1]), of which genrand returns x[N], x[N+1], ...
\* xs holds x[0], ..., x[Len(xs)-1].
RECURSIVE Recurrence(_)
Recurrence(xs) ==
    IF Len(xs) > N + MaxDraws THEN xs
    ELSE LET k == Len(xs) - N      \* x[k+N] is next; x[i] is xs[i+1]
         IN  Bind(Append(xs, BXor(xs[k+M+1], TWIST(xs[k+1], xs[k+2]))), LAMBDA ys1 : Recurrence(ys1))

\* genrand returns the tempered MT19937 sequence of the state it was
\* seeded with, however the draws fall across the in-place regenerations
\* of next_state, whether the first or a later call seeds, and wherever
\* the cursor (left, next) stands.
GenrandIsMT19937 ==
    LET xs == Recurrence([i \in 1..N |-> seedmt[i-1]])
    IN  \A k \in 1..Len(ys) : ys[k] = Temper(xs[N + k])

\* "return a long on the interval [lLow, lHigh]", without bias: a call
\* with lLow < lHigh draws, returns a value of the interval, and the
\* draws its loop accepts map onto every value of the interval equally
\* often.
RandomUniform ==
    out.lo < out.hi =>
        LET x == Mask(Mask(out.hi - out.lo) + 1)
            accepted == {n \in 0..UINT32_MAX_VALUE : n < NLimit(x)}
            hits(v) == {n \in accepted : RandomValue(out.lo, x, n) = v}
        IN  /\ out.n # NoDraw
            /\ out.val \in out.lo..out.hi
            /\ \A v \in out.lo..out.hi :
                   Cardinality(hits(v)) * (out.hi - out.lo + 1) = Cardinality(accepted)
=============================================================================
