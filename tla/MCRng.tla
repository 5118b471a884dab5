-------------------------------- MODULE MCRng --------------------------------
(* Instances of Rng for TLC.                                              *)
EXTENDS Rng, TLC

\* A read of /dev/urandom that fails, one too short to use, one of four
\* words.
MCSysWords == {<<>>, <<7, 1, 2>>, <<3, 250, 17, 96>>}

\* Calls with lHigh < lLow, lHigh = lLow, small ranges, the widest range
\* RandomINT32 accepts (INT32_MAX_VALUE + 1 values, from either end).
MCRanges == {<<2, 1>>, <<5, 5>>, <<-3, 4>>, <<0, 99>>, <<-1, 126>>, <<-128, -1>>}

\* With a range one value wider than RandomINT32 accepts.
MCRangesWide == MCRanges \cup {<<-128, 0>>}
====
