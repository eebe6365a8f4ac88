----------------------------- MODULE Resampling -----------------------------
(***************************************************************************)
(* The converters of sample rates and the filter ahead of them, which keep *)
(* state from one piece of a stream to the next.  The position of the      *)
(* stream converter is counted in parts of one over the outgoing rate, so  *)
(* that it is an integer: the code's is a float of the same value.         *)
(***************************************************************************)
EXTENDS Integers, Sequences

Truncate(n, d) == IF n >= 0 THEN n \div d ELSE -((-n) \div d)
Clamp(v) == IF v > 32767 THEN 32767 ELSE IF v < -32768 THEN -32768 ELSE v

\* The straight line between two samples at part f of d.  What lies between two samples of
\* 16 bits is one (lemma NothingToClip): the code's limits around it never act.
Between(s0, s1, f, d) == Truncate(s0 * (d - f) + s1 * f, d)

\* Int16StreamResampler.
NewResampler(inRate, outRate) == [inRate |-> inRate, outRate |-> outRate, buf |-> <<>>, pos |-> 0]

\* The output positions that have a sample on both sides in a buffer.
Steps(r, len) ==
  LET room == (len - 1) * r.outRate - r.pos IN
    IF room <= 0 THEN 0 ELSE (room + r.inRate - 1) \div r.inRate

\* What is kept of a buffer that was read up to pos.  Mutants: all of it is let go and
\* the position starts anew; the last samples are kept.
KeepNothing(r, buf, pos) == [r EXCEPT !.buf = <<>>, !.pos = 0]
KeepTwo(r, buf, pos) ==
  LET drop == IF pos \div r.outRate > Len(buf) - 2 THEN Len(buf) - 2 ELSE pos \div r.outRate IN
    IF drop <= 0 THEN [r EXCEPT !.buf = buf, !.pos = pos]
    ELSE [r EXCEPT !.buf = SubSeq(buf, drop + 1, Len(buf)), !.pos = pos - drop * r.outRate]

KeepRest(r, buf, pos) ==
  LET drop == IF pos \div r.outRate > Len(buf) - 1 THEN Len(buf) - 1 ELSE pos \div r.outRate IN
    [r EXCEPT !.buf = SubSeq(buf, drop + 1, Len(buf)), !.pos = pos - drop * r.outRate]

Process(r, in) ==
  IF in = <<>> THEN [next |-> r, out |-> <<>>]
  ELSE IF r.inRate = r.outRate THEN [next |-> r, out |-> in]
  ELSE LET buf == r.buf \o in
           n == Steps(r, Len(buf))
           at(k) == r.pos + (k - 1) * r.inRate
           j(k) == at(k) \div r.outRate
       IN [next |-> KeepRest(r, buf, r.pos + n * r.inRate),
           out |-> [k \in 1 .. n |-> Between(buf[j(k) + 1], buf[j(k) + 2], at(k) % r.outRate, r.outRate)]]

\* ResampleInt16: one piece by itself, its last sample held.
RoundedDown(n, d) == n \div d   \* mutant
Rounded(n, d) == (2 * n + d) \div (2 * d)
Least(a, b) == IF a < b THEN a ELSE b

ResampleInt16(in, inRate, outRate) ==
  IF in = <<>> \/ inRate = outRate THEN in
  ELSE LET n == Rounded(Len(in) * outRate, inRate)
           j(k) == ((k - 1) * inRate) \div outRate
       IN [k \in 1 .. IF n <= 0 THEN 1 ELSE n |->
             Between(in[Least(j(k), Len(in) - 1) + 1], in[Least(j(k) + 1, Len(in) - 1) + 1],
                     ((k - 1) * inRate) % outRate, outRate)]

-----------------------------------------------------------------------------
\* FIRFilter: a ring of the last samples, idx the place of the next; the coefficients
\* are integers here, so that rounding has nothing to do.
NewFIRFilter(coeffs) == [coeffs |-> coeffs, delay |-> [k \in DOMAIN coeffs |-> 0], idx |-> 1]

SumOf(f, n) == LET sum[j \in 0 .. n] == IF j = 0 THEN 0 ELSE sum[j - 1] + f[j] IN sum[n]

\* The oldest sample meets the last coefficient.  Mutant: the ring is read forwards.
TapForwards(f, s) ==
  LET filled == [f EXCEPT !.delay[f.idx] = s]
      size == Len(f.delay)
      ahead(j) == ((f.idx + j - 2) % size) + 1
  IN [next |-> [filled EXCEPT !.idx = IF @ = size THEN 1 ELSE @ + 1],
      out |-> Clamp(SumOf([j \in 1 .. size |-> f.coeffs[j] * filled.delay[ahead(j)]], size))]

Tap(f, s) ==
  LET filled == [f EXCEPT !.delay[f.idx] = s]
      size == Len(f.delay)
      back(j) == ((f.idx - j + size) % size) + 1
  IN [next |-> [filled EXCEPT !.idx = IF @ = size THEN 1 ELSE @ + 1],
      out |-> Clamp(SumOf([j \in 1 .. size |-> f.coeffs[j] * filled.delay[back(j)]], size))]

Filter(f, in) ==
  LET after[k \in 0 .. Len(in)] == IF k = 0 THEN [next |-> f, out |-> 0] ELSE Tap(after[k - 1].next, in[k])
  IN [next |-> after[Len(in)].next, out |-> [k \in DOMAIN in |-> after[k].out]]
=============================================================================
