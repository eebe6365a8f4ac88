--------------------------- MODULE RateConversion ---------------------------
(***************************************************************************)
(* A signal fed to the converters in pieces of any length: a state is the  *)
(* signal so far, a step feeds one more piece.                             *)
(***************************************************************************)
EXTENDS Resampling, FiniteSets

CONSTANTS
  RatePairs,     \* incoming and outgoing rates
  InputSamples,  \* values of samples
  Coeffs,        \* of the filter
  MaxPiece,      \* bound on the length of a piece
  MaxLength      \* bound on the length of the signal

ConversionAssumption ==
  /\ RatePairs \subseteq (Nat \ {0}) \X (Nat \ {0})
  /\ InputSamples \subseteq Int
  /\ Coeffs \in Seq(Int) /\ Coeffs # <<>>
  /\ MaxPiece \in Nat /\ MaxLength \in Nat

VARIABLES
  signal,             \* what went in
  conv, resampled,    \* the stream converter, and what it made of it
  fir, filtered,      \* the filter
  pieces, separate    \* the same pieces by themselves, as the capture pump converts them

conversion == <<signal, conv, resampled, fir, filtered, pieces, separate>>

ConversionInit ==
  /\ signal = <<>>
  /\ \E r \in RatePairs : conv = NewResampler(r[1], r[2])
  /\ resampled = <<>>
  /\ fir = NewFIRFilter(Coeffs) /\ filtered = <<>>
  /\ pieces = 0 /\ separate = <<>>

Feed(piece) ==
  /\ signal' = signal \o piece
  /\ conv' = Process(conv, piece).next
  /\ resampled' = resampled \o Process(conv, piece).out
  /\ fir' = Filter(fir, piece).next
  /\ filtered' = filtered \o Filter(fir, piece).out
  /\ pieces' = pieces + 1
  /\ separate' = separate \o ResampleInt16(piece, conv.inRate, conv.outRate)

ConversionNext ==
  \E n \in 1 .. MaxPiece :
    /\ Len(signal) + n <= MaxLength
    /\ \E piece \in [1 .. n -> InputSamples] : Feed(piece)

ConversionSpec == ConversionInit /\ [][ConversionNext]_conversion

-----------------------------------------------------------------------------
\* However a signal is cut into pieces, the converter makes of it what it makes of the
\* whole at once, and sample for sample what the other converter makes of the whole; the
\* rate holds in the long run to a sample in and a sample out (Int16StreamResampler,
\* ResampleInt16).
LikeTheWhole ==
  LET whole == ResampleInt16(signal, conv.inRate, conv.outRate)
      behind == Len(signal) * conv.outRate - Len(resampled) * conv.inRate
  IN /\ resampled = Process(NewResampler(conv.inRate, conv.outRate), signal).out
     /\ \A k \in DOMAIN resampled \cap DOMAIN whole : resampled[k] = whole[k]
     /\ -conv.inRate < behind /\ behind <= conv.outRate

\* It keeps one sample and no more, however long the signal.
KeepsOne == Len(conv.buf) <= 1

\* The filter is the convolution of the whole signal with its coefficients, clipped.
Weighed(s, n) == [j \in 1 .. Len(Coeffs) |-> IF n >= j THEN Coeffs[j] * s[n - j + 1] ELSE 0]
Convolved == \A n \in DOMAIN signal : filtered[n] = Clamp(SumOf(Weighed(signal, n), Len(Coeffs)))

\* The capture pump converts each of its pieces by itself, which costs at most half a sample
\* per piece and adds at most half, or one where a piece is too short to make any: and it
\* does, where the rates do not divide the piece (16000 Hz to 8333 Hz).
DriftPerPiece ==
  LET off == 2 * (Len(separate) * conv.inRate - Len(signal) * conv.outRate)
      most == IF conv.inRate > conv.outRate THEN 2 * conv.inRate ELSE conv.inRate
  IN -(pieces * conv.inRate) <= off /\ off <= pieces * most

\* A signal converted in pieces is the signal converted, and the capture pump, which forgets
\* between pieces, is off by half a sample for each (audio).
PiecesDontMatter == LikeTheWhole /\ KeepsOne /\ Convolved /\ DriftPerPiece
=============================================================================
