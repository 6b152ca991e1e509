---------------------------- MODULE BlockSizing ----------------------------
(***************************************************************************)
(* CalculateBlockSizeFromInitialSlices: how many slices make a block, from *)
(* the time a list of slices covers (CacheStart .. CacheEnd) and how many  *)
(* slices it holds.  A list of eight AAC slices is divided by six.  The    *)
(* code divides by zero, or throws, where BlockSizeDefined is false, and   *)
(* never lets the result be 8, the size that stands for "not known yet".   *)
(***************************************************************************)
EXTENDS Integers

HypothesizedBlockSize == 8

AverageDuration(start, end, count, isAac) ==
  (end - start) \div (count - (IF isAac /\ count = HypothesizedBlockSize THEN 2 ELSE 1))

BlockSizeDefined(start, end, count, extent, isAac) ==
  /\ count >= 2
  /\ AverageDuration(start, end, count, isAac) > 0
  /\ extent >= AverageDuration(start, end, count, isAac)

BlockSizeOf(start, end, count, extent, isAac) ==
  LET size == extent \div AverageDuration(start, end, count, isAac)
  IN  IF size = HypothesizedBlockSize THEN HypothesizedBlockSize + 1 ELSE size
=============================================================================
