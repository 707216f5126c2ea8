-------------------------------- MODULE Sums --------------------------------
\* Sums of cents, over a finite set of ledger rows or of installments.
EXTENDS Integers, FiniteSetsExt

Total(f, S) == MapThenSumSet(LAMBDA x : f[x], S)
=============================================================================
