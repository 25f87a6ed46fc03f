------------------------------ MODULE Partition ------------------------------
(***************************************************************************)
(* The block partition of n items over p processes that read_decomp()      *)
(* (src/src/read_decomp.cpp) uses to hand the decomposition's processes to *)
(* the ranks, and dat2decomp to hand out the gaps: n \div p items each,    *)
(* and one more for the first n % p processes.                             *)
(***************************************************************************)
EXTENDS Integers

\* Faults: the remainder is given to no one; its owners do not move the
\* blocks after them.
CountNoRest(n, p, r) == n \div p
StartNoRest(n, p, r) == r * (n \div p)

PartCount(n, p, r) == n \div p + (IF r < n % p THEN 1 ELSE 0)
PartStart(n, p, r) == r * (n \div p) + (IF r < n % p THEN r ELSE n % p)

Part(n, p, r) == PartStart(n, p, r) .. PartStart(n, p, r) + PartCount(n, p, r) - 1
=============================================================================
