--------------------------- MODULE CgCpuConversion ---------------------------
(***************************************************************************)
(* The integer conversions of the CPU accessors of src/lib/cgroup.c.       *)
(*   cg_env_set_cpuunits: cpu.shares = cpuunits * 1024 / 1000, computed in *)
(*     unsigned int (32 bits), so the product wraps modulo 2^32;           *)
(*   cg_env_set_cpulimit: cpu.rate = (unsigned long)(limit * 1024 / 100),  *)
(*     limit a float percentage, the quotient truncated;                   *)
(*   cg_env_get_cpulimit: limit = limit1024 * 100 / 1024, in unsigned long *)
(*     and truncated before it is converted back to float.                 *)
(* The float step is modelled for whole percentages below 2^14: there      *)
(* limit * 1024 is exact in a float and the rounded quotient stays within  *)
(* 2^-7 of l * 10.24, which is at least 0.01 from the next integer above  *)
(* when it is not an integer itself, so the truncation is the integer     *)
(* quotient.                                                               *)
(***************************************************************************)
EXTENDS Integers, TLAPS

\* unsigned int arithmetic wraps modulo 2^32
UIntModulus == 4294967296

\* the whole percentages for which the float quotient truncates exactly
Percents == 0..16383

\* cg_env_set_cpuunits: the value written to cpu.shares
CpuShares(u) == ((u * 1024) % UIntModulus) \div 1000

\* cg_env_set_cpulimit: the value written to cpu.rate for a limit of l %
CpuRate(l) == (l * 1024) \div 100

\* cg_env_get_cpulimit: the limit read back from a cpu.rate of r
CpuLimitOf(r) == (r * 100) \div 1024

-----------------------------------------------------------------------------
(* Theorems                                                                *)

\* cg_env_get_cpulimit undoes cg_env_set_cpulimit only for multiples of
\* 25 %: every other whole percentage reads back one lower (set 10 %,
\* cpu.rate 102, get 9 %), although the spec calls get and set symmetric
THEOREM RateRoundTrip ==
    \A l \in Percents :
        CpuLimitOf(CpuRate(l)) = IF l % 25 = 0 THEN l ELSE l - 1
<1> SUFFICES ASSUME NEW l \in Percents
             PROVE  CpuLimitOf(CpuRate(l)) = IF l % 25 = 0 THEN l ELSE l - 1
    OBVIOUS
<1> DEFINE q == l \div 25
           s == l % 25
           t == (256 * s) \div 25
<1>1. l \in Int /\ l = 25 * q + s /\ s \in 0..24 /\ q \in 0..655
    BY DEF Percents
<1>2. CpuRate(l) = 256 * q + t
    <2>1. l * 1024 = 100 * (256 * q) + 4 * (256 * s)
        BY <1>1
    <2>2. (4 * (256 * s)) \div 100 = t
        BY <1>1
    <2>3. QED
        BY <2>1, <2>2, <1>1 DEF CpuRate
<1>3. CpuLimitOf(CpuRate(l)) = 25 * q + (25 * t) \div 256
    <2>1. (256 * q + t) * 100 = 1024 * (25 * q) + 4 * (25 * t)
        BY <1>1
    <2>2. t \in 0..245
        BY <1>1
    <2>3. (4 * (25 * t)) \div 1024 = (25 * t) \div 256
        BY <2>2
    <2>4. QED
        BY <1>2, <2>1, <2>2, <2>3, <1>1 DEF CpuLimitOf
<1>4. CASE s = 0
    <2>1. t = 0
        BY <1>4
    <2>2. QED
        BY <1>1, <1>3, <1>4, <2>1
<1>5. CASE s # 0
    <2>1. 256 * s - 24 <= 25 * t /\ 25 * t <= 256 * s
        BY <1>1
    <2>2. 25 * t # 256 * s
        BY <1>1, <1>5
    <2>3. (25 * t) \div 256 = s - 1
        BY <1>1, <1>5, <2>1, <2>2
    <2>4. QED
        BY <1>1, <1>3, <1>5, <2>3
<1>6. QED
    BY <1>4, <1>5

\* below 4194304 cpuunits, cg_env_set_cpuunits writes the scaled weight and
\* a larger weight never gets fewer shares
THEOREM SharesMonotone ==
    \A u, v \in Nat :
        u < 4194304 /\ v < 4194304 =>
            /\ CpuShares(u) = (u * 1024) \div 1000
            /\ u <= v => CpuShares(u) <= CpuShares(v)
<1> SUFFICES ASSUME NEW u \in Nat, NEW v \in Nat, u < 4194304, v < 4194304
             PROVE  /\ CpuShares(u) = (u * 1024) \div 1000
                    /\ u <= v => CpuShares(u) <= CpuShares(v)
    OBVIOUS
<1>1. ASSUME NEW w \in Nat, w < 4194304
      PROVE  CpuShares(w) = (w * 1024) \div 1000
    <2>1. w * 1024 < UIntModulus
        BY <1>1 DEF UIntModulus
    <2>2. (w * 1024) % UIntModulus = w * 1024
        BY <2>1 DEF UIntModulus
    <2>3. QED
        BY <2>2 DEF CpuShares
<1>2. u <= v => (u * 1024) \div 1000 <= (v * 1024) \div 1000
    OBVIOUS
<1>3. CpuShares(u) = (u * 1024) \div 1000
    BY <1>1
<1>4. CpuShares(v) = (v * 1024) \div 1000
    BY <1>1
<1>5. QED
    BY <1>2, <1>3, <1>4

\* from 4194304 cpuunits on the product wraps: a weight of 4194304 gets
\* fewer shares than the default weight of 1000
THEOREM SharesWrap ==
    CpuShares(4194304) = 0 /\ CpuShares(1000) = 1024
BY DEF CpuShares, UIntModulus

=============================================================================
