------------------------------ MODULE MCConversions ------------------------------
(* Conversions for TLC: texts of up to four characters, with the digits of the  *)
(* greatest numbers of a type of eight bits, and periods at the ends of the     *)
(* ranges of the prescalers.                                                    *)
EXTENDS Conversions

MCTexts == UNION {[1 .. n -> {"-", ".", "x", "0", "2", "5", "6"}] : n \in 0 .. 4}

Around(S) == UNION {{n - 1, n, n + 1} : n \in S}
Limits == {kMaxClockTicks * d : d \in Divisors}

MCCycles == {0} \cup Around(Limits \cup {2})
MCMicros == {0, 1} \cup Around({n \div 16 : n \in Limits})
MCNanos  == {0, 31, 32, 62, 63}
            \cup Around({kShortPeriodLimit - half_cycle_ns, 4095937, 32767500, 1048560000})
MCEvents == {0, 1, 15, 16, 244, 245, 10000, 65535}
=============================================================================
