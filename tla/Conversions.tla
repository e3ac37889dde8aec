------------------------------- MODULE Conversions -------------------------------
(***************************************************************************)
(* Conversions between text, periods and what registers and fields hold, at  *)
(* the widths of the types they are written with: the numbers in requests    *)
(* (StringView::to_uint32, to_int32 and to_double, utils/string_view.cpp) and *)
(* the settings of a 16-bit timer for a period or a frequency                *)
(* (TC16ClockAndTicks, utils/avr_timer_counter.cpp).                         *)
(*                                                                           *)
(* A character is a string of length one.  A double is a pair: an integer    *)
(* and the power of ten it is divided by.  A conversion that returns false   *)
(* yields Refused.                                                           *)
(***************************************************************************)
EXTENDS Integers, Sequences, SequencesExt, FiniteSetsExt, TLC

CONSTANTS
    kMaxUInt,           \* of uint32_t; odd
    IntWidth,           \* of int and unsigned int: 16 with avr-gcc, 32 on a host
    Texts,              \* inputs of the conversions of text
    Cycles, Micros, Nanos, Events   \* inputs of the conversions of periods

ASSUME ConversionsAssumption ==
    /\ kMaxUInt \in Nat /\ kMaxUInt % 2 = 1
    /\ IntWidth \in {16, 32}
    /\ Cycles \cup Micros \cup Nanos \cup Events \subseteq Nat

\* 160 * us and ns + 500 are computed in a uint32_t and do not exceed it.
ASSUME PeriodsAssumption ==
    /\ \A us \in Micros : us <= 26843545
    /\ \A ns \in Nanos : ns \div 1000 < 4294966

VARIABLES
    number,             \* the last conversion of a text: to what, and its result
    setting             \* the last conversion of a period: from what, and its result

conversions == <<number, setting>>

Refused == << >>
-----------------------------------------------------------------------------
(* utils/string_view.cpp *)

Digit == ("0" :> 0) @@ ("1" :> 1) @@ ("2" :> 2) @@ ("3" :> 3) @@ ("4" :> 4)
         @@ ("5" :> 5) @@ ("6" :> 6) @@ ("7" :> 7) @@ ("8" :> 8) @@ ("9" :> 9)

\* Mutant: the multiplication is guarded, the addition is not.
AddOnesPlaceUnguarded(value, c) ==
    IF value = Refused \/ c \notin DOMAIN Digit \/ value[1] > kMaxUInt \div 10
      THEN Refused
      ELSE <<(value[1] * 10 + Digit[c]) % (kMaxUInt + 1)>>

AddOnesPlace(value, c) ==
    IF \/ value = Refused
       \/ c \notin DOMAIN Digit
       \/ value[1] > kMaxUInt \div 10
       \/ value[1] * 10 > kMaxUInt - Digit[c]
      THEN Refused
      ELSE <<value[1] * 10 + Digit[c]>>

to_uint32(text) == IF text = << >> THEN Refused ELSE FoldLeft(AddOnesPlace, <<0>>, text)

Negative(text) == text # << >> /\ Head(text) = "-"
Unsigned(text) == IF Negative(text) THEN Tail(text) ELSE text

to_int32(text) ==
    LET value    == to_uint32(Unsigned(text))
        valueMax == kMaxUInt \div 2 + (IF Negative(text) THEN 1 ELSE 0)
    IN  IF value = Refused \/ (value # Refused /\ value[1] > valueMax) THEN Refused
        ELSE <<IF Negative(text) THEN -value[1] ELSE value[1]>>

\* One turn of the loop of to_double: value, divisor, decoding_fraction.
AddToDouble(state, c) ==
    CASE state = Refused -> Refused
      [] state # Refused /\ c = "." ->
             IF state.decoding_fraction THEN Refused
             ELSE [state EXCEPT !.decoding_fraction = TRUE]
      [] state # Refused /\ c \in DOMAIN Digit ->
             [state EXCEPT !.value = @ * 10 + Digit[c],
                           !.divisor = IF state.decoding_fraction THEN @ * 10 ELSE @]
      [] OTHER -> Refused

to_double(text) ==
    LET copy  == Unsigned(text)
        final == FoldLeft(AddToDouble,
                          [value |-> 0, divisor |-> 1, decoding_fraction |-> FALSE], copy)
    IN  IF copy \in {<< >>, <<".">>} \/ final = Refused THEN Refused
        ELSE <<IF Negative(text) THEN -final.value ELSE final.value, final.divisor>>
-----------------------------------------------------------------------------
(* utils/avr_timer_counter.cpp *)

F_CPU          == 16000000
kMaxClockTicks == 65535
Divisors       == {1, 8, 64, 256, 1024}
Disabled       == [divisor |-> 0, clock_ticks |-> 0]

\* kMaxClockTicks * n in an unsigned int, for the divisors n; 32 bits hold it.
TicksTimes(n) ==
    IF IntWidth = 16 THEN (kMaxClockTicks * n) % 65536 ELSE kMaxClockTicks * n

FromSystemClockCycles(cycles) ==
    LET Fits == {d \in Divisors : cycles <= TicksTimes(d)}
    IN  IF cycles = 0 \/ Fits = {} THEN Disabled
        ELSE [divisor |-> Min(Fits), clock_ticks |-> (cycles \div Min(Fits)) % 65536]

FromMicroSeconds(us) == FromSystemClockCycles(((F_CPU \div 100000) * us) \div 10)

kShortPeriodLimit == 26843545   \* UINT32_MAX / (F_CPU / 100000)
half_cycle_ns     == 500000000 \div F_CPU

\* ((F_CPU / 100000) * ns) / 10000, reduced; kShortPeriodLimit keeps the product
\* of the source below 2^32.
FromNanoSeconds(ns) ==
    IF ns + half_cycle_ns >= kShortPeriodLimit
      THEN FromMicroSeconds((ns + 500) \div 1000)
      ELSE FromSystemClockCycles((2 * (ns + half_cycle_ns)) \div 125)

FromIntegerEventsPerSecond(events) ==
    IF events > 0 THEN FromSystemClockCycles(F_CPU \div events) ELSE Disabled

ToSystemClockCycles(ct) == ct.clock_ticks * ct.divisor
-----------------------------------------------------------------------------
NoNumber  == [to |-> "none", text |-> << >>, result |-> Refused]
NoSetting == [from |-> "none", amount |-> 0, result |-> Disabled]

Decode(to, text, result) ==
    /\ number = NoNumber
    /\ number' = [to |-> to, text |-> text, result |-> result]
    /\ UNCHANGED setting

Configure(from, amount, result) ==
    /\ setting = NoSetting
    /\ setting' = [from |-> from, amount |-> amount, result |-> result]
    /\ UNCHANGED number

\* The caller has used the result.
Taken ==
    /\ conversions # <<NoNumber, NoSetting>>
    /\ number' = NoNumber /\ setting' = NoSetting

ConversionsInit == number = NoNumber /\ setting = NoSetting

ConversionsNext ==
    \/ \E text \in Texts :
           /\ setting = NoSetting
           /\ \/ Decode("uint32", text, to_uint32(text))
              \/ Decode("int32", text, to_int32(text))
              \/ Decode("double", text, to_double(text))
    \/ /\ number = NoNumber
       /\ \/ \E n \in Cycles : Configure("cycles", n, FromSystemClockCycles(n))
          \/ \E n \in Micros : Configure("us", n, FromMicroSeconds(n))
          \/ \E n \in Nanos  : Configure("ns", n, FromNanoSeconds(n))
          \/ \E n \in Events : Configure("events", n, FromIntegerEventsPerSecond(n))
    \/ Taken

ConversionsSpec == ConversionsInit /\ [][ConversionsNext]_conversions
-----------------------------------------------------------------------------
(***************************************************************************)
(* What the conversions should yield, from the meaning of a numeral and of a *)
(* period                                                                    *)
(***************************************************************************)

Digits(text)  == {i \in DOMAIN text : text[i] \in DOMAIN Digit}
\* The number of digits behind position i.
Behind(text, i) == Cardinality({j \in Digits(text) : j > i})
Numeral(text) == MapThenSumSet(LAMBDA i : Digit[text[i]] * 10^Behind(text, i), Digits(text))

IsNumeral(text)  == text # << >> /\ Digits(text) = DOMAIN text
Points(text)     == {i \in DOMAIN text : text[i] = "."}
IsDecimal(text)  ==
    /\ Digits(text) # {} /\ Cardinality(Points(text)) <= 1
    /\ Digits(text) \cup Points(text) = DOMAIN text
Signed(text)     == IF Negative(text) THEN -Numeral(Unsigned(text)) ELSE Numeral(text)

\* A number in a request is decoded as written if its type can hold it, and any
\* other text is refused: no digit, and no sign, wraps at the end of a range.
NumberAsWritten ==
    LET text == number.text
    IN  number.result =
          CASE number.to = "uint32" /\ IsNumeral(text) /\ Numeral(text) <= kMaxUInt ->
                   <<Numeral(text)>>
            [] number.to = "int32" /\ IsNumeral(Unsigned(text))
                  /\ 2 * Signed(text) \in -(kMaxUInt + 1) .. kMaxUInt -> <<Signed(text)>>
            [] number.to = "double" /\ IsDecimal(Unsigned(text)) ->
                   <<Signed(text), 10^(IF Points(text) = {} THEN 0
                                       ELSE Behind(text, Min(Points(text))))>>
            [] OTHER -> Refused

\* The timer counts cycles, down to a tick of the finest clock that can count so
\* far; it is off if there is none.
CountsCycles(cycles, ct) ==
    IF cycles = 0 \/ cycles > kMaxClockTicks * 1024 THEN ct = Disabled
    ELSE /\ ct.divisor \in Divisors /\ ct.clock_ticks \in 1 .. kMaxClockTicks
         /\ cycles - ToSystemClockCycles(ct) \in 0 .. (ct.divisor - 1)
         /\ \A d \in Divisors : d < ct.divisor => cycles > kMaxClockTicks * d

\* A cycle takes 62.5 ns, so the period is 2 * ns / 125 cycles: it is rounded to a
\* cycle, or, if it is long, to a microsecond.
CountsNanos(ns, ct) ==
    LET off == IF ns < kShortPeriodLimit - half_cycle_ns THEN 1 ELSE 8
    IN  \E cycles \in ((2 * ns) \div 125 - off) .. ((2 * ns) \div 125 + 1 + off) :
            CountsCycles(cycles, ct)

\* A timer is set to the period or frequency that was asked for, up to
\* kMaxSystemClockCycles, "the maximum number of system clock cycles to which a
\* 16-bit timer/counter can count", and to the finest clock that can count it.
PeriodAsAsked ==
    LET amount == setting.amount  ct == setting.result
    IN  CASE setting.from = "none"   -> TRUE
          [] setting.from = "cycles" -> CountsCycles(amount, ct)
          [] setting.from = "us"     -> CountsCycles(16 * amount, ct)
          [] setting.from = "ns"     -> CountsNanos(amount, ct)
          [] setting.from = "events" ->
                 CountsCycles(IF amount = 0 THEN 0 ELSE F_CPU \div amount, ct)
=============================================================================
