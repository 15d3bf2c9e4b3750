------------------------------ MODULE Backoff ------------------------------
(***************************************************************************)
(* The delay after which errorBackoff (valssecret_controller.go) has a     *)
(* failed ValsSecret requeued: the minimum and a power of one and a half   *)
(* seconds, computed as a float, converted to a 64-bit count of            *)
(* nanoseconds, clamped and jittered.  The width of the count, and with it *)
(* the number of errors after which it overflows, is a constant.           *)
(***************************************************************************)
EXTENDS Integers

CONSTANTS
    Second,       \* time.Second
    minBackoff,
    maxBackoff,
    Limit,        \* 2^63: durations are the integers from -Limit to Limit - 1
    Beyond        \* bound: from so many errors on the power is past Limit

ASSUME BackoffAssumption ==
    /\ Second \in Nat \ {0} /\ minBackoff \in Nat \ {0} /\ Limit \in Nat /\ Beyond \in Nat \ {0}
    /\ maxBackoff \in minBackoff .. Limit - 1
    /\ maxBackoff + maxBackoff \div 10 < Limit
    /\ 3 ^ Beyond >= Limit * 2 ^ Beyond

\* What the powers below are, up to the bound; the provers know nothing of them.
ASSUME PowersAssumption ==
    \A n \in 1 .. Beyond : /\ 2 ^ (n - 1) > 0 /\ 2 ^ n = 2 * 2 ^ (n - 1)
                           /\ 3 ^ (n - 1) > 0 /\ 3 ^ n = 3 * 3 ^ (n - 1)

\* The definitions with an underscore in their name are not part of the model:
\* each is a mistake the code could make, and some property fails with it.

\* math.Round(math.Pow(1.5, n)), for n > 0.
Power(n) == IF n >= Beyond THEN Limit ELSE (3 ^ n + 2 ^ (n - 1)) \div 2 ^ n

\* A float that is out of range becomes the least Duration on amd64 and the
\* greatest on arm64.
Converted(x) == IF x < Limit THEN {x} ELSE {-Limit, Limit - 1}

\* Arithmetic on durations wraps.
Wrapped(d) == ((d + Limit) % (2 * Limit)) - Limit

Clamped_AboveOnly(d) == IF d > maxBackoff THEN maxBackoff ELSE d

Clamped_ToMinimum(d) == IF d < minBackoff \/ d > maxBackoff THEN minBackoff ELSE d

Clamped(d) ==
    IF d < minBackoff THEN minBackoff ELSE IF d > maxBackoff THEN maxBackoff ELSE d

Backoffs(n) ==
    {Clamped(Wrapped(minBackoff + Wrapped(Second * c))) : c \in Converted(Power(n))}

\* With the jitter of a tenth, up or down.
Delays(n) == UNION {b - b \div 10 .. b + b \div 10 : b \in Backoffs(n)}
=============================================================================
