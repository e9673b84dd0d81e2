------------------------------- MODULE Backoff -------------------------------
(***************************************************************************)
(* The delays between attempts: reconnectDelay (internal/pubsub/           *)
(* subscriber.go), backoffDelay (interceptor.go), retry (worker/pool.go).  *)
(*                                                                         *)
(* Run of a subscriber never resets its attempt counter, so the shift in   *)
(* reconnectDelay overflows an int64 of nanoseconds after a quarter of an  *)
(* hour, and is 0 from the 55th on.  A shifted number is the set of the    *)
(* positions of its binary digits.  A second is 2^9 * 1953125 ns, and a    *)
(* shift only adds zeros, so the low nine bits are left out and a duration *)
(* of reconnectDelay is a number of 512 ns in 55 bits, the last of which   *)
(* is the sign.  The other two stay small and are in milliseconds.         *)
(***************************************************************************)
EXTENDS Integers

CONSTANT MaxAttempt   \* the attempts that are looked at

ASSUME BackoffAssumption == MaxAttempt \in Nat

SignBit == 54

Second == {0, 2, 5, 6, 8, 10, 11, 14, 15, 16, 18, 19, 20}
HalfMinute == {1, 2, 4, 6, 7, 8, 12, 17, 18, 19, 20, 21, 22, 24, 25}
TenthSecond == {2, 5, 6}
FiveSeconds == {3, 7, 8, 9, 12}

\* The positions of the binary digits of n.
Digits(n) == {i \in 0..25 : (n \div 2^i) % 2 = 1}

ASSUME DigitsAssumption ==
  /\ Second = Digits(1953125) /\ HalfMinute = Digits(30 * 1953125)
  /\ TenthSecond = Digits(100) /\ FiveSeconds = Digits(5000)

Negative(x) == SignBit \in x

\* x > y, for y that is not negative: the highest digit they differ in is x's.
Exceeds(x, y) == ~Negative(x) /\ \E i \in x \ y : \A j \in y \ x : j < i

\* x << k: what the shift pushes out at the top is lost.
Shifted(x, k) == {i + k : i \in x} \intersect (0..SignBit)

\* Mutant: only a delay that is too long is replaced.
DelayUnchecked(attempt) ==
  LET d == Shifted(Second, attempt) IN IF Exceeds(d, HalfMinute) THEN HalfMinute ELSE d

\* reconnectDelay, before the jitter of a quarter either way, which keeps a
\* positive delay positive.
ReconnectDelay(attempt) ==
  LET d == Shifted(Second, attempt) IN
  IF Exceeds(d, HalfMinute) \/ Negative(d) \/ d = {} THEN HalfMinute ELSE d

\* backoffDelay, before the jitter; the interceptor asks for attempts 0 to 3.
BackoffDelay(attempt) ==
  LET d == Shifted(TenthSecond, attempt) IN IF Exceeds(d, FiveSeconds) THEN FiveSeconds ELSE d

RetryMinDelay == 100
RetryMaxDelay == 10000

\* The delay of retry that follows the delay d.
NextRetryDelay(d) == IF d * 2 < RetryMaxDelay THEN d * 2 ELSE RetryMaxDelay

-----------------------------------------------------------------------------
(* What the delays promise *)

\* The delays of f grow from first to last.
Grow(f(_), n, first, last) ==
  /\ f(0) = first
  /\ \A a \in 0..(n - 1) :
       ~Negative(f(a)) /\ ~Exceeds(f(a), f(a + 1)) /\ ~Exceeds(f(a + 1), last)

\* However often an attempt has failed, the next one waits at least as long as
\* the one before it, from the minimum on and never longer than the maximum: the
\* overflow of the shift causes neither a storm of attempts nor an endless wait.
DelaysGrowToTheMaximum ==
  /\ Grow(ReconnectDelay, MaxAttempt, Second, HalfMinute)
  /\ Grow(BackoffDelay, 3, TenthSecond, FiveSeconds)
  /\ \A d \in RetryMinDelay..RetryMaxDelay : NextRetryDelay(d) \in d..RetryMaxDelay
=============================================================================
