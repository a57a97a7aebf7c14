----------------------------- MODULE WhioFetch ------------------------------
(***************************************************************************)
(* Fetching: reads into a whio_fetch_result, whose buffer is made to        *)
(* measure, used again while it is long enough, and made longer otherwise. *)
(* An allocation may fail and a read may be short.  After a call whose      *)
(* behaviour is undefined nothing more is modelled.                         *)
(***************************************************************************)
EXTENDS Integers, Sequences

CONSTANTS
  Content,  \* what the device holds from its position on
  MaxFetch  \* bound on the bytes to fetch at a time

FetchAssumption == MaxFetch \in Nat /\ Content \in Seq(Nat \ {0})

VARIABLES
  result,  \* the whio_fetch_result, NoResult when there is none
  left     \* what the device still holds

vars == <<result, left>>

\* A buffer has two bytes at least.
Null == <<0>>   \* a null pointer
Unset == <<1>>  \* a pointer that nothing was assigned to, and that is not null by chance

\* given is what the device gave at the last call, and rc what that call returned.
Result(data, alloced, requested, read, given) ==
  [data |-> data, alloced |-> alloced, requested |-> requested, read |-> read,
   given |-> given, rc |-> "OK"]

NoResult == Result(Null, -1, 0, 0, <<>>)

Init == result = NoResult /\ left = Content

-----------------------------------------------------------------------------
Zeros(n) == [k \in 1..n |-> 0]

\* The device reads up to n bytes into the buffer.
ReadInto(buffer, n) ==
  \E k \in 0..n :
    /\ k <= Len(left)
    /\ result' = Result([b \in DOMAIN buffer |-> IF b <= k THEN left[b] ELSE buffer[b]],
                        Len(buffer), n, k, SubSeq(left, 1, k))
    /\ left' = SubSeq(left, k + 1, Len(left))

\* With n = 0 the pointer to the data is what was in the memory of the result.
Fetch ==
  /\ result = NoResult
  /\ \E n \in 0..MaxFetch :
       \/ /\ n = 0
          /\ \E p \in {Null, Unset} : result' = Result(p, 0, 0, 0, <<>>)
          /\ UNCHANGED left
       \/ n > 0 /\ ReadInto(Zeros(n + 1), n)

\* There is a result, and no call on it was undefined.
Held == result # NoResult /\ result.rc # "undefined"

\* Whether free and realloc may be given the data.
Allocated == result.data # Unset

\* They are given a pointer that malloc did not return.
GivenUnset ==
  /\ ~Allocated
  /\ result' = [result EXCEPT !.rc = "undefined"]
  /\ UNCHANGED left

\* A result of the caller's own that holds nothing yet.
NewResult ==
  /\ result = NoResult
  /\ result' = Result(Null, 0, 0, 0, <<>>)
  /\ UNCHANGED left

\* Mutant: the buffer is used again when it is one byte short.
TooShortLoose(n) == result.data = Null \/ result.alloced < n - 1

TooShort(n) == result.data = Null \/ result.alloced < n

\* Mutant: the rest of what was there stays in a buffer that is used again.
ClearedNot(n) == result.data

\* Only the first n bytes are cleared.
Cleared(n) == [b \in DOMAIN result.data |-> IF b <= n THEN 0 ELSE result.data[b]]

FetchAgain ==
  /\ Held
  /\ \E n \in 0..MaxFetch :
       \/ /\ n = 0
          /\ result' = [result EXCEPT !.requested = 0, !.read = 0, !.given = <<>>,
                                      !.rc = "OK"]
          /\ UNCHANGED left
       \/ n > 0 /\ TooShort(n) /\ GivenUnset
       \/ /\ n > 0 /\ TooShort(n) /\ Allocated
          /\ \/ /\ result' = [result EXCEPT !.read = 0, !.given = <<>>,
                                            !.rc = "AllocError"]
                /\ UNCHANGED left
             \/ ReadInto(Zeros(n + 1), n)
       \/ n > 0 /\ ~TooShort(n) /\ ReadInto(Cleared(n), n)

FetchFree ==
  /\ Held
  /\ \/ GivenUnset
     \/ Allocated /\ result' = NoResult /\ UNCHANGED left

FetchFreeData ==
  /\ Held
  /\ \/ GivenUnset
     \/ /\ Allocated
        /\ result' = [result EXCEPT !.data = Null, !.alloced = 0]
        /\ UNCHANGED left

Next == Fetch \/ NewResult \/ FetchAgain \/ FetchFree \/ FetchFreeData

Spec == Init /\ [][Next]_vars

-----------------------------------------------------------------------------
\* "The returned object must be passed to whio_dev_fetch_free()" (whio_dev.h:634).  That is
\* sound, and so is every other call, but for what whio_dev_fetch made for no bytes:
\* whio_dev.c:271 returns before the pointer is set.
OnlyOfNothing == result.data = Unset /\ result.alloced = 0 /\ result.requested = 0

\* No call on a result is undefined but those that are OnlyOfNothing.  While there is
\* data, it has room for what was asked for, and after a call that did not fail it begins
\* with what the device gave and zeros, never with bytes of an earlier fetch.  (The 0 that
\* whio_dev_fetch puts behind it may be missing after a whio_dev_fetch_r that fits
\* exactly, or be a byte of an earlier one.)
FetchTold ==
  /\ result.rc = "undefined" => OnlyOfNothing
  /\ result.data \notin {Null, Unset} =>
       /\ Len(result.data) = result.alloced /\ result.requested <= result.alloced
       /\ result.rc = "OK" =>
            SubSeq(result.data, 1, result.requested)
              = result.given \o Zeros(result.requested - result.read)
=============================================================================
