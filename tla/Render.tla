------------------------------- MODULE Render -------------------------------
(***************************************************************************)
(* What the checks do to build a ForbiddenDetail, kept to what the         *)
(* properties tell apart: which words, which items, in which order.        *)
(* joinQuote and strings.Join only lay the items out and are abstracted to *)
(* the sequence of items.                                                  *)
(*                                                                         *)
(* Go strings are ordered bytewise.  TLC has no order on strings, so the   *)
(* strings a model uses are listed in byte order in the constant           *)
(* ByteOrder, and sets.String.List() sorts by position in it.  Decimal     *)
(* renderings of numbers (strconv.Itoa) are digit sequences, ordered       *)
(* lexicographically, which is the byte order of their ASCII text.         *)
(***************************************************************************)
EXTENDS Integers, Sequences, SequencesExt

CONSTANT ByteOrder   \* the model's strings, in Go's bytewise order

ASSUME IsInjective(ByteOrder)

Rank(s) == CHOOSE i \in DOMAIN ByteOrder : ByteOrder[i] = s

StrLess(a, b) == Rank(a) < Rank(b)

(* sets.String.List(): the distinct members in increasing order.          *)
SortedList(S) == SetToSortSeq(S, StrLess)

(* pluralize(singular, plural, n) of the policy package helpers.           *)
pluralize(singular, plural, n) == IF n = 1 THEN singular ELSE plural

(* strconv.Itoa of a natural number: its decimal digits.                   *)
RECURSIVE Itoa(_)
Itoa(n) == IF n < 10 THEN <<n>> ELSE Append(Itoa(n \div 10), n % 10)

RECURSIVE DigitsLess(_, _)
DigitsLess(a, b) ==
    CASE a = <<>> -> b # <<>>
      [] b = <<>> -> FALSE
      [] Head(a) # Head(b) -> Head(a) < Head(b)
      [] OTHER -> DigitsLess(Tail(a), Tail(b))

(* sets.NewString of the rendered numbers, then List().                    *)
SortedDecimals(N) == SetToSortSeq({Itoa(n) : n \in N}, DigitsLess)

=============================================================================
