----------------------------- MODULE Violations -----------------------------
(***************************************************************************)
(* The per-check accumulator of violations.go.  A Violations value is the  *)
(* record [data, errs, withFieldErrors]; errs is Nil (the nil              *)
(* *field.ErrorList) unless the accumulator was made with field errors.    *)
(* Add has a pointer receiver in Go and is modelled as the operator giving *)
(* the accumulator after the call.                                         *)
(***************************************************************************)
EXTENDS FieldPath

(* Mutant: the error list allocated whatever the options.                 *)
NewViolationsAlwaysAllocating(withFieldErrors) ==
    [data |-> <<>>, errs |-> <<>>, withFieldErrors |-> withFieldErrors]

NewViolations(withFieldErrors) ==
    [data            |-> <<>>,
     errs            |-> IF withFieldErrors THEN <<>> ELSE Nil,
     withFieldErrors |-> withFieldErrors]

(* Add always appends the label; only with field errors does it call each  *)
(* non-nil ErrFn and append the errors that are not nil.                   *)
Add(v, data, errFns) ==
    LET called == [j \in 1..Len(errFns) |->
                     IF errFns[j] = Nil THEN Nil ELSE CallErrFn(errFns[j])]
        kept   == SelectSeq(called, LAMBDA e : e # Nil)
    IN  [v EXCEPT !.data = Append(@, data),
                  !.errs = IF v.withFieldErrors THEN @ \o kept ELSE @]

Empty(v)          == Len(v.data) = 0
Data(v)           == v.data
ViolationsLen(v)  == Len(v.data)
Errs(v)           == v.errs

=============================================================================
