----------------------------- MODULE FieldPath -----------------------------
(***************************************************************************)
(* Lazy field paths (paths.go) and the deferred field-error constructors   *)
(* (violations.go: ErrFn, forbidden, required, withBadValue).              *)
(*                                                                         *)
(* A PathFn is either Nil (the Go nil function) or the path it resolves    *)
(* to: every non-nil PathFn of the code is built from withPath of a        *)
(* non-nil path, so it always resolves to a path.  A path is a sequence of *)
(* segments [child |-> name], [index |-> i] and [key |-> k], the three     *)
(* ways field.Path extends a path.                                         *)
(***************************************************************************)
EXTENDS Sequences, Integers

CONSTANT Nil   \* Go nil: absent PathFn, ErrFn, *field.Error or *field.ErrorList

Child(n) == [child |-> n]
Idx(i)   == [index |-> i]
Key(k)   == [key |-> k]

Children(names) == [j \in 1..Len(names) |-> Child(names[j])]

(* withPath: a PathFn that resolves to path, or nil for a nil path.        *)
withPath(path) == IF path = Nil THEN Nil ELSE path

(* parent.index(i), parent.child(name, moreNames...), parent.key(k): nil   *)
(* stays nil without building anything; otherwise one segment is added.   *)
index(parent, i) == IF parent = Nil THEN Nil ELSE Append(parent, Idx(i))

child(parent, names) == IF parent = Nil THEN Nil ELSE parent \o Children(names)

key(parent, k) == IF parent = Nil THEN Nil ELSE Append(parent, Key(k))

(* The package-level paths built at initialisation.                        *)
annotationsPath            == withPath(Children(<<"metadata", "annotations">>))
specPath                   == withPath(Children(<<"spec">>))
initContainersFldPath      == child(specPath, <<"initContainers">>)
containersFldPath          == child(specPath, <<"containers">>)
ephemeralContainersFldPath == child(specPath, <<"ephemeralContainers">>)
securityContextPath        == child(specPath, <<"securityContext">>)
seLinuxOptionsTypePath     == child(securityContextPath, <<"seLinuxOptions", "type">>)
seLinuxOptionsUserPath     == child(securityContextPath, <<"seLinuxOptions", "user">>)
seLinuxOptionsRolePath     == child(securityContextPath, <<"seLinuxOptions", "role">>)

(***************************************************************************)
(* ErrFn: Nil, or a deferred error [type, path, badValue].  forbidden and  *)
(* required return nil for a nil PathFn; withBadValue keeps nil as nil and *)
(* otherwise sets the bad value of the error the closure will build.       *)
(* field.Forbidden(path, "") and field.Required(path, "") both leave the   *)
(* bad value "".                                                           *)
(***************************************************************************)
forbidden(pathFn) ==
    IF pathFn = Nil THEN Nil
    ELSE [type |-> "FieldValueForbidden", path |-> pathFn, badValue |-> ""]

required(pathFn) ==
    IF pathFn = Nil THEN Nil
    ELSE [type |-> "FieldValueRequired", path |-> pathFn, badValue |-> ""]

withBadValue(f, badValue) == IF f = Nil THEN Nil ELSE [f EXCEPT !.badValue = badValue]

(* Calling an ErrFn: the *field.Error, or nil when its path resolves nil.  *)
CallErrFn(f) ==
    IF f.path = Nil THEN Nil
    ELSE [type |-> f.type, field |-> f.path, badValue |-> f.badValue]

=============================================================================
