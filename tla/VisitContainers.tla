--------------------------- MODULE VisitContainers ---------------------------
(***************************************************************************)
(* visitContainers (visitor.go) and the pod data the checks read.          *)
(*                                                                         *)
(* A pod spec is a record with the three container collections as          *)
(* sequences; a container is a record whose fields are those a check       *)
(* reads (name, securityContext, ports).  visitContainers calls the        *)
(* visitor for every init, regular and ephemeral container in that order,  *)
(* passing the container's PathFn when field errors are requested and nil  *)
(* otherwise; the model gives the sequence of those calls, each of which a *)
(* check takes as one step.  Indices are Go's 0-based indices.             *)
(***************************************************************************)
EXTENDS Violations, SequencesExt

Collections == <<"initContainers", "containers", "ephemeralContainers">>

(* The loop over one collection: each container with its indexed PathFn,  *)
(* or nil without field errors.                                            *)
visitCollection(podSpec, withFieldErrors, coll, fldPath) ==
    [i \in 1..Len(podSpec[coll]) |->
       [container |-> podSpec[coll][i],
        pathFn    |-> IF withFieldErrors THEN index(fldPath, i - 1) ELSE Nil]]

(* Mutant: ephemeral containers addressed under spec.containers.           *)
visitContainersEphemeralPathSlip(podSpec, withFieldErrors) ==
    visitCollection(podSpec, withFieldErrors, "initContainers", initContainersFldPath)
    \o visitCollection(podSpec, withFieldErrors, "containers", containersFldPath)
    \o visitCollection(podSpec, withFieldErrors, "ephemeralContainers", containersFldPath)

(* Mutant: the ephemeral containers never visited.                        *)
visitContainersNoEphemeral(podSpec, withFieldErrors) ==
    visitCollection(podSpec, withFieldErrors, "initContainers", initContainersFldPath)
    \o visitCollection(podSpec, withFieldErrors, "containers", containersFldPath)

visitContainers(podSpec, withFieldErrors) ==
    visitCollection(podSpec, withFieldErrors, "initContainers", initContainersFldPath)
    \o visitCollection(podSpec, withFieldErrors, "containers", containersFldPath)
    \o visitCollection(podSpec, withFieldErrors, "ephemeralContainers", ephemeralContainersFldPath)

(***************************************************************************)
(* Building the input: every pod spec whose collections hold at most       *)
(* Bound[coll] containers drawn from the set C of container values, named  *)
(* by their slot (Names[coll][i]) so that the output can tell them apart.  *)
(***************************************************************************)
Named(cs, names) == [i \in 1..Len(cs) |-> [cs[i] EXCEPT !.name = names[i]]]

PodSpecsOver(C, Bound, Names, Extra) ==
    { [e EXCEPT !.initContainers      = Named(ic, Names["initContainers"]),
                !.containers          = Named(cc, Names["containers"]),
                !.ephemeralContainers = Named(ec, Names["ephemeralContainers"])] :
        ic \in BoundedSeq(C, Bound["initContainers"]),
        cc \in BoundedSeq(C, Bound["containers"]),
        ec \in BoundedSeq(C, Bound["ephemeralContainers"]),
        e  \in Extra }

(***************************************************************************)
(* The addressing grammar of the spec, written independently of            *)
(* visitContainers and used by the properties of the checks: every slot    *)
(* of the pod in init, regular, ephemeral order with its collection and    *)
(* 0-based index.                                                          *)
(***************************************************************************)
Slots(podSpec) ==
    FlattenSeq(
      [k \in 1..3 |->
         [i \in 1..Len(podSpec[Collections[k]]) |->
            [coll |-> Collections[k], idx |-> i - 1,
             c    |-> podSpec[Collections[k]][i]]]])

SlotPath(s, fields) ==
    Children(<<"spec", s.coll>>) \o <<Idx(s.idx)>> \o Children(fields)

=============================================================================
