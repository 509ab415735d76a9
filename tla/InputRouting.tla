----------------------------- MODULE InputRouting -----------------------------
(***************************************************************************)
(* Where the fields of one input object go                                 *)
(* (src/typescript/src/input-routes-v2.ts, params.ts): synthesis gives     *)
(* every parameter and body property a field name of its own, a routed     *)
(* envelope carries that table with the value, and the run puts each field *)
(* at the declaration it stands for.  A flat input is routed by name.      *)
(*                                                                         *)
(* An interface has params, a sequence of [in, name, required], and plans, *)
(* a sequence of body candidates [sort, props, required] of sort json (an  *)
(* open object), form (a closed one) or whole.  A name is a sequence: a    *)
(* stem and the numeric suffixes that were added to it.                    *)
(***************************************************************************)
EXTENDS Naturals, Sequences, FiniteSets, SequencesExt

CONSTANT RouteCases       \* [interface, supplied]

IsName(n) == Len(n) \in Nat /\ n = [i \in 1 .. Len(n) |-> n[i]]

ASSUME RouteAssumption ==
    \A c \in RouteCases :
        LET params == c.interface.params
            plans == c.interface.plans
        IN /\ params \in Seq(ToSet(params)) /\ \A i \in DOMAIN params : IsName(params[i].name)
           /\ \A i, j \in DOMAIN params : i # j => <<params[i].in, params[i].name>> # <<params[j].in, params[j].name>>
           /\ \A i \in DOMAIN plans : /\ IsFiniteSet(plans[i].props) /\ \A n \in plans[i].props : IsName(n)
                                      /\ plans[i].sort \in {"json", "form", "whole"}
                                      /\ plans[i].sort = "whole" => plans[i].props = {}
           /\ plans \in Seq(ToSet(plans))

VARIABLE routing          \* the case that is routed; none in another use of the module

WholeField == <<"payload">>
SyntheticField == <<"body">>

(***************************************************************************)
(* The routes.                                                             *)
(***************************************************************************)
BodyProps(plans) == UNION {plans[i].props : i \in {k \in DOMAIN plans : plans[k].sort # "whole"}}
HasWhole(plans) == \E i \in DOMAIN plans : plans[i].sort = "whole"

ParameterSlot(p) == [kind |-> "parameter", at |-> p.in, name |-> p.name, base |-> p.name]
BodySlot(n) == [kind |-> "body", at |-> "", name |-> n, base |-> n]
WholeSlot == [kind |-> "whole", at |-> "", name |-> <<>>, base |-> WholeField]

Slots(interface) ==
    [i \in DOMAIN interface.params |-> ParameterSlot(interface.params[i])]
    \o SetToSeq({BodySlot(n) : n \in BodyProps(interface.plans)})
    \o (IF HasWhole(interface.plans) THEN <<WholeSlot>> ELSE <<>>)

(* Mutant: a suffix need only differ from the names given so far.           *)
ForgetfulSuffix(base, used, bases) ==
    CHOOSE k \in 2 .. Cardinality(bases) + Cardinality(used) + 2 :
        /\ Append(base, k) \notin used
        /\ \A j \in 2 .. k - 1 : Append(base, j) \in used

(* The first suffix that gives neither a used name nor an authored one.     *)
Suffix(base, used, bases) ==
    CHOOSE k \in 2 .. Cardinality(bases) + Cardinality(used) + 2 :
        /\ Append(base, k) \notin used \cup bases
        /\ \A j \in 2 .. k - 1 : Append(base, j) \in used \cup bases

NextField(base, fields, bases) ==
    IF base \in ToSet(fields) THEN Append(base, Suffix(base, ToSet(fields), bases)) ELSE base

FieldNames(slots) ==
    LET bases == {slots[i].base : i \in DOMAIN slots}
        after[n \in 0 .. Len(slots)] ==
            IF n = 0 THEN <<>> ELSE Append(after[n - 1], NextField(slots[n].base, after[n - 1], bases))
    IN after[Len(slots)]

(* routes: the slot and the field of each.                                  *)
Routes(interface) ==
    LET slots == Slots(interface)
        fields == FieldNames(slots)
    IN {[kind |-> slots[i].kind, at |-> slots[i].at, name |-> slots[i].name, field |-> fields[i]] : i \in DOMAIN slots}

(***************************************************************************)
(* The envelope, as it is read back and held against the declarations.     *)
(***************************************************************************)
WellFormedRoutes(routes) ==
    \A r, s \in routes : r # s => r.field # s.field /\ <<r.kind, r.at, r.name>> # <<s.kind, s.at, s.name>>

KnownRoutes(interface, routes) ==
    /\ \A r \in {q \in routes : q.kind = "parameter"} :
          \E i \in DOMAIN interface.params : interface.params[i].in = r.at /\ interface.params[i].name = r.name
    /\ {r.name : r \in {q \in routes : q.kind = "body"}} \subseteq BodyProps(interface.plans)
    /\ (\E r \in routes : r.kind = "whole") => HasWhole(interface.plans)

NoPlan == [sort |-> "none", props |-> {}, required |-> FALSE]

(* supplied: the fields of the input object.                                *)
Rejected == [refused |-> TRUE]

RouteEnvelope(interface, plan, routes, supplied) ==
    LET parameters == {r \in routes : r.kind = "parameter" /\ r.field \in supplied}
        present(p) == \E r \in parameters : r.at = p.in /\ r.name = p.name
        body == {r \in routes : r.field \in supplied
                                /\ \/ r.kind = "whole" /\ plan.sort = "whole"
                                   \/ r.kind = "body" /\ plan.sort \in {"json", "form"} /\ r.name \in plan.props}
        rest == supplied \ {r.field : r \in parameters \cup body}
    IN IF \/ \E i \in DOMAIN interface.params : LET p == interface.params[i]
                                                IN (p.in = "path" \/ p.required) /\ ~present(p)
          \/ rest # {} /\ plan.sort # "json"
       THEN Rejected
       ELSE [refused |-> FALSE,
             places |-> {<<r.kind, r.at, r.name, r.field>> : r \in parameters \cup body}
                        \cup {<<"body", "", f, f>> : f \in rest}]

(* A flat input is routed by name alone.                                    *)
AmbiguousName(interface, supplied) ==
    \E i, j \in DOMAIN interface.params : i # j /\ interface.params[i].name = interface.params[j].name
                                          /\ interface.params[i].name \in supplied

RouteInput(interface, plan, supplied) ==
    LET named == {interface.params[i] : i \in DOMAIN interface.params}
        taken == {p \in named : p.name \in supplied}
        rest == supplied \ {p.name : p \in taken}
    IN IF \/ AmbiguousName(interface, supplied)
          \/ \E p \in named \ taken : p.in = "path" \/ p.required
          \/ plan.sort = "none" /\ rest # {}
          \/ plan.sort = "whole" /\ ~(rest \subseteq {SyntheticField})
          \/ plan.sort \in {"json", "form"} /\ plan.props \cap {p.name : p \in taken} # {}
       THEN Rejected
       ELSE [refused |-> FALSE,
             places |-> {<<"parameter", p.in, p.name, p.name>> : p \in taken}
                        \cup {IF plan.sort = "whole" THEN <<"whole", "", <<>>, f>> ELSE <<"body", "", f, f>> : f \in rest}]

(***************************************************************************)
(* Every supplied field goes to exactly one place and every place gets one *)
(* field; through the routes that place is the declaration the field was   *)
(* made for, whatever names the declarations share, and a declaration      *)
(* whose name no other shares keeps it (input-routes-v2.ts                 *)
(* planAbstractInputRoutes, parseRoutedEnvelope, routeEnvelope; params.ts  *)
(* routeInput).                                                            *)
(***************************************************************************)
OneToOne(routed, supplied) ==
    /\ {p[4] : p \in routed.places} = supplied
    /\ \A p, q \in routed.places : p # q => p[4] # q[4] /\ <<p[1], p[2], p[3]>> # <<q[1], q[2], q[3]>>

EveryFieldHasItsPlace(interface, plan, supplied) ==
    LET routes == Routes(interface)
        routed == RouteEnvelope(interface, plan, routes, supplied)
        flat == RouteInput(interface, plan, supplied)
    IN /\ WellFormedRoutes(routes) /\ KnownRoutes(interface, routes)
       /\ \A r \in routes : r.kind # "whole" /\ (\A s \in routes : s.name = r.name => s = r) => r.field = r.name
       /\ ~routed.refused => /\ OneToOne(routed, supplied)
                             /\ \A r \in routes : r.kind # "whole" /\ r.field \in supplied =>
                                   \/ <<r.kind, r.at, r.name, r.field>> \in routed.places
                                   \/ r.kind = "body" /\ r.name \notin plan.props
       /\ ~flat.refused => OneToOne(flat, supplied)

(* Each supplied field has one place, its own (input-routes-v2.ts,          *)
(* params.ts routeInput).                                                   *)
FieldsHavePlaces ==
    \A c \in routing : \A plan \in ToSet(c.interface.plans) \cup {NoPlan} :
        EveryFieldHasItsPlace(c.interface, plan, c.supplied)

RoutingInit == \E c \in RouteCases : routing = {c}
RoutingSpec == RoutingInit /\ [][UNCHANGED routing]_routing
=============================================================================
