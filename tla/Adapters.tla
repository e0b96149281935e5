------------------------------ MODULE Adapters ------------------------------
(***************************************************************************)
(* jquery.validate.unobtrusive.js, its first half: the adapters turn the   *)
(* data-val-* attributes of an input into the rules that its form is       *)
(* validated by.  An input is a record: is it a check box, which           *)
(* data-val-<adapter> attributes does it carry and with which parameters   *)
(* (attrs), which inputs its equalto and remote adapters name (other, and  *)
(* fields for additionalfields).                                           *)
(*                                                                         *)
(* An adapter is a record too: its name, the parameters it asks the input  *)
(* for, and the rules it sets, as a function of the parameters given.  A   *)
(* rule is a pair: its name, and whether its value is defined.             *)
(***************************************************************************)
EXTENDS Naturals, FiniteSets, Sequences

CONSTANT Undefined      \* an argument the caller leaves out

Set(rule) == {<<rule, TRUE>>}

Or(attribute, default) == IF attribute = Undefined THEN default ELSE attribute

AddBool(name) == [name |-> name, params |-> {}, adapt |-> [given \in {{}} |-> Set(name)]]

\* The rule's value is params[attribute], whatever attribute is; a missing one
\* reads params["undefined"].
AddSingleVal(name, attribute, rule) ==
    LET asked == {Or(attribute, "val")}
    IN  [name |-> name, params |-> asked,
         adapt |-> [given \in SUBSET asked |-> {<<rule, attribute \in given>>}]]

\* The input is asked for minAttribute and maxAttribute, the adapter looks at
\* params.min and params.max.
AddMinMax(name, min, max, minmax, minAttribute, maxAttribute) ==
    LET asked == {Or(minAttribute, "min"), Or(maxAttribute, "max")}
    IN  [name |-> name, params |-> asked,
         adapt |-> [given \in SUBSET asked |->
             CASE {"min", "max"} \subseteq given -> Set(minmax)
               [] given \cap {"min", "max"} = {"min"} -> Set(min)
               [] given \cap {"min", "max"} = {"max"} -> Set(max)
               [] OTHER -> {}]]

\* min, nonalphamin and regex, each when it is given.
Password ==
    LET rule == [min |-> "minlength", nonalphamin |-> "nonalphamin", regex |-> "regex"]
    IN  [name |-> "password", params |-> DOMAIN rule,
         adapt |-> [given \in SUBSET DOMAIN rule |-> {<<rule[p], TRUE>> : p \in given}]]

\* In the order they are registered in, which is the order that an input's rules
\* are checked in.  The portal loads no additional methods: there is no
\* "extension" method, and the extension attribute falls back on the accept rule.
Adapters ==
    <<AddSingleVal("extension", "extension", "accept"),
      AddSingleVal("regex", "pattern", "regex"),
      AddBool("creditcard"), AddBool("date"), AddBool("digits"),
      AddBool("email"), AddBool("number"), AddBool("url"),
      AddMinMax("length", "minlength", "maxlength", "rangelength", Undefined, Undefined),
      AddMinMax("range", "min", "max", "range", Undefined, Undefined),
      AddMinMax("minlength", "minlength", Undefined, Undefined, Undefined, Undefined),
      AddMinMax("maxlength", "minlength", "maxlength", Undefined, Undefined, Undefined),
      AddSingleVal("equalto", "other", "equalTo"),
      AddBool("required"),
      AddBool("remote"),
      Password,
      AddSingleVal("fileextensions", "extensions", "extension")>>

\* A check box is not "required": jQuery Validate would read it as mandatory.
Skips(input, adapter) == adapter.name = "required" /\ input.checkbox

\* The rules of one adapter: none unless data-val-<name> is there.
SetBy(input, adapter) ==
    IF adapter.name \in DOMAIN input.attrs /\ ~Skips(input, adapter)
    THEN adapter.adapt[adapter.params \cap input.attrs[adapter.name]] ELSE {}

\* parseElement: what the adapters set, and __dummy__, so that the input has a
\* rule and is checked in any case.
Parse(input) ==
    Set("__dummy__") \cup UNION {SetBy(input, Adapters[i]) : i \in DOMAIN Adapters}

First(places) == CHOOSE i \in places : \A j \in places : i <= j

\* Where a rule comes in the check of its input: where the first adapter that
\* sets it is, but required is moved to the front and remote to the back.
Place(input, rule) ==
    CASE rule = "required" -> 0
      [] rule \in {"__dummy__", "remote"} ->
           Len(Adapters) + (IF rule = "remote" THEN 2 ELSE 1)
      [] OTHER ->
           First({i \in DOMAIN Adapters : rule \in {r[1] : r \in SetBy(input, Adapters[i])}})

\* The validator deep-copies its options, which leaves out undefined values.
Copied(rules) == {rule[1] : rule \in {r \in rules : r[2]}}

Parsed(input) == DOMAIN input.attrs # {}    \* data-val="true"
=============================================================================
