---------------------------- MODULE MCValidation ----------------------------
(* A form of four inputs: the server checks mail, in view of code; code is  *)
(* a password that has to repeat mail; paper, shown and hidden by a script, *)
(* has a rule without a method; and a script adds note after the page is    *)
(* ready, so that its rules are never enforced.                             *)
EXTENDS Validation

Plain(attrs) == [checkbox |-> FALSE, attrs |-> attrs, fields |-> {}, other |-> "mail"]

FourForm ==
    [mail  |-> [Plain([required |-> {}, remote |-> {}, regex |-> {"pattern"}])
                    EXCEPT !.fields = {"code"}],
     code  |-> Plain([password |-> {"min", "nonalphamin"}, equalto |-> {"other"}]),
     paper |-> Plain([fileextensions |-> {"extensions"}]),
     note  |-> Plain([required |-> {}])]

FourValues == [mail |-> Value, code |-> Value, paper |-> {"good"}, note |-> {"good"}]

FourBelow == [mail |-> {"code", "paper", "note"}, code |-> {"paper", "note"},
              paper |-> {"note"}, note |-> {}]

FourBoxes == [mail |-> "replace", code |-> "keep", paper |-> "replace", note |-> "none"]
=============================================================================
