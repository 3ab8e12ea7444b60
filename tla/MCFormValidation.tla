-------------------------- MODULE MCFormValidation --------------------------
(***************************************************************************)
(* Instances of FormValidation for TLC: a page whose inputs check one      *)
(* another and ask the server, one that gets inputs later, and pages with  *)
(* the other adapters.                                                     *)
(***************************************************************************)
EXTENDS FormValidation

CONSTANTS none, short, long

Email   == <<"Input", "Email">>
Confirm == <<"Input", "Confirm">>
User    == <<"Input", "User">>
Terms   == <<"Terms">>

MCFields == {Email, Confirm, User, Terms}
MCCheckable == {Terms}

MCFacts ==
    (none  :> [length |-> 0, nonword |-> 0, number |-> 0, formats |-> {}, match |-> <<>>])
 @@ (short :> [length |-> 1, nonword |-> 0, number |-> 1, formats |-> {"digits"},
               match |-> [name |-> [index |-> 0, length |-> 1]]])
 @@ (long  :> [length |-> 2, nonword |-> 1, number |-> 2, formats |-> {"url"},
               match |-> [name |-> [index |-> 1, length |-> 1]]])

Nothing == <<>>
Blank == [f \in MCFields |-> none]

\* Two fields that the server is asked about, one with the other's value.
TwoChecks ==
    [dataVal |->
       (Email :> [required |-> Nothing, remote |-> Nothing])
    @@ (User  :> [remote |-> [additionalfields |-> {<<"*", "User">>, <<"*", "Email">>}]]),
     loaded |-> {Email, User},
     initial |-> [Blank EXCEPT ![Email] = short]]

\* A form that comes filled in, with a field that has to equal another.
FilledIn ==
    [dataVal |->
       (Email   :> [required |-> Nothing, remote |-> Nothing])
    @@ (Confirm :> [equalto |-> [other |-> <<"*", "Email">>]]),
     loaded |-> {Email, Confirm},
     initial |-> [Blank EXCEPT ![Email] = short, ![Confirm] = short]]

Extended ==
    [dataVal |->
       (Email :> [required |-> Nothing, length |-> [min |-> 2, max |-> 2]])
    @@ (User  :> [required |-> Nothing, remote |-> Nothing]),
     loaded |-> {User},
     initial |-> Blank]

AllLate ==
    [dataVal |->
       (User  :> [digits |-> Nothing])
    @@ (Terms :> [required |-> Nothing]),
     loaded |-> {},
     initial |-> Blank]

Bounds ==
    [dataVal |->
       (Email :> [maxlength |-> [max |-> 1], minlength |-> [min |-> 1]])
    @@ (User  :> [regex |-> [pattern |-> "name"], required |-> Nothing])
    @@ (Confirm :> [range |-> [min |-> 1, max |-> 1]]),
     loaded |-> {Email, User, Confirm},
     initial |-> Blank]

Mixed ==
    [dataVal |->
       (User  :> [password |-> [min |-> 1, nonalphamin |-> 1]])
    @@ (Email :> [range |-> [max |-> 1], length |-> [min |-> 1], url |-> Nothing])
    @@ (Terms :> [remote |-> [additionalfields |-> {<<"Terms">>, <<"Input", "User">>}]]),
     loaded |-> {User, Email, Terms},
     initial |-> Blank]

MCPages == {TwoChecks, FilledIn, Extended, AllLate, Bounds, Mixed}
=============================================================================
