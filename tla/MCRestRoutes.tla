----------------------------- MODULE MCRestRoutes -----------------------------
(* An instance of RestRoutes for TLC: two calls whose arguments are the    *)
(* same, or differ in one kind.                                            *)
EXTENDS RestRoutes

Arguments0 == [guild |-> "10", channel |-> "20", webhook |-> "30", token |-> "t",
               id |-> "40", name |-> "m"]
MCArguments ==
    {Arguments0, [Arguments0 EXCEPT !.guild = "11"], [Arguments0 EXCEPT !.channel = "21"],
     [Arguments0 EXCEPT !.webhook = "31"], [Arguments0 EXCEPT !.token = "u"],
     [Arguments0 EXCEPT !.id = "41", !.name = "n"]}
===============================================================================
