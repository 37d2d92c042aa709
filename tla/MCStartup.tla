----------------------------- MODULE MCStartup -----------------------------
(* Startup by docker compose and by hand, with every name the programs      *)
(* import in place and as it is committed; with docker compose also where   *)
(* the migration and the worker find their names and the API does not.      *)
EXTENDS Startup

BothWays == {Compose(Absentees), Local(Absentees), Compose({}), Local({}),
             Compose(Needs["worker"])}
ComposeOnly == {Compose(Absentees)}
=============================================================================
