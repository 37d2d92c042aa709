------------------------------ MODULE MCIngest ------------------------------
(* Two polls of beat and two pulls whose limit exceeds their batch: both    *)
(* kinds may race for the second offer, the pulls also for the third, which *)
(* beat does not see. The prices are those of settings.py but for the       *)
(* margin, which is raised so that the first offer is declined.             *)
EXTENDS Ingest

CONSTANTS beat1, beat2, pull1, pull2

Items == 1..3
Beats == {beat1, beat2}
Pollers == {beat1, beat2, pull1, pull2}
Limits == [r \in Pollers |-> IF r \in Beats THEN 0 ELSE 3]
Sizes == [i \in Items |-> 50]
=============================================================================
