--------------------------- MODULE MCRp2350Runtime ---------------------------
(* One observation per defect, limits of both kinds and unusable ones.     *)
EXTENDS Rp2350Runtime

MCGood == [finite |-> TRUE, sensor_valid |-> TRUE,
           timing |-> "Healthy", watchdog |-> "Healthy"]
MCObservations ==
  {MCGood,
   [MCGood EXCEPT !.finite = FALSE],
   [MCGood EXCEPT !.sensor_valid = FALSE],
   [MCGood EXCEPT !.timing = "Late"],
   [MCGood EXCEPT !.watchdog = "Expired"]}
MCTimes == 1..6
MCCommands == {-2, 0, 1, 2}
MCLimits ==
  {[max_abs |-> 2, slew |-> 1], [max_abs |-> 1, slew |-> 2],
   [max_abs |-> 3, slew |-> 1], [max_abs |-> 1, slew |-> 0]}
MCRequests == {"SwingUp", "Balance"}
=============================================================================
