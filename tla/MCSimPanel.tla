------------------------------ MODULE MCSimPanel ------------------------------
(***************************************************************************)
(* Instance of SimPanel: one button of each kind gui.csv has that differs  *)
(* in what the mouse does: latched push (tMnn), momentary push and pull,   *)
(* lit (tmtb), and momentary pull with one contact (tntn); two signals     *)
(* that share their white lamp, as those of gui.csv's tracks do, and an    *)
(* indicator of the red lamp of one of them.                               *)
(***************************************************************************)
EXTENDS SimPanel

CONSTANTS tMnn, tmtb, tntn, p1, p2, ic

MCButtons == {tMnn, tmtb, tntn}
MCDesign ==
  [b \in MCButtons |-> CASE b = tMnn -> [push |-> "M", pull |-> "n", color |-> "n"]
                         [] b = tmtb -> [push |-> "m", pull |-> "t", color |-> "b"]
                         [] b = tntn -> [push |-> "n", pull |-> "t", color |-> "n"]]
MCWiring ==
  [b \in MCButtons |-> CASE b = tMnn -> [push |-> 8, pull |-> Unwired, lamp |-> Unwired]
                         [] b = tmtb -> [push |-> 2, pull |-> 3, lamp |-> 1]
                         [] b = tntn -> [push |-> Unwired, pull |-> 1, lamp |-> Unwired]]
MCSignals == {p1, p2}
MCLamps   == [s \in MCSignals |-> [white |-> 4, red |-> IF s = p1 THEN 5 ELSE 6]]
MCIndicators == {ic}
MCBulb    == [i \in MCIndicators |-> 5]
MCOutputs == {1, 4, 5, 6}
=============================================================================
