---------------------------- MODULE MCExchangeQueue ----------------------------
(* ExchangeQueue with two processes: "app" alone writes to the GUI's queue,    *)
(* both write to the queue of the Python scripts.                              *)
EXTENDS ExchangeQueue

MCWriters == [n \in Name |-> IF n = "gui" THEN {"app"} ELSE {"app", "script"}]
=============================================================================
