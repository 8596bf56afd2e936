---------------------------- MODULE MCLvhvServer ----------------------------
(* Model checking instance of LvhvServer: one request for each way through *)
(* the dispatch of handler.c.                                               *)
EXTENDS LvhvServer

Req(n, t, ch, x) == [name |-> n, type |-> t, channel |-> ch, numeric |-> x]

MCRequests == {Req("powerOff", "lv", 6, "finite"),
               Req("powerOff", "lv", 7, "finite"),
               Req("pcb_temp", "pico", 0, "finite"),
               Req("get_vhv", "pico", 12, "finite")}

\* Three requests fit the i2c queue; the second one for a Pico is dropped.
MCQueueSize == [q \in Queues |-> IF q = "i2c" THEN 3 ELSE 1]
=============================================================================
