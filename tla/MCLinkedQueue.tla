--------------------------- MODULE MCLinkedQueue ----------------------------
(* LinkedQueue on two queues that share four elements: enough for an       *)
(* element to be first, in the middle, last, alone, in the wrong queue.    *)
EXTENDS LinkedQueue
=============================================================================
