------------------------------ MODULE DiskRing ------------------------------
(***************************************************************************)
(* The disk manager of ppos_disk.c on the ring of ReadyRing: its           *)
(* queue_append and queue_remove on user_tasks_queue run with lock_kernel  *)
(* at 0, and wake_driver, on top of whatever context the signal of the     *)
(* disk interrupts, operates on it too.  The semaphore is s_access.        *)
(*                                                                         *)
(* The other modules take one operation on a queue as one step.  OneStep   *)
(* is what they rest on, up to torn, the event that is TearRing in         *)
(* DiskManager.                                                            *)
(***************************************************************************)
EXTENDS ReadyRing

CONSTANTS
  Driver,    \* disk.driver
  Clients    \* the tasks that call disk_block_read, each once

ASSUME DiskRingAssumption ==
  /\ Driver \in Tasks /\ Clients \subseteq Tasks \ {Driver}
  /\ ToSet(ready) = Tasks \ (Clients \cup {Driver})

VARIABLES
  requests,    \* the requesters in disk.queue
  armed,       \* the disk works on a request
  sig_disk,
  asked,       \* the clients that have made their call
  torn         \* an operation was interrupted inside, the kernel not locked

disk     == << requests, armed, sig_disk, asked >>
ringVars == << vars, disk, torn >>

DiskRingInit ==
  /\ Init /\ requests = << >> /\ armed = FALSE /\ sig_disk = FALSE
  /\ asked = {} /\ torn = FALSE

disk_block_read(t) ==
  /\ t \notin asked /\ asked' = asked \cup {t}
  /\ Begin(t, << Do("down"), Do("ask"), Do("up"), Do("suspend"),
                 Drop(UserQ, t), Do("switch") >>)
  /\ UNCHANGED << ring, current, lock_kernel, live, suspended, counter,
                  requests, armed, sig_disk >>

driver_proc ==
  /\ Begin(Driver, << Do("down"), Do("finish"), Do("command"), Do("up"),
                      Do("suspend"), Drop(UserQ, Driver), Do("switch") >>)
  /\ UNCHANGED << ring, current, lock_kernel, live, suspended, counter, disk >>

(* The statements between the operations on the queues of tasks. *)
Ask ==
  /\ Now("ask") /\ requests' = Append(requests, current)
  /\ Then(IF Driver \in suspended THEN << Put(UserQ, Driver) >> ELSE << >>)
  /\ suspended' = suspended \ {Driver}
  /\ UNCHANGED << armed, sig_disk >>

(* With an empty disk.queue first->requester is a NULL dereference. *)
Finish ==
  /\ Now("finish")
  /\ \/ ~sig_disk /\ Then(<< >>) /\ UNCHANGED << requests, suspended >>
     \/ /\ sig_disk /\ requests # << >> /\ requests' = Tail(requests)
        /\ suspended' = suspended \ {Head(requests)}
        /\ Then(<< Put(UserQ, Head(requests)), Do("clear") >>)
  /\ UNCHANGED << armed, sig_disk >>

Clear ==
  /\ Now("clear") /\ sig_disk' = FALSE /\ Then(<< >>)
  /\ UNCHANGED << requests, suspended, armed >>

Command ==
  /\ Now("command") /\ armed' = (armed \/ requests # << >>) /\ Then(<< >>)
  /\ UNCHANGED << requests, suspended, sig_disk >>

SuspendSelf ==
  /\ Now("suspend") /\ suspended' = suspended \cup {current} /\ Then(<< >>)
  /\ UNCHANGED << requests, armed, sig_disk >>

DiskStatement ==
  /\ Ask \/ Finish \/ Clear \/ Command \/ SuspendSelf
  /\ UNCHANGED << ring, current, lock_kernel, live, counter, asked >>

(* The disk is done.  SIGUSR1 is blocked in a context until its handler    *)
(* has returned.                                                           *)
wake_driver ==
  /\ armed /\ armed' = FALSE /\ sig_disk' = TRUE
  /\ suspended' = suspended \ {Driver}
  /\ Do("handled") \notin ToSet(work[current])
  /\ work' = [work EXCEPT ![current] =
                << Put(UserQ, Driver), Do("handled") >> \o @]
  /\ UNCHANGED << ring, current, lock_kernel, live, counter, requests, asked >>

Handled ==
  /\ Now("handled") /\ Then(<< >>)
  /\ UNCHANGED << ring, current, lock_kernel, live, suspended, counter, disk >>

(* The other tasks create the driver, in disk_mgr_init, and then clients.  *)
Programs ==
  \/ \E t \in Clients : disk_block_read(t)
  \/ \E t \in asked : task_exit(t) /\ UNCHANGED disk
  \/ /\ \E t \in ToSet(ready) :
          \/ Driver \notin live /\ task_create(t, Driver)
          \/ /\ Driver \in live
             /\ \E new \in Clients \ asked : task_create(t, new)
          \/ Driver \in live /\ task_exit(t)
     /\ UNCHANGED disk

DiskRingNext ==
  /\ ~Crash
  /\ \/ /\ \/ Kernel /\ UNCHANGED disk
           \/ Programs \/ driver_proc \/ DiskStatement \/ Handled
        /\ UNCHANGED torn
     \/ /\ wake_driver
        /\ torn' = (torn \/ Inside(current))
     \/ /\ Preempt /\ UNCHANGED disk
        /\ torn' = (torn \/ (lock_kernel = 0 /\ Inside(current)))

DiskRingSpec == DiskRingInit /\ [][DiskRingNext]_ringVars
-----------------------------------------------------------------------------
(* The context that runs finds every operation on the queues of tasks done *)
(* or not begun, unless it is inside one itself, and no pointer on its way *)
(* is NULL: lock_kernel sees to that in the kernel, wherever the timer     *)
(* preempts and the disk interrupts, up to the first time that either of   *)
(* them falls into an operation that nothing guards against it.            *)
OneStep == ~torn => ~RingBreaks /\ (Inside(current) \/ RingsWhole)
=============================================================================
