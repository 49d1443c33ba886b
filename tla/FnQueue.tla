------------------------------ MODULE FnQueue ------------------------------
(***************************************************************************)
(* What Schedule.h promises of schedule_function(): a bounded FIFO of      *)
(* functions, each run once, in the order in which they were accepted.     *)
(* Cells are allocated on demand and never given back: a function is       *)
(* refused only when every cell allocated so far is in use and no further  *)
(* cell can be had, because the limit is reached or because the heap is    *)
(* exhausted.                                                              *)
(***************************************************************************)
EXTENDS Naturals, Sequences

CONSTANTS Fn,        \* the functions that are scheduled
          NoFn,      \* the empty std::function; also: none is running
          MaxCount   \* SCHEDULED_FN_MAX_COUNT

VARIABLES pending,   \* accepted functions, the running one included
          running,   \* the function being run, or NoFn
          capacity,  \* cells allocated so far
          answer     \* the last schedule_function(): its argument, its result

vars == <<pending, running, capacity, answer>>

Init == /\ pending = <<>>
        /\ running = NoFn
        /\ capacity = 0
        /\ answer = [fn |-> NoFn, ok |-> FALSE]

Accept(f) == /\ Len(pending) < MaxCount
             /\ pending' = Append(pending, f)
             /\ capacity' = IF Len(pending) < capacity THEN capacity ELSE capacity + 1
             /\ answer' = [fn |-> f, ok |-> TRUE]
             /\ UNCHANGED running

Refuse(f) == /\ f = NoFn \/ Len(pending) = capacity
             /\ answer' = [fn |-> f, ok |-> FALSE]
             /\ UNCHANGED <<pending, running, capacity>>

Start == /\ running = NoFn
         /\ pending # <<>>
         /\ running' = Head(pending)
         /\ UNCHANGED <<pending, capacity, answer>>

Finish == /\ running # NoFn
          /\ running' = NoFn
          /\ pending' = Tail(pending)
          /\ UNCHANGED <<capacity, answer>>

Next == \/ \E f \in Fn : Accept(f)
        \/ \E f \in Fn \cup {NoFn} : Refuse(f)
        \/ Start
        \/ Finish

Spec == Init /\ [][Next]_vars
=============================================================================
