------------------------------ MODULE Schedule ------------------------------
(***************************************************************************)
(* Scheduled functions (cores/esp8266/Schedule.cpp): the singly linked     *)
(* queue sFirst..sLast, the free list sUnused and run_scheduled_functions, *)
(* which the CONT stack runs after every loop(), one memory access or      *)
(* critical section per step.  schedule_function() is one step: it holds   *)
(* an InterruptLock.  It is called by loop(), by scheduled functions, by   *)
(* SYS callbacks whenever CONT is suspended and, when IsrCallers, by       *)
(* interrupt handlers between any two steps of CONT.                       *)
(***************************************************************************)
EXTENDS Naturals, Sequences

CONSTANTS Fn,          \* the functions that are scheduled
          NoFn,        \* the empty std::function
          MaxCount,    \* SCHEDULED_FN_MAX_COUNT
          MaxDepth,    \* bound: nested run_scheduled_functions() calls
          IsrCallers   \* do interrupt handlers call schedule_function()?

ASSUME ScheduleAssumption == /\ MaxCount \in Nat \ {0}
                             /\ MaxDepth \in Nat \ {0}
                             /\ IsrCallers \in BOOLEAN
                             /\ NoFn \notin Fn

NULL == 0
Item == 1..MaxCount      \* heap cells, in the order in which new returns them
Pointer == 0..MaxCount

VARIABLES sFirst, sLast, sUnused, sCount,
          mNext, mFunc,  \* the two fields of every cell
          pc,            \* where CONT is
          frames,        \* activations of run_scheduled_functions()
          answer         \* the last schedule_function(): argument and result

queue == <<sFirst, sLast, sUnused, sCount, mNext, mFunc>>
vars == <<queue, pc, frames, answer>>

(* An activation: the local variables stop and done, and the cell whose    *)
(* function it called last.                                                *)
Frame == [stop : Pointer, done : BOOLEAN, cur : Pointer]

TypeOK == /\ sFirst \in Pointer /\ sLast \in Pointer /\ sUnused \in Pointer
          /\ sCount \in 0..MaxCount
          /\ mNext \in [Item -> Pointer]
          /\ mFunc \in [Item -> Fn \cup {NoFn}]
          /\ pc \in {"loop", "test", "calling", "yielding"}
          /\ frames \in Seq(Frame)
          /\ answer \in [fn : Fn \cup {NoFn}, ok : BOOLEAN]

Init == /\ sFirst = NULL /\ sLast = NULL /\ sUnused = NULL /\ sCount = 0
        /\ mNext = [i \in Item |-> NULL]
        /\ mFunc = [i \in Item |-> NoFn]
        /\ pc = "loop"
        /\ frames = <<>>
        /\ answer = [fn |-> NoFn, ok |-> FALSE]

top == Len(frames)

-----------------------------------------------------------------------------
(* schedule_function() *)

(* get_fn_unsafe() finds a cell: an unused one first, else a new one below *)
(* the limit.                                                              *)
Grant(item) == \/ /\ sUnused # NULL
                  /\ item = sUnused
                  /\ sUnused' = mNext[sUnused]
                  /\ UNCHANGED sCount
               \/ /\ sUnused = NULL
                  /\ sCount < MaxCount
                  /\ item = sCount + 1
                  /\ sCount' = sCount + 1
                  /\ UNCHANGED sUnused

Enqueue_AtHead(item, f) ==
  /\ mFunc' = [mFunc EXCEPT ![item] = f]
  /\ mNext' = [mNext EXCEPT ![item] = sFirst]
  /\ sFirst' = item
  /\ sLast' = IF sFirst # NULL THEN sLast ELSE item
Enqueue(item, f) ==
  /\ mFunc' = [mFunc EXCEPT ![item] = f]
  /\ mNext' = [i \in Item |-> IF i = item THEN NULL
                             ELSE IF sFirst # NULL /\ i = sLast THEN item
                             ELSE mNext[i]]
  /\ sFirst' = IF sFirst # NULL THEN sFirst ELSE item
  /\ sLast' = item

(* Who may be executing between two steps of CONT's run.                   *)
CallerRuns == IsrCallers \/ pc # "test"

Accept(f) == /\ CallerRuns
             /\ f # NoFn
             /\ \E item \in Item : Grant(item) /\ Enqueue(item, f)
             /\ answer' = [fn |-> f, ok |-> TRUE]
             /\ UNCHANGED <<pc, frames>>

(* The empty function; the limit; new (std::nothrow) returned nullptr.     *)
Refuse(f) == /\ CallerRuns
             /\ f = NoFn \/ sUnused = NULL
             /\ answer' = [fn |-> f, ok |-> FALSE]
             /\ UNCHANGED <<queue, pc, frames>>

-----------------------------------------------------------------------------
(* run_scheduled_functions() *)

(* recycle_fn_unsafe()                                                     *)
Recycle_Leaks(item) == mFunc' = [mFunc EXCEPT ![item] = NoFn] /\ UNCHANGED <<mNext, sUnused>>
Recycle(item) == /\ mFunc' = [mFunc EXCEPT ![item] = NoFn]
                 /\ mNext' = [mNext EXCEPT ![item] = sUnused]
                 /\ sUnused' = item

(* The last cell of the queue once the head is unlinked.                   *)
LastBehind_Dangles(head) == sLast
LastBehind(head) == IF sLast = head THEN NULL ELSE sLast

(* From loop_end(), or from a function that is being run: it reads sLast.  *)
Enter == /\ pc \in {"loop", "calling"}
         /\ top < MaxDepth
         /\ frames' = Append(frames, [stop |-> sLast, done |-> FALSE, cur |-> NULL])
         /\ pc' = "test"
         /\ UNCHANGED <<queue, answer>>

(* while (sFirst && !done): done = sFirst == stop; sFirst->mFunc()         *)
ReachesStop_Never(frame) == FALSE
ReachesStop(frame) == sFirst = frame.stop

Call == /\ pc = "test"
        /\ sFirst # NULL /\ ~frames[top].done
        /\ frames' = [frames EXCEPT ![top] =
              [stop |-> @.stop, done |-> ReachesStop(@), cur |-> sFirst]]
        /\ pc' = "calling"
        /\ UNCHANGED <<queue, answer>>

(* The function returns and the cell at the head is unlinked and recycled, *)
(* whichever cell that is; with an empty queue sFirst->mNext would be read *)
(* through a null pointer, and there is no step.                           *)
Unlink == /\ pc = "calling"
          /\ sFirst # NULL
          /\ sLast' = LastBehind(sFirst)
          /\ sFirst' = mNext[sFirst]
          /\ Recycle(sFirst)
          /\ pc' = "yielding"
          /\ UNCHANGED <<sCount, frames, answer>>

(* optimistic_yield(): SYS may run until CONT is resumed.                  *)
Resume == /\ pc = "yielding"
          /\ pc' = "test"
          /\ UNCHANGED <<queue, frames, answer>>

Leave == /\ pc = "test"
         /\ sFirst = NULL \/ frames[top].done
         /\ frames' = SubSeq(frames, 1, top - 1)
         /\ pc' = IF top = 1 THEN "loop" ELSE "calling"
         /\ UNCHANGED <<queue, answer>>

Cont == Call \/ Unlink \/ Resume \/ Leave

Next == \/ \E f \in Fn : Accept(f)
        \/ \E f \in Fn \cup {NoFn} : Refuse(f)
        \/ Enter
        \/ Cont

(* loop() returns, and so does every scheduled function.                   *)
Fairness == WF_vars(pc = "loop" /\ Enter) /\ WF_vars(Cont)

Spec == Init /\ [][Next]_vars
FairSpec == Spec /\ Fairness

-----------------------------------------------------------------------------
(* The lists *)

Chains == UNION {[1..n -> Item] : n \in 0..MaxCount}

(* c lists, without repetition, the cells from first on, and ends at NULL. *)
IsChain(first, c) ==
  /\ (first = NULL /\ Len(c) = 0) \/ (Len(c) > 0 /\ first = c[1])
  /\ \A i \in 1..Len(c) : \/ i < Len(c) /\ mNext[c[i]] = c[i + 1]
                          \/ i = Len(c) /\ mNext[c[i]] = NULL
  /\ \A i, j \in 1..Len(c) : c[i] = c[j] => i = j

CellsOf(c) == {c[i] : i \in 1..Len(c)}

(* q is the queue, and the functions it holds; u is the free list.         *)
Lists(q, u) == /\ IsChain(sFirst, q) /\ IsChain(sUnused, u)
               /\ (sLast = NULL /\ Len(q) = 0) \/ (Len(q) > 0 /\ sLast = q[Len(q)])
               /\ CellsOf(q) \cap CellsOf(u) = {}
               /\ CellsOf(q) \cup CellsOf(u) = 1..sCount
               /\ Len(q) + Len(u) = sCount
               /\ \A i \in Item : mFunc[i] # NoFn <=> i \in CellsOf(q)

(* Every cell ever allocated is on exactly one of the two lists, sLast is  *)
(* the last one of the queue, and exactly the queued cells hold functions. *)
(* A cell lost or linked twice would, after at most MaxCount of them, make *)
(* schedule_function() refuse for ever or run a stale function.            *)
PoolConserved == \E q, u \in Chains : Lists(q, u)

Queued == CHOOSE q \in Chains : IsChain(sFirst, q)

(* The cell unlinked after a function returned is the one whose function   *)
(* was called, and no function is called again before that: "Run the       *)
(* lambda only once" (Schedule.h).                                         *)
RunsOnce == /\ pc = "calling" => sFirst = frames[top].cur
            /\ \A i, j \in 1..top : frames[i].cur = frames[j].cur => i = j

(* "prevent scheduling of new functions during this run" (Schedule.cpp):   *)
(* until the run is done, the cell it stops at is ahead of it in the queue *)
(* or the queue is empty.                                                  *)
StopBoundsRun ==
  (top > 0 /\ ~frames[top].done /\ sFirst # NULL)
     => \E q \in Chains : IsChain(sFirst, q) /\ frames[top].stop \in CellsOf(q)

(* It is so for every run that began with functions in the queue, whatever *)
(* interrupt handlers and the functions themselves schedule.               *)
StopStaysAhead == (top > 0 /\ frames[top].stop # NULL) => StopBoundsRun

(* A function that was accepted is called, however often others are        *)
(* scheduled: functions that reschedule themselves cannot starve it.       *)
EveryFunctionRuns ==
  \A i \in Item : (mFunc[i] # NoFn) ~> (pc = "calling" /\ frames[top].cur = i)

(* Scheduled functions that schedule functions do not keep loop() from     *)
(* running, unless an interrupt has filled the queue that this run had     *)
(* found empty.                                                            *)
Unbounded == top > 0 /\ frames[1].stop = NULL
LoopRunsAgain == []<>(pc = "loop" \/ Unbounded)

(* The implemented queue is the FIFO of Schedule.h.                        *)
FIFO == INSTANCE FnQueue WITH
          pending <- [i \in DOMAIN Queued |-> mFunc[Queued[i]]],
          running <- IF pc = "calling" THEN mFunc[frames[top].cur] ELSE NoFn,
          capacity <- sCount
ImplementsFIFO == FIFO!Spec
=============================================================================
