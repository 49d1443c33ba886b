----------------------------- MODULE Recurrent -----------------------------
(***************************************************************************)
(* Recurrent scheduled functions (cores/esp8266/Schedule.cpp): the list    *)
(* rFirst..rLast, the pass run_scheduled_recurrent_functions() that CONT   *)
(* makes over it after every yield() and every loop(), and the delay grain *)
(* that delay() computes from the intervals of the listed functions.       *)
(* A registration is one step (it holds an InterruptLock); it comes from   *)
(* CONT, from SYS while CONT is suspended and, in a program that has such  *)
(* interrupt handlers, from them between any two steps of CONT.  Time is   *)
(* abstracted to "the interval of this function has elapsed".              *)
(***************************************************************************)
EXTENDS Naturals, Sequences

CONSTANTS MaxCell,      \* bound: cells the heap can provide
          Intervals,    \* the repeat_us values in use
          UsPerMs,      \* 1000
          MaxDepth      \* bound: nested passes

ASSUME RecurrentAssumption == /\ MaxCell \in Nat \ {0}
                              /\ Intervals \subseteq Nat
                              /\ UsPerMs \in Nat \ {0}
                              /\ MaxDepth \in Nat \ {0}

NULL == 0
Cell == 1..MaxCell
Pointer == 0..MaxCell

VARIABLES rFirst, rLast, rNext,
          live,        \* the cells that are allocated
          interval,    \* callNow.getTimeout() of each cell
          due,         \* the cells whose interval has elapsed
          grain,       \* recurrent_max_grain_mS
          fence,
          pc, frames,  \* CONT: where it is, activations of the pass
          scan,        \* compute_scheduled_recurrent_grain(): it and the gcd
          isrCallers   \* do interrupt handlers register functions? (fixed)

list == <<rFirst, rLast, rNext, live, interval>>
cont == <<fence, pc, frames, scan, isrCallers>>
vars == <<list, due, grain, cont>>

Frame == [current : Pointer, prev : Pointer, stop : Pointer, done : BOOLEAN]
Idle == [it |-> NULL, us |-> 0]

Divides(d, n) == \E k \in 0..n : n = d * k
Gcd(a, b) == IF a = 0 THEN b
             ELSE CHOOSE d \in 1..a : /\ Divides(d, a) /\ Divides(d, b)
                                      /\ \A e \in (d + 1)..a : ~(Divides(e, a) /\ Divides(e, b))
(* To the upper millisecond; 0 stays 0.                                    *)
ToMillis(us) == (us + UsPerMs - 1) \div UsPerMs

Init == /\ rFirst = NULL /\ rLast = NULL
        /\ rNext = [c \in Cell |-> NULL]
        /\ live = {}
        /\ interval = [c \in Cell |-> 0]
        /\ due = {}
        /\ grain = 0
        /\ fence = FALSE
        /\ pc = "user" /\ frames = <<>> /\ scan = Idle
        /\ isrCallers \in BOOLEAN

top == Len(frames)
this == frames[top]

-----------------------------------------------------------------------------
(* schedule_recurrent_function_us() *)

(* The cached grain no longer fits the list.                               *)
ForgetGrain_Not == UNCHANGED grain
ForgetGrain == grain' = 0

CallerRuns == isrCallers \/ pc \in {"user", "calling", "slice"}

(* new failing, and the empty function, return false and change nothing.   *)
Register(us) ==
  /\ CallerRuns
  /\ \E c \in Cell \ live :
       /\ live' = live \cup {c}
       /\ interval' = [interval EXCEPT ![c] = us]
       /\ rNext' = [d \in Cell |-> IF d = c THEN NULL
                                   ELSE IF d = rLast THEN c ELSE rNext[d]]
       /\ rFirst' = IF rLast = NULL THEN c ELSE rFirst
       /\ rLast' = c
  /\ ForgetGrain
  /\ UNCHANGED <<due, cont>>

(* The interval of a listed function elapses.                              *)
Elapse(c) == /\ c \in live \ due /\ interval[c] # 0
             /\ due' = due \cup {c}
             /\ UNCHANGED <<list, grain, cont>>

-----------------------------------------------------------------------------
(* run_scheduled_recurrent_functions() *)

(* "prevent recursive calls from yield()"                                  *)
MayEnter_Always == TRUE
MayEnter == ~fence

StopCell_First == rFirst
StopCell == rLast

(* From a yield() or the end of loop(), or from a yield() in a function    *)
(* that the pass itself is calling.                                        *)
Enter == /\ pc \in {"user", "calling"}
         /\ top < MaxDepth
         /\ rFirst # NULL
         /\ MayEnter
         /\ fence' = TRUE
         /\ frames' = Append(frames, [current |-> rFirst, prev |-> NULL,
                                      stop |-> StopCell, done |-> FALSE])
         /\ pc' = "head"
         /\ UNCHANGED <<list, due, grain, scan, isrCallers>>

ReachesStop_Never(frame) == FALSE
ReachesStop(frame) == frame.current = frame.stop

(* wakeup || callNow; reading callNow rearms the period.                   *)
Call == /\ pc = "head"
        /\ frames' = [frames EXCEPT ![top].done = ReachesStop(this)]
        /\ due' = due \ {this.current}
        /\ pc' = "calling"
        /\ UNCHANGED <<list, grain, fence, scan, isrCallers>>

(* Neither the alarm nor the period asks for a call (0 always does).       *)
Skip == /\ pc = "head"
        /\ this.current \notin due /\ interval[this.current] # 0
        /\ frames' = [frames EXCEPT ![top] =
             [current |-> rNext[@.current], prev |-> @.current,
              stop |-> @.stop, done |-> ReachesStop(this)]]
        /\ pc' = "slice"
        /\ UNCHANGED <<list, due, grain, fence, scan, isrCallers>>

(* The function returned true: it stays.                                   *)
Keep == /\ pc = "calling"
        /\ frames' = [frames EXCEPT ![top].current = rNext[this.current],
                                    ![top].prev = this.current]
        /\ pc' = "slice"
        /\ UNCHANGED <<list, due, grain, fence, scan, isrCallers>>

(* rLast once cell is unlinked behind prev.                                *)
LastWithout_Dangles(cell, prev) == rLast
LastWithout(cell, prev) == IF rLast = cell THEN prev ELSE rLast

(* The function returned false: it is unlinked and deleted.                *)
Remove == /\ pc = "calling"
          /\ LET cell == this.current
                 next == rNext[cell]
             IN  /\ rLast' = LastWithout(cell, this.prev)
                 /\ rNext' = [c \in Cell |-> IF c = this.prev THEN next ELSE rNext[c]]
                 /\ rFirst' = IF this.prev = NULL THEN next ELSE rFirst
                 /\ live' = live \ {cell}
                 /\ interval' = [interval EXCEPT ![cell] = 0]
                 /\ due' = due \ {cell}
                 /\ frames' = [frames EXCEPT ![top].current = next]
          /\ ForgetGrain
          /\ pc' = "slice"
          /\ UNCHANGED <<fence, scan, isrCallers>>

(* After 100 ms CONT is suspended here, without another pass.              *)
Continue == /\ pc = "slice"
            /\ this.current # NULL /\ ~this.done
            /\ pc' = "head"
            /\ UNCHANGED <<list, due, grain, fence, frames, scan, isrCallers>>

LowerFence == fence' = FALSE

Leave == /\ pc = "slice"
         /\ this.current = NULL \/ this.done
         /\ LowerFence
         /\ frames' = SubSeq(frames, 1, top - 1)
         /\ pc' = IF top = 1 THEN "user" ELSE "calling"
         /\ UNCHANGED <<list, due, grain, scan, isrCallers>>

Pass == Call \/ Skip \/ Keep \/ Remove \/ Continue \/ Leave

-----------------------------------------------------------------------------
(* compute_scheduled_recurrent_grain(), called by delay() on CONT: it      *)
(* walks the list without a lock.                                          *)

StartScan == /\ pc = "user"
             /\ grain = 0 /\ rFirst # NULL
             /\ scan' = [it |-> rNext[rFirst], us |-> interval[rFirst]]
             /\ pc' = "scan"
             /\ UNCHANGED <<list, due, grain, fence, frames, isrCallers>>

Visit == /\ pc = "scan"
         /\ scan.it # NULL
         /\ scan' = [it |-> rNext[scan.it], us |-> Gcd(scan.us, interval[scan.it])]
         /\ UNCHANGED <<list, due, grain, fence, pc, frames, isrCallers>>

StoreGrain == /\ pc = "scan"
              /\ scan.it = NULL
              /\ grain' = ToMillis(scan.us)
              /\ scan' = Idle
              /\ pc' = "user"
              /\ UNCHANGED <<list, due, fence, frames, isrCallers>>

Scan == StartScan \/ Visit \/ StoreGrain

Next == \/ \E us \in Intervals : Register(us)
        \/ \E c \in Cell : Elapse(c)
        \/ Enter
        \/ Pass
        \/ Scan

(* The sketch yields again and again, and recurrent functions return.      *)
Fairness == WF_vars(pc = "user" /\ Enter) /\ WF_vars(Pass) /\ WF_vars(Visit \/ StoreGrain)

Spec == Init /\ [][Next]_vars
FairSpec == Spec /\ Fairness

-----------------------------------------------------------------------------
Chains == UNION {[1..n -> Cell] : n \in 0..MaxCell}
CellsOf(c) == {c[i] : i \in 1..Len(c)}

(* c is the list, in order.                                                *)
IsList(c) ==
  /\ (rFirst = NULL /\ rLast = NULL /\ c = <<>>)
     \/ (c # <<>> /\ rFirst = c[1] /\ rLast = c[Len(c)])
  /\ \A i \in 1..Len(c) : \/ i < Len(c) /\ rNext[c[i]] = c[i + 1]
                          \/ i = Len(c) /\ rNext[c[i]] = NULL
  /\ \A i, j \in 1..Len(c) : c[i] = c[j] => i = j

TypeOK == /\ rFirst \in Pointer /\ rLast \in Pointer
          /\ rNext \in [Cell -> Pointer]
          /\ live \subseteq Cell /\ due \subseteq live
          /\ interval \in [Cell -> Nat]
          /\ grain \in Nat
          /\ fence = (frames # <<>>)
          /\ pc \in {"user", "head", "calling", "slice", "scan"}
          /\ frames \in Seq(Frame)
          /\ scan \in [it : Pointer, us : Nat]
          /\ isrCallers \in BOOLEAN

(* Exactly the allocated cells are listed: a removal loses no registration *)
(* and leaves no deleted cell linked.                                      *)
ListConserved == \E c \in Chains : IsList(c) /\ CellsOf(c) = live

(* The types, and the list that holds what is registered.                  *)
Inv == TypeOK /\ ListConserved

(* Whatever is registered or removed meanwhile, the pass works on a listed *)
(* cell and on its predecessor: nothing it unlinks has been deleted, and   *)
(* unlinking it bypasses nothing else.  The cell it is to end with is      *)
(* listed until it has come to it.                                         *)
PassStaysOnList ==
  \A i \in 1..top :
    /\ frames[i].stop \in live \/ frames[i].done
    /\ i < top \/ pc \in {"head", "calling"} =>
         /\ frames[i].current \in live
         /\ IF frames[i].prev = NULL THEN rFirst = frames[i].current
            ELSE frames[i].prev \in live /\ rNext[frames[i].prev] = frames[i].current

(* The cached grain is at most every interval in the list, to the upper    *)
(* millisecond: delay() wakes up in time for each of them ("to give a      *)
(* chance to all recurrent functions to run per their timing requirement", *)
(* Schedule.h).                                                            *)
GrainSuitsAll == \A c \in live : (grain # 0 /\ interval[c] # 0) => grain <= ToMillis(interval[c])

(* So it is when no interrupt handler registers functions: SYS cannot do so*)
(* while the list is walked.                                               *)
GrainSuitsAllBarIsr == ~isrCallers => GrainSuitsAll

(* A function whose interval has elapsed is called, although others are    *)
(* registered and removed for ever.                                        *)
EveryDueRuns == \A c \in Cell : (c \in due) ~> (pc = "calling" /\ this.current = c)

(* Functions that register functions do not keep the pass from ending.     *)
PassEnds == fence ~> ~fence
=============================================================================
