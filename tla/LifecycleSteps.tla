--------------------------- MODULE LifecycleSteps ---------------------------
(* What the init and exit functions of a driver do with their resources, as *)
(* a record read by ModuleLifecycle:                                        *)
(*   init: its acquisitions in order, each with what the code does when it  *)
(*         fails: the resources its labels release, in order, and the sign  *)
(*         of the value my_init returns;                                    *)
(*   exit: the resources my_exit releases, in order;                        *)
(*   uses: for each resource with code of its own (interrupt handler, timer *)
(*         or work callback, thread, file operations), the resources that   *)
(*         code touches.                                                    *)
EXTENDS Sequences

(* The sign of a failing my_init's return value: the kernel refuses the     *)
(* module on "neg" only.  "unset": an uninitialized variable is returned.   *)
Results == {"neg", "pos", "zero", "unset"}

(* Resources whose code runs once it is armed, and those whose stop does    *)
(* not wait for a callback that is running and arms itself again.           *)
Deferred == {"timer", "work", "tasklet", "hrtimer", "blink"}
NotWaitedFor == {"blink"}

(* Acquire resource r, which may fail. *)
Step(r, undo, result) ==
  [get |-> {r}, put |-> {}, arm |-> {}, fails |-> "checked", undo |-> undo,
   result |-> result]

(* A call that may fail and acquires nothing. *)
Check(undo, result) == [Step("", undo, result) EXCEPT !.get = {}]

(* A call that cannot fail. *)
Sure(r) == [Step(r, <<>>, "neg") EXCEPT !.fails = "never"]

(* A call in the middle of my_init that gives r back. *)
Put(r) == [Sure(r) EXCEPT !.get = {}, !.put = {r}]

(* A timer or work item that is set up and started. *)
Start(r) == [Sure(r) EXCEPT !.arm = {r}]

(* A call whose failure the code's test does not see: it tests for NULL     *)
(* what returns an error pointer, or the other way round, or not at all.    *)
Unseen(r) == [Sure(r) EXCEPT !.fails = "unseen"]

(* What a row of a table is.  A call whose failure goes unseen gives        *)
(* nothing back.                                                            *)
StepRecords ==
  [get : SUBSET STRING, put : SUBSET STRING, arm : SUBSET Deferred,
   fails : {"checked", "unseen", "never"}, undo : Seq(STRING), result : Results]
IsRow(row) ==
  /\ row.init \in Seq(StepRecords)
  /\ \A i \in DOMAIN row.init : row.init[i].fails = "unseen" => row.init[i].put = {}
  /\ row.exit \in Seq(STRING)
  /\ \A c \in DOMAIN row.uses : row.uses[c] \in SUBSET STRING

Uses(code, what) == [c \in {code} |-> what]
NoCode == [c \in {} |-> {}]
=============================================================================
