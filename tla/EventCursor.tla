---------------------------- MODULE EventCursor ----------------------------
(* What the drivers that turn presses into messages promise to whoever      *)
(* reads one of their files: the reader has a cursor into the sequence of   *)
(* presses.  It starts at the end, a read that returns the message moves it *)
(* forward over one or more presses that happened, and nothing else moves   *)
(* it.  Presses between two reads are merged, and no message is returned    *)
(* without a press the reader had none for.                                 *)
EXTENDS Integers

CONSTANT File

VARIABLES
  presses,   \* the presses so far
  cursor,    \* cursor[f]: the presses f has consumed, for each open file f
  messages   \* messages[f]: the messages f has returned since it was opened

Put(m, f, v) == [g \in DOMAIN m \cup {f} |-> IF g = f THEN v ELSE m[g]]
Drop(m, f) == [g \in DOMAIN m \ {f} |-> m[g]]

(* Some files may be open from the start. *)
Init ==
  /\ presses = 0
  /\ \E F \in SUBSET File : cursor = [f \in F |-> 0] /\ messages = [f \in F |-> 0]

Press ==
  /\ presses' = presses + 1
  /\ UNCHANGED <<cursor, messages>>

Open(f) ==
  /\ f \notin DOMAIN cursor
  /\ cursor' = Put(cursor, f, presses)
  /\ messages' = Put(messages, f, 0)
  /\ UNCHANGED presses

Close(f) ==
  /\ f \in DOMAIN cursor
  /\ cursor' = Drop(cursor, f)
  /\ messages' = Drop(messages, f)
  /\ UNCHANGED presses

Read(f) ==
  /\ f \in DOMAIN cursor
  /\ \E k \in cursor[f] + 1 .. presses : cursor' = [cursor EXCEPT ![f] = k]
  /\ messages' = [messages EXCEPT ![f] = @ + 1]
  /\ UNCHANGED presses

Next == Press \/ \E f \in File : Open(f) \/ Close(f) \/ Read(f)

Spec == Init /\ [][Next]_<<presses, cursor, messages>>

(* A reader never gets more messages than there were presses                *)
(* (my_poll.c:79; wait_queue.c:64).                                         *)
NoMoreMessagesThanPresses ==
  \A f \in DOMAIN cursor : messages[f] <= cursor[f] /\ cursor[f] <= presses
=============================================================================
