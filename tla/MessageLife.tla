---------------------------- MODULE MessageLife -----------------------------
(***************************************************************************)
(* What the row of a message tells those who read it: it is created once,   *)
(* for one message of each payload, and every mark it gets is true of its   *)
(* message when it is written.  What is true once remains so; marks follow  *)
(* in any order, and the last one written stands.                           *)
(***************************************************************************)

CONSTANTS Msg, PayloadOf

VARIABLES
  status,   \* of each message's row
  signed,   \* messages whose command the core has put into a batch
  executed, \* messages that were executed, or whose payload was
  excused   \* messages to which something has happened that may fail them

truths == <<signed, executed, excused>>

Init ==
  /\ status = [m \in Msg |-> "absent"]
  /\ signed = {}
  /\ executed = {}
  /\ excused = {}

Record(m) ==
  /\ \A r \in Msg : PayloadOf[r] = PayloadOf[m] => status[r] = "absent"
  /\ status' = [status EXCEPT ![m] = "pending"]
  /\ UNCHANGED truths

Bears(m, mark) ==
  \/ mark = "approved" /\ m \in signed
  \/ mark = "success" /\ m \in executed
  \/ mark = "failed" /\ m \in excused

Mark(m) ==
  /\ status[m] # "absent"
  /\ \E mark \in {"approved", "success", "failed"} :
       Bears(m, mark) /\ status' = [status EXCEPT ![m] = mark]
  /\ UNCHANGED truths

\* The world goes on; nothing that happened is undone.
Happen ==
  /\ signed \subseteq signed'
  /\ executed \subseteq executed'
  /\ excused \subseteq excused'
  /\ UNCHANGED status

Next == Happen \/ \E m \in Msg : Record(m) \/ Mark(m)

Spec == Init /\ [][Next]_<<status, truths>>

=============================================================================
