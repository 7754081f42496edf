------------------------------ MODULE StreamLog ------------------------------
(***************************************************************************)
(* What successive streams to a peer promise, whatever the network does: a  *)
(* stream is a log.  The sender appends to it, at most Window ahead of what *)
(* it has forgotten.  A reader reads it from its beginning, one packet      *)
(* after the other, and writes each to the TUN.  The sender forgets what a  *)
(* reader of this very log has read, and nothing else.  Giving the log up   *)
(* for a new one is the only way to leave packets unread; readers of a      *)
(* former log may go on with what is on its way.                            *)
(***************************************************************************)
EXTENDS Integers

CONSTANTS Readers, Window

VARIABLES log,        \* the number of the current log; none is 0
          length,     \* packets appended to it
          forgotten,  \* those the sender does not keep any longer
          logOf,      \* the log of each reader
          read        \* packets each reader has read

vars == <<log, length, forgotten, logOf, read>>

Init ==
  /\ log = 0 /\ length = 0 /\ forgotten = 0
  /\ logOf = [r \in Readers |-> 0] /\ read = [r \in Readers |-> 0]

NewLog ==
  /\ log' = log + 1 /\ length' = 0 /\ forgotten' = 0
  /\ UNCHANGED <<logOf, read>>

Append ==
  /\ log # 0 /\ length - forgotten < Window
  /\ length' = length + 1
  /\ UNCHANGED <<log, forgotten, logOf, read>>

Join(r) ==
  /\ logOf[r] = 0 /\ \E i \in 1 .. log : logOf' = [logOf EXCEPT ![r] = i]
  /\ UNCHANGED <<log, length, forgotten, read>>

Read(r) ==
  /\ logOf[r] # 0 /\ (logOf[r] = log => read[r] < length)
  /\ read' = [read EXCEPT ![r] = @ + 1]
  /\ UNCHANGED <<log, length, forgotten, logOf>>

Forget ==
  /\ \E r \in Readers : logOf[r] = log /\ forgotten' \in forgotten + 1 .. read[r]
  /\ UNCHANGED <<log, length, logOf, read>>

Next == NewLog \/ Append \/ Forget \/ \E r \in Readers : Join(r) \/ Read(r)

Spec == Init /\ [][Next]_vars

=============================================================================
