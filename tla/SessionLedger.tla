---------------------------- MODULE SessionLedger ----------------------------
(***************************************************************************)
(* What the workflow_session table promises as the record of the calls:    *)
(* a session is opened once, closed once and for good, and accounted for   *)
(* at most once -- usage and reason, as far as they are known, are stored  *)
(* together, and neither is touched again -- and it disappears only with   *)
(* its workflow.                                                           *)
(* VoiceSession implements this with two processes that write the table    *)
(* without a lock.                                                         *)
(***************************************************************************)
CONSTANTS Sessions, Reasons, NoReason

VARIABLE entry

Entries == [state : {"none", "open", "closed", "deleted"},
            reason : Reasons \cup {NoReason},
            usage : BOOLEAN]

Init == entry = [s \in Sessions |-> [state |-> "none", reason |-> NoReason, usage |-> FALSE]]

Open(s) ==
  /\ entry[s].state = "none"
  /\ entry' = [entry EXCEPT ![s].state = "open"]

Close(s) ==
  /\ entry[s].state = "open"
  /\ entry' = [entry EXCEPT ![s].state = "closed"]

\* The call's own account of itself: how it ended, unless it was closed before
\* the call could say so, and what it used, if that is known.
Account(s) ==
  /\ entry[s].state \in {"open", "closed"}
  /\ ~entry[s].usage
  /\ entry[s].reason = NoReason
  /\ \E reason \in Reasons \cup {NoReason}, usage \in BOOLEAN :
       /\ entry[s].state = "open" => reason # NoReason
       /\ entry' = [entry EXCEPT ![s] = [state |-> "closed", reason |-> reason, usage |-> usage]]

Remove(gone) ==
  entry' = [s \in Sessions |->
              IF s \in gone THEN [entry[s] EXCEPT !.state = "deleted"] ELSE entry[s]]

Next ==
  \/ \E s \in Sessions : Open(s) \/ Close(s) \/ Account(s)
  \/ \E gone \in SUBSET {s \in Sessions : entry[s].state \in {"open", "closed"}} : Remove(gone)

Spec == Init /\ [][Next]_entry

=============================================================================
