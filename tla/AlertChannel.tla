----------------------------- MODULE AlertChannel -----------------------------
(***************************************************************************)
(* What the notifications of every kind of check promise, without saying   *)
(* how (README, "Alerts are deduplicated per monitored resource"): each    *)
(* subject has a recorded key, a message about it is handed to Telegram    *)
(* only while its key is not the recorded one, and a key that calls for a  *)
(* message is recorded only once the chat has that message.  A recorded    *)
(* key may be forgotten at any time.  AddressMonitor, GetMonitor and       *)
(* OvhReminders implement this.                                            *)
(***************************************************************************)

CONSTANTS
    Subject,  \* what messages are about: addresses, routes or services
    Key,      \* what can be recorded of a subject
    Quiet,    \* the keys that are recorded without a message
    None      \* nothing is recorded

VARIABLES
    recorded, \* the recorded key of each subject
    sending,  \* messages that are being handed to Telegram
    heard     \* messages the chat has received

vars == <<recorded, sending, heard>>

Init ==
    /\ recorded = [s \in Subject |-> None]
    /\ sending = {} /\ heard = {}

Begin(s, k) ==
    /\ recorded[s] # k
    /\ sending' = sending \cup {<<s, k>>}
    /\ UNCHANGED <<recorded, heard>>

\* A message arrives, at a time its key is still not the recorded one, or is lost.
End(s, k, arrives) ==
    /\ <<s, k>> \in sending /\ sending' = sending \ {<<s, k>>}
    /\ arrives => recorded[s] # k
    /\ heard' = IF arrives THEN heard \cup {<<s, k>>} ELSE heard
    /\ UNCHANGED recorded

\* One transaction records keys and forgets others; nothing that is being sent.
Record ==
    /\ recorded' \in [Subject -> Key \cup {None}]
    /\ \A s \in Subject :
         recorded'[s] \in {recorded[s], None} \cup Quiet \/ <<s, recorded'[s]>> \in heard
    /\ \A s \in Subject : recorded'[s] # recorded[s] => <<s, recorded'[s]>> \notin sending
    /\ UNCHANGED <<sending, heard>>

Next ==
    \/ \E s \in Subject, k \in Key :
         Begin(s, k) \/ \E arrives \in BOOLEAN : End(s, k, arrives)
    \/ Record

Spec == Init /\ [][Next]_vars

=============================================================================
