------------------------------ MODULE CallSlot ------------------------------
(***************************************************************************)
(* What the interface of incoming calls promises its users: one slot,      *)
(* held by one visitor at a time, who may be talked to and is then hung    *)
(* up for good.  DomruCall implements it: the slot is current_call of      *)
(* src/mainvicom_srv/mainvicom_domru.py, a conversation is an RTP session  *)
(* that the call in the slot has.                                          *)
(***************************************************************************)
EXTENDS Naturals

CONSTANT Visitors  \* the calls that may ring; 0 is none of them

VARIABLES
  holder,   \* who has the slot, 0 for nobody
  past,     \* those who had it
  talking   \* the visitor is being talked to

slotVars == <<holder, past, talking>>

Init == holder = 0 /\ past = {} /\ ~talking

\* A visitor takes the free slot; nobody gets it twice.
TakeSlot(v) ==
  /\ holder = 0 /\ v \notin past
  /\ holder' = v
  /\ UNCHANGED <<past, talking>>

Talk ==
  /\ holder # 0
  /\ talking' = TRUE
  /\ UNCHANGED <<holder, past>>

\* The call is over, talked to or not, and with it the conversation.
GiveUp ==
  /\ holder # 0
  /\ past' = past \cup {holder} /\ holder' = 0 /\ talking' = FALSE

Next == (\E v \in Visitors : TakeSlot(v)) \/ Talk \/ GiveUp

Spec == Init /\ [][Next]_slotVars
=============================================================================
