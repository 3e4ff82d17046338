---------------------------- MODULE ReserveLedger ----------------------------
(***************************************************************************)
(* What a reversal promises the bot of the money its buys had set aside,   *)
(* without rows, polls, cancels or the engine: a buy has one reserve, owed *)
(* until the venue has ended the order and then returned, once, as exactly *)
(* what was not dealt.  A reserve may be given up instead, but where the   *)
(* venue is strict not once the reversal's own cancel stopped its order.   *)
(***************************************************************************)
EXTENDS Naturals

CONSTANTS Orders, Size

VARIABLES
  strict,   \* a cancel without an answer proves nothing (KuCoin)
  buys,     \* the orders that buy
  state,    \* of each order: none, live or ended
  dealt,    \* what the venue dealt of it
  stopped,  \* the orders ended by a cancel made for their reserve
  reserve,  \* of each order: none, owed or returned
  returns   \* what was returned of it

Init ==
  /\ strict \in BOOLEAN
  /\ buys = {} /\ stopped = {}
  /\ state = [o \in Orders |-> "none"] /\ dealt = [o \in Orders |-> 0]
  /\ reserve = [o \in Orders |-> "none"] /\ returns = [o \in Orders |-> <<>>]

Places(o) ==
  /\ state[o] = "none" /\ state' = [state EXCEPT ![o] = "live"]
  /\ buys' \in {buys, buys \cup {o}}
  /\ UNCHANGED <<strict, dealt, stopped, reserve, returns>>

Deals(o) ==
  /\ state[o] = "live" /\ state' \in {state, [state EXCEPT ![o] = "ended"]}
  /\ dealt' = [dealt EXCEPT ![o] = @ + 1]
  /\ UNCHANGED <<strict, buys, stopped, reserve, returns>>

Ends(o) ==
  /\ state[o] = "live" /\ state' = [state EXCEPT ![o] = "ended"]
  /\ \/ UNCHANGED stopped
     \/ stopped' = stopped \cup {o} /\ (strict => reserve[o] # "none")
  /\ UNCHANGED <<strict, buys, dealt, reserve, returns>>

Registers(new) ==
  /\ \A o \in new : o \in buys /\ reserve[o] = "none"
  /\ reserve' = [o \in Orders |-> IF o \in new THEN "owed" ELSE reserve[o]]
  /\ UNCHANGED <<strict, buys, state, dealt, stopped, returns>>

Returns(o) ==
  /\ reserve[o] = "owed" /\ state[o] = "ended"
  /\ reserve' = [reserve EXCEPT ![o] = "returned"]
  /\ returns' = [returns EXCEPT ![o] = <<Size - dealt[o]>>]
  /\ UNCHANGED <<strict, buys, state, dealt, stopped>>

GivesUp(o) ==
  /\ reserve[o] = "owed" /\ ~(strict /\ o \in stopped)
  /\ reserve' = [reserve EXCEPT ![o] = "none"]
  /\ UNCHANGED <<strict, buys, state, dealt, stopped, returns>>

Next == \/ \E o \in Orders : Places(o) \/ Deals(o) \/ Ends(o) \/ Returns(o) \/ GivesUp(o)
        \/ \E new \in SUBSET Orders : Registers(new)

Spec == Init /\ [][Next]_<<strict, buys, state, dealt, stopped, reserve, returns>>
=============================================================================
