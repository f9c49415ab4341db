------------------------------ MODULE DccTrack ------------------------------
(***************************************************************************)
(* What a DCC register list promises to the decoders on the track, with    *)
(* the double buffer, the bit cursor and the interrupt left out.  A        *)
(* client offers a packet for a register; the packet is taken over whole,  *)
(* exactly once and before the next offer is accepted; registers that hold *)
(* a continuous packet (every register but 0) are refreshed from then on,  *)
(* while the packet of register 0 is never brought back by the refresh.    *)
(***************************************************************************)
EXTENDS Naturals

CONSTANTS Slots,      \* the registers, 0 for one-time packets
          Payloads,   \* what a packet says
          Empty       \* the content of a register that was never loaded

VARIABLES stored,     \* [Slots -> payload last taken over from the client]
          pending,    \* the offered packet that is not on the track yet: a set
          onTrack     \* the payload that the decoders are receiving

vars == <<stored, pending, onTrack>>

Init ==
  /\ stored = [s \in Slots |-> Empty]
  /\ pending = {}
  /\ onTrack = Empty

\* A client hands over a packet: only one can wait.
Offer(s, p) ==
  /\ pending = {}
  /\ pending' = {[slot |-> s, payload |-> p]}
  /\ UNCHANGED <<stored, onTrack>>

\* The waiting packet goes to the track, and nothing else changes hands.
TakeOver ==
  /\ \E o \in pending :
       /\ stored' = [stored EXCEPT ![o.slot] = o.payload]
       /\ onTrack' = o.payload
  /\ pending' = {}

\* With nothing new to send a continuous packet is sent again.
Refresh ==
  /\ pending = {}
  /\ \E s \in Slots \ {0} : stored[s] # Empty /\ onTrack' = stored[s]
  /\ UNCHANGED <<stored, pending>>

Next ==
  \/ \E s \in Slots, p \in Payloads : Offer(s, p)
  \/ TakeOver
  \/ Refresh

SafeSpec == Init /\ [][Next]_vars
Spec == SafeSpec /\ WF_vars(TakeOver)
=============================================================================
