----------------------------- MODULE Negotiation -----------------------------
(***************************************************************************)
(* crates/quicview-session/src/negotiation.rs: the Negotiator, whose calls *)
(* its user makes in any order.  A call that does not fit the state        *)
(* returns an error and changes nothing, so only those that fit are here.  *)
(***************************************************************************)
EXTENDS Naturals, Sequences

CONSTANTS
  Displays,        \* what an offer offers and a selection selects from
  Reasons          \* of rejections

VARIABLES
  negotiation,     \* NegotiationState, with what it carries
  agreed,          \* what accept() has returned
  calls            \* history: the calls that succeeded, with their arguments

negotiationVars == <<negotiation, agreed, calls>>

Stage(name, data) == [stage |-> name, data |-> data]
AwaitingOffer == Stage("awaitingOffer", {})
Accepted == Stage("accepted", {})
OfferReceived == {Stage("offerReceived", offer) : offer \in SUBSET Displays}
DisplaysSelected == {Stage("displaysSelected", sel) : sel \in SUBSET Displays}
Rejected == {Stage("rejected", r) : r \in Reasons}

NegotiationTypeOK ==
  /\ negotiation \in {AwaitingOffer, Accepted} \cup OfferReceived
                       \cup DisplaysSelected \cup Rejected
  /\ agreed \in {{}} \cup {{sel} : sel \in SUBSET Displays}
  /\ calls \in Seq([call : {"offer", "select", "accept", "reject"},
                    data : (SUBSET Displays) \cup Reasons])

NegotiationInit ==
  /\ negotiation = AwaitingOffer
  /\ agreed = {}
  /\ calls = <<>>

Log(call, data) == calls' = Append(calls, [call |-> call, data |-> data])

-----------------------------------------------------------------------------
\* Mutant: only an accepted negotiation refuses an offer.
ReceiveOfferAgain(offer) ==
  /\ negotiation # Accepted
  /\ Len(calls) < 5
  /\ negotiation' = Stage("offerReceived", offer)
  /\ Log("offer", offer)
  /\ UNCHANGED agreed

ReceiveOffer(offer) ==
  /\ negotiation = AwaitingOffer
  /\ negotiation' = Stage("offerReceived", offer)
  /\ Log("offer", offer)
  /\ UNCHANGED agreed

\* The selection is not compared with the offer.
SelectDisplays(sel) ==
  /\ negotiation \in OfferReceived
  /\ negotiation' = Stage("displaysSelected", sel)
  /\ Log("select", sel)
  /\ UNCHANGED agreed

\* Mutant: the state that accept() replaces is not put back on its error.
AcceptForgets ==
  /\ negotiation # Accepted
  /\ negotiation' = Accepted
  /\ IF negotiation \in DisplaysSelected
     THEN agreed' = {negotiation.data} /\ Log("accept", negotiation.data)
     ELSE UNCHANGED <<agreed, calls>>

Accept ==
  /\ negotiation \in DisplaysSelected
  /\ negotiation' = Accepted
  /\ agreed' = {negotiation.data}
  /\ Log("accept", negotiation.data)

\* Also after acceptance, and again with another reason.
Reject(reason) ==
  /\ negotiation # Stage("rejected", reason)
  /\ negotiation' = Stage("rejected", reason)
  /\ calls' = <<[call |-> "reject", data |-> reason]>>
  /\ UNCHANGED agreed

NegotiationNext ==
  \/ \E offer \in SUBSET Displays : ReceiveOffer(offer)
  \/ \E sel \in SUBSET Displays : SelectDisplays(sel)
  \/ Accept
  \/ \E reason \in Reasons : Reject(reason)

NegotiationSpec == NegotiationInit /\ [][NegotiationNext]_negotiationVars

-----------------------------------------------------------------------------
(* Properties                                                              *)

\* "Negotiation complete - streaming can begin" (negotiation.rs:14): only after
\* one offer and one selection, with no rejection before them, which is
\* terminal (negotiation.rs:80); and accept() has returned that selection.
AcceptedAfterHandshake ==
  negotiation = Accepted =>
    /\ [i \in DOMAIN calls |-> calls[i].call] = <<"offer", "select", "accept">>
    /\ agreed = {calls[2].data}
=============================================================================
