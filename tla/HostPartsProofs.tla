---------------------------- MODULE HostPartsProofs ----------------------------
(***************************************************************************)
(* Proofs about parts of the host that share no state: Negotiation,        *)
(* Discovery, GdiCapture, HostService and BitrateController, each for any  *)
(* values of its constants; and, with the proofs about the displays and    *)
(* the metrics, about all of them together.                                *)
(***************************************************************************)
EXTENDS MCHostParts, DisplayProofs, MetricsProofs,
        SequenceTheorems, WellFoundedInduction, TLAPS

-----------------------------------------------------------------------------
(* Negotiation                                                             *)

LoggedCalls == [call : {"offer", "select", "accept", "reject"},
                data : (SUBSET Displays) \cup Reasons]
Made(i, name, data) == calls[i].call = name /\ calls[i].data = data

\* What the calls have been is told by the state that they led to.
NegotiationInv ==
  /\ NegotiationTypeOK
  /\ negotiation = AwaitingOffer => calls = <<>>
  /\ negotiation \in OfferReceived =>
       Len(calls) = 1 /\ calls[1].call = "offer"
  /\ negotiation \in DisplaysSelected =>
       Len(calls) = 2 /\ calls[1].call = "offer" /\ Made(2, "select", negotiation.data)
  /\ negotiation = Accepted =>
       \E sel \in SUBSET Displays :
         /\ Len(calls) = 3 /\ calls[1].call = "offer"
         /\ Made(2, "select", sel) /\ Made(3, "accept", sel)
         /\ agreed = {sel}

LEMMA StagesDiffer ==
  /\ AwaitingOffer.stage = "awaitingOffer"
  /\ Accepted.stage = "accepted"
  /\ \A s \in OfferReceived : s.stage = "offerReceived"
  /\ \A s \in DisplaysSelected : s.stage = "displaysSelected" /\ s.data \in SUBSET Displays
  /\ \A s \in Rejected : s.stage = "rejected"
BY DEF Stage, AwaitingOffer, Accepted, OfferReceived, DisplaysSelected, Rejected

\* A call is added to those before it, which it leaves as they are.
LEMMA LogAppends ==
  ASSUME calls \in Seq(LoggedCalls), NEW name \in {"offer", "select", "accept", "reject"},
         NEW data \in (SUBSET Displays) \cup Reasons, Log(name, data)
  PROVE  /\ calls' \in Seq(LoggedCalls)
         /\ Len(calls') = Len(calls) + 1
         /\ \A i \in 1..Len(calls) : calls'[i] = calls[i]
         /\ calls'[Len(calls) + 1].call = name /\ calls'[Len(calls) + 1].data = data
<1> DEFINE e == [call |-> name, data |-> data]
<1>1. e \in LoggedCalls
  BY DEF LoggedCalls
<1>2. calls' = Append(calls, e)
  BY DEF Log
<1> QED
  BY <1>1, <1>2, AppendProperties

LEMMA NegotiationStep ==
  ASSUME NegotiationInv, [NegotiationNext]_negotiationVars
  PROVE  NegotiationInv'
<1>0. calls \in Seq(LoggedCalls) /\ Len(calls) \in Nat
  BY DEF NegotiationInv, NegotiationTypeOK, LoggedCalls
<1>1. ASSUME NEW offer \in SUBSET Displays, ReceiveOffer(offer)
      PROVE  NegotiationInv'
  <2>1. negotiation' \in OfferReceived /\ negotiation'.data = offer
    BY <1>1 DEF ReceiveOffer, OfferReceived, Stage
  <2>2. calls = <<>> /\ Log("offer", offer)
    BY <1>1 DEF ReceiveOffer, NegotiationInv
  <2>3. calls' \in Seq(LoggedCalls) /\ Len(calls') = 1 /\ calls'[1].call = "offer"
    BY <1>0, <2>2, LogAppends
  <2>4. NegotiationTypeOK'
    BY <1>1, <2>1, <2>3 DEF NegotiationInv, NegotiationTypeOK, ReceiveOffer, LoggedCalls
  <2> QED
    BY <2>1, <2>3, <2>4, StagesDiffer DEF NegotiationInv
<1>2. ASSUME NEW sel \in SUBSET Displays, SelectDisplays(sel)
      PROVE  NegotiationInv'
  <2>1. negotiation' \in DisplaysSelected /\ negotiation'.data = sel
    BY <1>2 DEF SelectDisplays, DisplaysSelected, Stage
  <2>2. Len(calls) = 1 /\ calls[1].call = "offer" /\ Log("select", sel)
    BY <1>2 DEF SelectDisplays, NegotiationInv
  <2>3. /\ calls' \in Seq(LoggedCalls) /\ Len(calls') = 2
        /\ calls'[1].call = "offer" /\ Made(2, "select", sel)'
    BY <1>0, <2>2, LogAppends DEF Made
  <2>4. NegotiationTypeOK'
    BY <1>2, <2>1, <2>3 DEF NegotiationInv, NegotiationTypeOK, SelectDisplays, LoggedCalls
  <2> QED
    BY <2>1, <2>3, <2>4, StagesDiffer DEF NegotiationInv, Made
<1>3. CASE Accept
  <2> DEFINE sel == negotiation.data
  <2>1. negotiation' = Accepted /\ agreed' = {sel} /\ sel \in SUBSET Displays
    BY <1>3, StagesDiffer DEF Accept
  <2>2. /\ Len(calls) = 2 /\ calls[1].call = "offer" /\ Made(2, "select", sel)
        /\ Log("accept", sel)
    BY <1>3 DEF Accept, NegotiationInv
  <2>3. /\ calls' \in Seq(LoggedCalls) /\ Len(calls') = 3 /\ calls'[1].call = "offer"
        /\ calls'[2].call = "select" /\ calls'[2].data = sel
        /\ calls'[3].call = "accept" /\ calls'[3].data = sel
    BY <1>0, <2>1, <2>2, LogAppends DEF Made
  <2>4. NegotiationTypeOK'
    BY <2>1, <2>3 DEF NegotiationInv, NegotiationTypeOK, LoggedCalls
  <2> HIDE DEF sel
  <2> QED
    BY <2>1, <2>3, <2>4, StagesDiffer DEF NegotiationInv, Made
<1>4. ASSUME NEW reason \in Reasons, Reject(reason)
      PROVE  NegotiationInv'
  <2> DEFINE e == [call |-> "reject", data |-> reason]
  <2>1. negotiation' \in Rejected
    BY <1>4 DEF Reject, Rejected
  <2>2. e \in LoggedCalls
    BY <1>4 DEF LoggedCalls
  <2>3. calls' \in Seq(LoggedCalls)
    BY <1>4, <2>2 DEF Reject
  <2>4. NegotiationTypeOK'
    BY <1>4, <2>1, <2>3 DEF NegotiationInv, NegotiationTypeOK, Reject, LoggedCalls
  <2> QED
    BY <2>1, <2>4, StagesDiffer DEF NegotiationInv
<1>5. CASE UNCHANGED negotiationVars
  BY <1>5 DEF negotiationVars, NegotiationInv, NegotiationTypeOK, Made
<1> QED
  BY <1>1, <1>2, <1>3, <1>4, <1>5 DEF NegotiationNext

LEMMA NegotiationInvImplies == NegotiationInv => AcceptedAfterHandshake
<1> SUFFICES ASSUME NegotiationInv, negotiation = Accepted
             PROVE  /\ [i \in DOMAIN calls |-> calls[i].call]
                         = <<"offer", "select", "accept">>
                    /\ agreed = {calls[2].data}
  BY DEF AcceptedAfterHandshake
<1>1. PICK sel \in SUBSET Displays :
        /\ Len(calls) = 3 /\ calls[1].call = "offer"
        /\ Made(2, "select", sel) /\ Made(3, "accept", sel)
        /\ agreed = {sel}
  BY DEF NegotiationInv
<1>2. DOMAIN calls = 1..3
  BY <1>1 DEF NegotiationInv, NegotiationTypeOK
<1> QED
  BY <1>1, <1>2 DEF Made

LEMMA NegotiationStarts == NegotiationInit => NegotiationInv
<1>1. <<>> \in Seq(LoggedCalls)
  OBVIOUS
<1> QED
  BY <1>1, StagesDiffer DEF NegotiationInit, NegotiationInv, NegotiationTypeOK, LoggedCalls

\* Streaming begins only after one offer and one selection of this negotiation,
\* whatever calls were made between and before (negotiation.rs:42-86).
THEOREM AcceptedAfterHandshakeAlways == NegotiationSpec => []AcceptedAfterHandshake
  BY NegotiationStarts, NegotiationStep, NegotiationInvImplies, PTL DEF NegotiationSpec

-----------------------------------------------------------------------------
(* Discovery                                                               *)

DiscoveryInv ==
  /\ DiscoveryTypeOK
  /\ FoundAsAdvertised

LEMMA DiscoveryStep ==
  ASSUME DiscoveryInv, [DiscoveryNext]_discoveryVars
  PROVE  DiscoveryInv'
<1> USE DiscoveryAssumption
<1> USE DEF DiscoveryInv, DiscoveryTypeOK, FoundAsAdvertised, Records, Record, NotAt
<1>1. CASE StopAdvertise
  BY <1>1 DEF StopAdvertise
<1>2. ASSUME NEW addr \in SocketAddrs, Advertise(addr)
      PROVE  DiscoveryInv'
  <2> DEFINE r == Record(Here, addr)
  <2>1. /\ advertised' = r
        /\ services' = NotAt(services, addr) \cup {r}
        /\ lan' = NotAt(lan, addr) \cup {r}
    BY <1>2 DEF Advertise
  <2>2. r \in Records /\ r.host_name = Here /\ r.addr = addr
    BY <1>2
  <2>3. DiscoveryTypeOK'
    BY <2>1, <2>2
  <2>4. FoundAsAdvertised'
    BY <2>1, <2>2
  <2> QED
    BY <2>3, <2>4
<1>3. ASSUME NEW addr \in SocketAddrs, InjectService(addr)
      PROVE  DiscoveryInv'
  <2> DEFINE r == Record(There, addr)
  <2>1. /\ services' = NotAt(services, addr) \cup {r}
        /\ lan' = NotAt(lan, addr) \cup {r}
        /\ UNCHANGED advertised
    BY <1>3 DEF InjectService
  <2>2. r \in Records /\ r.addr = addr
    BY <1>3
  <2>3. DiscoveryTypeOK'
    BY <2>1, <2>2
  <2>4. FoundAsAdvertised'
    BY <2>1, <2>2
  <2> QED
    BY <2>3, <2>4
<1>4. ASSUME NEW addr \in SocketAddrs, RemoveService(addr)
      PROVE  DiscoveryInv'
  BY <1>4 DEF RemoveService
<1>5. CASE UNCHANGED discoveryVars
  BY <1>5 DEF discoveryVars
<1> QED
  BY <1>1, <1>2, <1>3, <1>4, <1>5 DEF DiscoveryNext

LEMMA DiscoveryStarts == DiscoveryInit => DiscoveryInv
  BY DiscoveryAssumption DEF DiscoveryInit, DiscoveryInv, DiscoveryTypeOK, FoundAsAdvertised

\* The last advertisement is found until it is stopped, or removed or replaced at
\* its address; another host is found only while it is there; and an address has
\* one record, for any addresses (discovery.rs:54-86).
THEOREM FoundAsAdvertisedAlways == DiscoverySpec => []FoundAsAdvertised
<1>1. DiscoveryInv => FoundAsAdvertised
  BY DEF DiscoveryInv
<1> QED
  BY <1>1, DiscoveryStarts, DiscoveryStep, PTL DEF DiscoverySpec

-----------------------------------------------------------------------------
(* Screen capture                                                          *)

\* What is held after each call of a grab; SelectObject may have failed.
HeldAfter ==
  /\ GdiTypeOK
  /\ grab # "none" => frame_count < MaxGrabs
  /\ grab = "none" => gdi = {}
  /\ grab = "GetDC" => gdi = {"screenDC"}
  /\ grab = "CreateCompatibleDC" => gdi = {"screenDC", "memDC"}

\* The releases of a whole grab leave nothing, whether the bitmap was selected or not.
LEMMA ReleaseAllReleases ==
  ASSUME NEW g \in SUBSET Handles
  PROVE  ReleaseAll(g) = {}
BY DEF Handles, ReleaseAll, RestoreObject, DeleteObject, DeleteDC, ReleaseDC

LEMMA GdiStep ==
  ASSUME HeldAfter, [GdiNext]_gdiVars
  PROVE  HeldAfter'
<1> USE GdiAssumption DEF HeldAfter, GdiTypeOK
<1>1. CASE UNCHANGED gdiVars
  BY <1>1 DEF gdiVars
<1>2. CASE GrabGetDC
  BY <1>2 DEF GrabGetDC, Goes, Acquire, Handles
<1>3. CASE GrabCreateDC
  BY <1>3 DEF GrabCreateDC, Goes, Acquire, Handles
<1>4. CASE GrabCreateBitmap
  BY <1>4 DEF GrabCreateBitmap, Goes, Acquire, Handles
<1>5. CASE GrabSelect
  BY <1>5 DEF GrabSelect, Goes, Acquire, Handles
<1>6. CASE GrabBitBlt
  BY <1>6 DEF GrabBitBlt, Goes
<1>7. CASE GrabFails
  <2>1. /\ gdi' = {} /\ grab' = "none"
        /\ UNCHANGED <<screen, active, resolution, frame_count>>
    BY <1>7, ReleaseAllReleases
    DEF GrabFails, Fails, EndGrab, DeleteDC, ReleaseDC, Handles
  <2> QED
    BY <2>1
<1>8. CASE GrabFrame
  <2>1. /\ gdi' = {} /\ grab' = "none" /\ frame_count' = frame_count + 1
        /\ frame_count < MaxGrabs
        /\ UNCHANGED <<screen, active, resolution>>
    BY <1>8, ReleaseAllReleases DEF GrabFrame, EndGrab
  <2> QED
    BY <2>1
<1>9. CASE \E size \in ScreenSizes \cup {NoScreen} : ScreenChanges(size)
  BY <1>9 DEF ScreenChanges
<1>10. CASE (\E id \in DisplayIds : Start(id)) \/ Stop
  BY <1>10 DEF Start, Stop
<1> QED
  BY <1>1, <1>2, <1>3, <1>4, <1>5, <1>6, <1>7, <1>8, <1>9, <1>10 DEF GdiNext

LEMMA GdiStarts == GdiInit => HeldAfter
<1> SUFFICES ASSUME GdiInit PROVE HeldAfter
  OBVIOUS
<1>1. 0 \in 0..MaxGrabs
  BY GdiAssumption
<1> QED
  BY <1>1 DEF GdiInit, HeldAfter, GdiTypeOK, Handles

\* Whichever of its calls fails, and also when SelectObject fails unnoticed, a
\* grab gives back every handle it has acquired (gdi.rs:90-166).
THEOREM HandlesReleasedAlways == GdiSpec => []HandlesReleased
<1>1. HeldAfter => HandlesReleased
  BY DEF HeldAfter, HandlesReleased
<1> QED
  BY <1>1, GdiStarts, GdiStep, PTL DEF GdiSpec

-----------------------------------------------------------------------------
(* HostService                                                             *)

\* accept() awaits a handshake with the running host only.
HandshakeHere ==
  accepting # Nobody => host = "listening" /\ peer[accepting] = starts

\* A certificate that was accepted has the fingerprint that is pinned.
VerifiedIsPinned ==
  verified => /\ accepting \in Viewers
              /\ accepting \in Pinning => pinned[accepting] = peer[accepting]

ServiceInv ==
  /\ ServiceTypeOK
  /\ HandshakeHere
  /\ VerifiedIsPinned
  /\ PinnedReachesIssuer

LEMMA ServiceStarts == ServiceInit => ServiceInv
<1> SUFFICES ASSUME ServiceInit PROVE ServiceInv
  OBVIOUS
<1>1. ServiceTypeOK
  <2>1. 0 \in 0..MaxStarts
    BY ServiceAssumption
  <2> QED
    BY <2>1 DEF ServiceInit, ServiceTypeOK
<1>2. HandshakeHere /\ VerifiedIsPinned
  BY DEF ServiceInit, HandshakeHere, VerifiedIsPinned
<1>3. PinnedReachesIssuer
  BY DEF ServiceInit, PinnedReachesIssuer, Viewers
<1> QED
  BY <1>1, <1>2, <1>3 DEF ServiceInv

\* The starts and ends of the process: what it served ends with it, so a new
\* certificate finds nothing that the last one has let in (main.rs:60-63, 82).
LEMMA ProcessKeepsService == ServiceInv /\ Process => ServiceInv'
<1> SUFFICES ASSUME ServiceInv, Process PROVE ServiceInv'
  OBVIOUS
<1> USE ServiceAssumption
<1> USE DEF ServiceInv, ServiceTypeOK, HandshakeHere, VerifiedIsPinned, PinnedReachesIssuer,
            Viewers
<1>1. CASE LoadFails
  BY <1>1 DEF LoadFails
<1>2. CASE Serve
  <2>1. served = {} /\ accepting = Nobody
    BY <1>2 DEF Serve
  <2>2. starts' \in 0..MaxStarts
    BY <1>2 DEF Serve
  <2> QED
    BY <1>2, <2>1, <2>2 DEF Serve
<1>3. CASE CtrlC
  BY <1>3 DEF CtrlC, Exit
<1>4. CASE StartAgain
  BY <1>4 DEF StartAgain
<1> QED
  BY <1>1, <1>2, <1>3, <1>4 DEF Process

\* Giving a fingerprint to a viewer touches no connection: it has none.
LEMMA ShareKeepsService ==
  ASSUME ServiceInv, NEW v \in Pinning, NEW start \in 1..starts, Share(v, start)
  PROVE  ServiceInv'
<1> USE ServiceAssumption DEF ServiceInv
<1>1. start \in 0..MaxStarts
  BY DEF ServiceTypeOK
<1>2. viewer[v] # "connected" /\ v \notin served /\ accepting # v
  BY DEF Share, Away
<1>3. /\ pinned' = [pinned EXCEPT ![v] = start]
      /\ UNCHANGED <<config, host, starts, accepting, verified, served, viewer, peer>>
  BY DEF Share, Fingerprint, Certificate
<1>4. \A w \in Pinning : w # v => pinned'[w] = pinned[w]
  BY <1>3 DEF ServiceTypeOK
<1>5. ServiceTypeOK'
  BY <1>1, <1>3 DEF ServiceTypeOK
<1>6. HandshakeHere' /\ VerifiedIsPinned'
  BY <1>2, <1>3, <1>4 DEF HandshakeHere, VerifiedIsPinned
<1>7. PinnedReachesIssuer'
  BY <1>2, <1>3, <1>4 DEF PinnedReachesIssuer
<1> QED
  BY <1>5, <1>6, <1>7

\* The steps of a connection: what is let in was verified (cert.rs:183-201).
LEMMA ConnectionKeepsService ==
  ASSUME ServiceInv, NEW v \in Viewers, Connection(v)
  PROVE  ServiceInv'
<1> USE ServiceAssumption
<1> USE DEF ServiceInv, ServiceTypeOK, HandshakeHere, VerifiedIsPinned, PinnedReachesIssuer,
            Viewers
<1>1. CASE Dial(v)
  <2>1. viewer[v] # "connected" /\ v \notin served /\ accepting # v
    BY <1>1 DEF Dial, Away
  <2>2. \A w \in Viewers : w # v => peer'[w] = peer[w] /\ viewer'[w] = viewer[w]
    BY <1>1 DEF Dial
  <2>3. viewer'[v] = "dialing" /\ peer'[v] = starts
    BY <1>1 DEF Dial
  <2>4. ServiceTypeOK'
    BY <1>1 DEF Dial
  <2>5. HandshakeHere' /\ VerifiedIsPinned'
    BY <1>1, <2>1, <2>2 DEF Dial
  <2>6. PinnedReachesIssuer'
    BY <1>1, <2>1, <2>2, <2>3 DEF Dial
  <2> QED
    BY <2>4, <2>5, <2>6
<1>2. CASE TakeIncoming(v)
  BY <1>2 DEF TakeIncoming
<1>3. CASE Verify(v)
  <2>1. verified' => (v \in Pinning => pinned[v] = peer[v])
    BY <1>3 DEF Verify, Accepts, Fingerprint, Certificate
  <2>2. viewer'[v] = "connected" => verified'
    BY <1>3 DEF Verify
  <2>3. verified' \in BOOLEAN
    BY <1>3 DEF Verify, Accepts
  <2>4. ServiceTypeOK'
    BY <1>3, <2>3 DEF Verify
  <2>5. \A w \in Viewers : w # v => viewer'[w] = viewer[w]
    BY <1>3 DEF Verify
  <2>6. HandshakeHere' /\ VerifiedIsPinned'
    BY <1>3, <2>1 DEF Verify
  <2>7. PinnedReachesIssuer'
    BY <1>3, <2>1, <2>2, <2>5 DEF Verify
  <2> QED
    BY <2>4, <2>6, <2>7
<1>4. CASE HandshakeOk(v)
  BY <1>4 DEF HandshakeOk
<1>5. CASE HandshakeFail(v)
  BY <1>5 DEF HandshakeFail, Exit
<1>6. CASE SessionEnds(v)
  BY <1>6 DEF SessionEnds
<1>7. CASE Leave(v)
  <2>1. \A w \in Viewers : viewer'[w] = "connected" => viewer[w] = "connected"
    BY <1>7 DEF Leave
  <2>2. ServiceTypeOK'
    BY <1>7 DEF Leave
  <2> QED
    BY <1>7, <2>1, <2>2 DEF Leave
<1> QED
  BY <1>1, <1>2, <1>3, <1>4, <1>5, <1>6, <1>7 DEF Connection

LEMMA ServiceStep == ServiceInv /\ [ServiceNext]_serviceVars => ServiceInv'
<1> SUFFICES ASSUME ServiceInv, [ServiceNext]_serviceVars PROVE ServiceInv'
  OBVIOUS
<1>1. CASE Process
  BY <1>1, ProcessKeepsService
<1>2. CASE InitConfig
  BY <1>2
  DEF InitConfig, ServiceInv, ServiceTypeOK, HandshakeHere, VerifiedIsPinned, PinnedReachesIssuer
<1>3. CASE \E text \in {"good", "broken"} : EditConfig(text)
  BY <1>3
  DEF EditConfig, ServiceInv, ServiceTypeOK, HandshakeHere, VerifiedIsPinned, PinnedReachesIssuer
<1>4. CASE \E v \in Pinning, start \in 1..starts : Share(v, start)
  BY <1>4, ShareKeepsService
<1>5. CASE \E v \in Viewers : Connection(v)
  BY <1>5, ConnectionKeepsService
<1>6. CASE UNCHANGED serviceVars
  BY <1>6
  DEF serviceVars, ServiceInv, ServiceTypeOK, HandshakeHere, VerifiedIsPinned,
      PinnedReachesIssuer
<1> QED
  BY <1>1, <1>2, <1>3, <1>4, <1>5, <1>6 DEF ServiceNext

\* Through any number of restarts, a pinning viewer is connected only with the
\* start of the host whose fingerprint it was given, and a host serves only
\* connections made with itself (cert.rs:183-201, main.rs:60-63).
THEOREM PinnedReachesIssuerAlways == ServiceSpec => []PinnedReachesIssuer
<1>1. ServiceInv => PinnedReachesIssuer
  BY DEF ServiceInv
<1> QED
  BY <1>1, ServiceStarts, ServiceStep, PTL DEF ServiceSpec

-----------------------------------------------------------------------------
(* BitrateController                                                       *)

Timed == FramesOf(Targets)

\* The frames of a log come in the order of their times.
SteadyLog(l) == \A i, j \in 1..Len(l) : i <= j => l[i].ts <= l[j].ts

\* The frames of the window, computed from all the frames recorded.
RecentOf(l) ==
  IF l = <<>> THEN <<>> ELSE SubSeq(l, FirstRecent(l, Len(l)), Len(l))

\* The counts are those of the last frames in a row that were over, or under, the
\* budget of their time, none of them before the quality last moved.
CountsInARow ==
  /\ over <= Len(log) - moved /\ under <= Len(log) - moved
  /\ \A i \in LastOnes(log, over) : Rate(log, i) > log[i].target
  /\ \A i \in LastOnes(log, under) : Rate(log, i) < (log[i].target * 3) \div 4

BitrateInv ==
  /\ BitrateTypeOK
  /\ SteadyLog(log)
  /\ window = RecentOf(log)
  /\ CountsInARow

LEMMA LeastIndex ==
  ASSUME NEW S \in SUBSET Nat, S # {}
  PROVE  \E m \in S : \A n \in S : m <= n
<1>1. PICK m \in S : \A n \in S : ~ (<<n, m>> \in OpToRel(<, Nat))
  BY NatLessThanWellFounded, WFMin
<1>2. \A n \in S : ~ (n < m)
  BY <1>1 DEF OpToRel
<1> QED  BY <1>2

\* In a steady log the recent frames are the last ones.
LEMMA FirstRecentExists ==
  ASSUME NEW l \in Seq(Timed), SteadyLog(l), NEW i \in 1..Len(l)
  PROVE  /\ FirstRecent(l, i) \in 1..i
         /\ \A j \in 1..i : Recent(l, i, j) <=> j >= FirstRecent(l, i)
<1> DEFINE S == {j \in 1..i : Recent(l, i, j)}
<1>1. /\ Len(l) \in Nat /\ i \in 1..i
      /\ \A j \in 1..i : j \in 1..Len(l) /\ l[j] \in Timed
  OBVIOUS
<1>2. \A j \in 1..i : l[j].ts \in Nat
  BY <1>1 DEF Timed, FramesOf
<1>3. i \in S
  BY <1>1, <1>2, BitrateAssumption DEF Recent
<1>4. S \in SUBSET Nat
  BY <1>1
<1>5. PICK k \in S : \A n \in S : k <= n
  BY <1>3, <1>4, LeastIndex
<1>6. k \in 1..i /\ Recent(l, i, k)
  BY <1>5
<1>7. ASSUME NEW j \in 1..i, j >= k
      PROVE  Recent(l, i, j)
  <2>1. l[k].ts <= l[j].ts
    BY <1>1, <1>6, <1>7 DEF SteadyLog
  <2> QED  BY <1>1, <1>2, <1>6, <2>1, BitrateAssumption DEF Recent
<1>8. \A j \in 1..i : Recent(l, i, j) => j >= k
  BY <1>5, <1>6
<1>9. \E m \in 1..i : \A j \in 1..i : Recent(l, i, j) <=> j >= m
  BY <1>6, <1>7, <1>8
<1> QED  BY <1>9 DEF FirstRecent

LEMMA FirstRecentIs ==
  ASSUME NEW l, NEW i \in Nat, NEW k \in 1..i,
         \A j \in 1..i : Recent(l, i, j) <=> j >= k
  PROVE  FirstRecent(l, i) = k
<1>1. \A m \in 1..i : (\A j \in 1..i : Recent(l, i, j) <=> j >= m) => m = k
  <2> SUFFICES ASSUME NEW m \in 1..i, \A j \in 1..i : Recent(l, i, j) <=> j >= m
               PROVE  m = k
    OBVIOUS
  <2>1. Recent(l, i, k) /\ Recent(l, i, m)
    OBVIOUS
  <2>2. k >= m /\ m >= k
    BY <2>1
  <2> QED  BY <2>2
<1> QED  BY <1>1 DEF FirstRecent

\* A frame that joins the log changes no rate of the frames before it.
LEMMA RatesStay ==
  ASSUME NEW l \in Seq(Timed), NEW f \in Timed, SteadyLog(l), NEW i \in 1..Len(l)
  PROVE  /\ Rate(Append(l, f), i) = Rate(l, i)
         /\ Append(l, f)[i] = l[i]
<1> DEFINE m == Append(l, f)
           k == FirstRecent(l, i)
<1>1. /\ Len(l) \in Nat /\ i \in Nat /\ m \in Seq(Timed) /\ Len(m) = Len(l) + 1
      /\ \A j \in 1..Len(l) : m[j] = l[j]
  OBVIOUS
<1>2. k \in 1..i /\ \A j \in 1..i : Recent(l, i, j) <=> j >= k
  BY FirstRecentExists
<1> HIDE DEF m, k
<1>3. \A j \in 1..i : Recent(m, i, j) <=> Recent(l, i, j)
  BY <1>1 DEF Recent
<1>4. FirstRecent(m, i) = k
  BY <1>1, <1>2, <1>3, FirstRecentIs
<1>5. SubSeq(m, k, i) = SubSeq(l, k, i)
  <2>1. k \in Int /\ i \in Int /\ \A j \in k..i : l[j] \in Timed /\ m[j] = l[j]
    BY <1>1, <1>2
  <2>2. /\ SubSeq(l, k, i) \in Seq(Timed) /\ SubSeq(m, k, i) \in Seq(Timed)
        /\ Len(SubSeq(m, k, i)) = Len(SubSeq(l, k, i))
        /\ Len(SubSeq(l, k, i)) = i - k + 1
        /\ \A j \in 1..i - k + 1 : SubSeq(l, k, i)[j] = l[k + j - 1]
        /\ \A j \in 1..i - k + 1 : SubSeq(m, k, i)[j] = m[k + j - 1]
    BY <1>2, <2>1, SubSeqProperties
  <2>3. \A j \in 1..i - k + 1 : k + j - 1 \in k..i
    BY <1>2, <2>1
  <2>4. \A j \in 1..Len(SubSeq(m, k, i)) : SubSeq(m, k, i)[j] = SubSeq(l, k, i)[j]
    BY <2>1, <2>2, <2>3
  <2> QED  BY <2>2, <2>4, SeqEqual
<1>6. Rate(m, i) = Measured(SubSeq(m, k, i)) /\ Rate(l, i) = Measured(SubSeq(l, k, i))
  BY <1>4 DEF Rate, k
<1> QED  BY <1>1, <1>5, <1>6 DEF m

LEMMA AppendSteady ==
  ASSUME NEW l \in Seq(Timed), NEW f \in Timed, SteadyLog(l),
         l = <<>> \/ f.ts >= l[Len(l)].ts
  PROVE  SteadyLog(Append(l, f))
<1> DEFINE m == Append(l, f)
           n == Len(l)
<1>1. /\ n \in Nat /\ Len(m) = n + 1 /\ m[n + 1] = f
      /\ \A j \in 1..n : m[j] = l[j] /\ l[j] \in Timed
  OBVIOUS
<1>2. f.ts \in Nat /\ \A j \in 1..n : l[j].ts \in Nat
  BY <1>1 DEF Timed, FramesOf
<1>3. \A j \in 1..n : l[j].ts <= f.ts
  <2> SUFFICES ASSUME NEW j \in 1..n PROVE l[j].ts <= f.ts
    OBVIOUS
  <2>1. l # <<>> /\ n \in 1..n /\ j <= n
    BY <1>1
  <2>2. l[j].ts <= l[n].ts
    BY <2>1 DEF SteadyLog
  <2> QED  BY <1>2, <2>1, <2>2
<1> HIDE DEF m, n
<1>4. ASSUME NEW i \in 1..n + 1, NEW j \in 1..n + 1, i <= j
      PROVE  m[i].ts <= m[j].ts
  <2>1. CASE j = n + 1
    <3>1. i \in 1..n \/ i = n + 1
      BY <1>1
    <3> QED  BY <1>1, <1>2, <1>3, <2>1, <3>1
  <2>2. CASE j # n + 1
    <3>1. i \in 1..n /\ j \in 1..n
      BY <1>1, <1>4, <2>2
    <3>2. l[i].ts <= l[j].ts
      BY <1>4, <3>1 DEF SteadyLog, n
    <3> QED  BY <1>1, <3>1, <3>2
  <2> QED  BY <2>1, <2>2
<1>5. SteadyLog(m)
  BY <1>1, <1>4 DEF SteadyLog
<1> QED  BY <1>5 DEF m

\* The window as it was, with the new frame and before anything leaves it, is a
\* last part of the log that has all the recent frames.
LEMMA WindowWithNew ==
  ASSUME NEW l \in Seq(Timed), NEW f \in Timed, SteadyLog(l),
         l = <<>> \/ f.ts >= l[Len(l)].ts
  PROVE  \E k \in 1..Len(l) + 1 :
           LET m == Append(l, f)
               n == Len(l) + 1
           IN  /\ Append(RecentOf(l), f) = SubSeq(m, k, n)
               /\ \A j \in 1..n : Recent(m, n, j) => j >= k
<1> DEFINE m == Append(l, f)
           n == Len(l) + 1
           w == RecentOf(l)
<1>1. /\ Len(l) \in Nat /\ n \in Nat /\ Len(l) = n - 1
      /\ m \in Seq(Timed) /\ Len(m) = n /\ m[n] = f
      /\ \A j \in 1..Len(l) : m[j] = l[j] /\ l[j] \in Timed
  OBVIOUS
<1>2. CASE l = <<>>
  <2>1. n = 1 /\ w = <<>> /\ m = <<f>>
    BY <1>2 DEF RecentOf
  <2>2. SubSeq(m, 1, 1) = <<f>>
    BY <1>1, <2>1, SubSeqFull
  <2>3. Append(w, f) = SubSeq(m, 1, n)
    BY <2>1, <2>2
  <2>4. 1 \in 1..n /\ \A j \in 1..n : j >= 1
    BY <1>1
  <2> QED  BY <2>3, <2>4
<1>3. CASE l # <<>>
  <2> DEFINE k == FirstRecent(l, Len(l))
  <2>1. Len(l) \in 1..Len(l)
    BY <1>1, <1>3
  <2>2. k \in 1..Len(l) /\ \A j \in 1..Len(l) : Recent(l, Len(l), j) <=> j >= k
    BY <2>1, FirstRecentExists
  <2>3. w = SubSeq(l, k, Len(l))
    BY <1>3 DEF RecentOf
  <2> HIDE DEF k, m, n, w
  <2>4. k \in 1..n /\ k \in Int /\ n \in Int /\ Len(l) \in Int
    BY <1>1, <2>2
  <2>5. \A j \in k..n : m[j] \in Timed
    BY <1>1, <2>2
  <2>6. \A j \in k..Len(l) : l[j] \in Timed
    BY <1>1, <2>2
  <2>7. /\ w \in Seq(Timed) /\ Len(w) = n - k
        /\ \A j \in 1..n - k : w[j] = l[k + j - 1]
    <3>1. Len(l) - k + 1 = n - k /\ k <= Len(l)
      BY <1>1, <2>2, <2>4
    <3> QED  BY <2>3, <2>4, <2>6, <3>1, SubSeqProperties
  <2>8. /\ Append(w, f) \in Seq(Timed) /\ Len(Append(w, f)) = n - k + 1
        /\ \A j \in 1..n - k : Append(w, f)[j] = w[j]
        /\ Append(w, f)[n - k + 1] = f
    BY <2>4, <2>7
  <2>9. /\ SubSeq(m, k, n) \in Seq(Timed) /\ Len(SubSeq(m, k, n)) = n - k + 1
        /\ \A j \in 1..n - k + 1 : SubSeq(m, k, n)[j] = m[k + j - 1]
    BY <2>4, <2>5, SubSeqProperties
  <2>10. ASSUME NEW j \in 1..n - k + 1
         PROVE  Append(w, f)[j] = SubSeq(m, k, n)[j]
    <3>1. CASE j = n - k + 1
      <4>1. k + j - 1 = n
        BY <2>4, <3>1
      <4> QED  BY <1>1, <2>8, <2>9, <3>1, <4>1
    <3>2. CASE j # n - k + 1
      <4>1. j \in 1..n - k /\ k + j - 1 \in 1..Len(l)
        BY <1>1, <2>4, <3>2
      <4> QED  BY <1>1, <2>7, <2>8, <2>9, <4>1
    <3> QED  BY <3>1, <3>2
  <2>11. Append(w, f) = SubSeq(m, k, n)
    BY <2>8, <2>9, <2>10, SeqEqual
  <2>12. ASSUME NEW j \in 1..n, Recent(m, n, j)
         PROVE  j >= k
    <3>1. CASE j = n
      BY <2>4, <3>1
    <3>2. CASE j # n
      <4>1. j \in 1..Len(l)
        BY <1>1, <3>2
      <4>2. m[j] = l[j] /\ m[n] = f /\ f.ts >= l[Len(l)].ts
        BY <1>1, <1>3, <4>1
      <4>3. f.ts \in Nat /\ l[j].ts \in Nat /\ l[Len(l)].ts \in Nat
        BY <1>1, <2>1, <4>1 DEF Timed, FramesOf
      <4>4. Recent(l, Len(l), j)
        BY <2>12, <4>2, <4>3, BitrateAssumption DEF Recent
      <4> QED  BY <2>2, <4>1, <4>4
    <3> QED  BY <3>1, <3>2
  <2> QED  BY <1>1, <2>4, <2>11, <2>12 DEF m, n, w
<1> QED  BY <1>2, <1>3

\* What evict_old leaves is the recent frames, all of them and no others.
LEMMA EvictsTheOld ==
  ASSUME NEW m \in Seq(Timed), NEW n \in Nat, n = Len(m), NEW k \in 1..n, SteadyLog(m),
         \A j \in 1..n : Recent(m, n, j) => j >= k
  PROVE  Evict(SubSeq(m, k, n), m[n].ts - WindowMs) = RecentOf(m)
<1> DEFINE w == SubSeq(m, k, n)
           r == FirstRecent(m, n)
           cutoff == m[n].ts - WindowMs
           S == {i \in DOMAIN w : w[i].ts >= cutoff}
<1>1. /\ k \in Int /\ n \in Int /\ n \in 1..n /\ k \in 1..Len(m) /\ n \in 1..Len(m)
      /\ \A j \in k..n : m[j] \in Timed
  OBVIOUS
<1>2. /\ w \in Seq(Timed) /\ Len(w) = n - k + 1
      /\ \A i \in 1..n - k + 1 : w[i] = m[k + i - 1]
      /\ DOMAIN w = 1..n - k + 1
  BY <1>1, SubSeqProperties
<1>3. r \in 1..n /\ \A j \in 1..n : Recent(m, n, j) <=> j >= r
  BY <1>1, FirstRecentExists
<1>4. r >= k
  BY <1>3
<1> DEFINE i0 == r - k + 1
<1> HIDE DEF w, r, S
<1>5. i0 \in 1..n - k + 1 /\ k + i0 - 1 = r
  BY <1>1, <1>3, <1>4
<1>6. \A i \in 1..n - k + 1 : i \in S <=> k + i - 1 >= r
  <2> SUFFICES ASSUME NEW i \in 1..n - k + 1 PROVE i \in S <=> k + i - 1 >= r
    OBVIOUS
  <2>1. k + i - 1 \in 1..n
    BY <1>1
  <2>2. i \in S <=> Recent(m, n, k + i - 1)
    BY <1>2 DEF S, Recent
  <2> QED  BY <1>3, <2>1, <2>2
<1>7. i0 \in S /\ \A i \in S : i0 <= i
  <2>1. S \subseteq 1..n - k + 1
    BY <1>2 DEF S
  <2>2. i0 \in S
    BY <1>3, <1>5, <1>6
  <2>3. ASSUME NEW i \in S PROVE i0 <= i
    <3>1. i \in 1..n - k + 1 /\ k + i - 1 >= r
      BY <1>6, <2>1
    <3> QED  BY <1>1, <1>3, <3>1
  <2> QED  BY <2>2, <2>3
<1>8. S \in SUBSET Int
  BY <1>2 DEF S
<1> HIDE DEF i0, cutoff
<1>9. Min(S) = i0
  <2>1. i0 \in Int
    BY <1>7, <1>8
  <2>2. \A x \in S : (\A y \in S : x =< y) => x = i0
    <3> SUFFICES ASSUME NEW x \in S, \A y \in S : x =< y PROVE x = i0
      OBVIOUS
    <3> QED  BY <1>7, <1>8, <2>1
  <2> QED  BY <1>7, <2>2 DEF Min
<1>10. Evict(w, cutoff) = SubSeq(w, i0, n - k + 1)
  BY <1>2, <1>9 DEF Evict, S
<1>11. n - k + 1 \in 1..n - k + 1 /\ k + (n - k + 1) - 1 = n
  BY <1>1, <1>5
<1>12. SubSeq(SubSeq(m, k, n), i0, n - k + 1) = SubSeq(m, k + i0 - 1, k + (n - k + 1) - 1)
  BY <1>1, <1>5, <1>11, SubSeqOfSubSeq
<1>13. SubSeq(w, i0, n - k + 1) = SubSeq(m, r, n)
  BY <1>5, <1>11, <1>12 DEF w
<1>14. m # <<>> /\ RecentOf(m) = SubSeq(m, r, n)
  <2>1. m # <<>>
    BY <1>1
  <2> QED  BY <2>1 DEF RecentOf, r
<1> QED  BY <1>10, <1>13, <1>14 DEF w, cutoff

\* The quality moves by fives, down with three and up with five in a row.
LEMMA QualityMoves ==
  ASSUME BitrateTypeOK, NEW measured, AdjustQuality(measured)
  PROVE  /\ quality' \in {5 * n : n \in 2..20}
         /\ quality \in Int /\ quality' \in Int
         /\ TooMuch(measured) => quality' <= quality
         /\ TooLittle(measured) => quality' >= quality
         /\ OnTarget(measured) => quality' = quality
<1>1. PICK n \in 2..20 : quality = 5 * n
  BY DEF BitrateTypeOK
<1> DEFINE lower == IF quality - 5 >= 10 THEN quality - 5 ELSE 10
           higher == IF quality + 5 <= 100 THEN quality + 5 ELSE 100
<1>2. Max({quality - 5, 10}) = lower /\ Min({quality + 5, 100}) = higher
  <2>1. ASSUME NEW a \in Int, NEW b \in Int
        PROVE  Max({a, b}) = IF a >= b THEN a ELSE b
    <3>1. \A x \in {a, b} : (\A y \in {a, b} : x >= y) <=> x = IF a >= b THEN a ELSE b
      OBVIOUS
    <3>2. (IF a >= b THEN a ELSE b) \in {a, b}
      OBVIOUS
    <3> QED  BY <3>1, <3>2 DEF Max
  <2>2. ASSUME NEW a \in Int, NEW b \in Int
        PROVE  Min({a, b}) = IF a <= b THEN a ELSE b
    <3>1. \A x \in {a, b} : (\A y \in {a, b} : x =< y) <=> x = IF a <= b THEN a ELSE b
      OBVIOUS
    <3>2. (IF a <= b THEN a ELSE b) \in {a, b}
      OBVIOUS
    <3> QED  BY <3>1, <3>2 DEF Min
  <2>3. quality - 5 \in Int /\ quality + 5 \in Int /\ 10 \in Int /\ 100 \in Int
    BY <1>1
  <2> QED  BY <2>1, <2>2, <2>3
<1>3. /\ quality \in {5 * m : m \in 2..20} /\ quality \in Int
      /\ lower \in {5 * m : m \in 2..20} /\ lower <= quality /\ lower \in Int
      /\ higher \in {5 * m : m \in 2..20} /\ higher >= quality /\ higher \in Int
  <2>1. lower = 5 * (IF n = 2 THEN 2 ELSE n - 1) /\ higher = 5 * (IF n = 20 THEN 20 ELSE n + 1)
    BY <1>1
  <2>2. (IF n = 2 THEN 2 ELSE n - 1) \in 2..20 /\ (IF n = 20 THEN 20 ELSE n + 1) \in 2..20
    BY <1>1
  <2>3. lower <= quality /\ higher >= quality /\ lower \in Int /\ higher \in Int
    BY <1>1
  <2> QED  BY <1>1, <2>1, <2>2, <2>3
<1> HIDE DEF lower, higher
<1> DEFINE Moves == quality' \in {5 * m : m \in 2..20} /\ quality' \in Int
<1>4. ASSUME TooMuch(measured) PROVE Moves /\ quality' <= quality
  <2>1. quality' \in {quality, lower}
    BY <1>2, <1>4 DEF TooMuch
  <2> QED  BY <1>3, <2>1
<1>5. ASSUME TooLittle(measured) PROVE Moves /\ quality' >= quality
  <2>1. quality' \in {quality, higher}
    BY <1>2, <1>5 DEF TooLittle
  <2> QED  BY <1>3, <2>1
<1>6. ASSUME OnTarget(measured) PROVE Moves /\ quality' = quality
  BY <1>3, <1>6 DEF OnTarget
<1> HIDE DEF Moves
<1>7. Moves
  BY <1>4, <1>5, <1>6 DEF AdjustQuality
<1> QED  BY <1>3, <1>4, <1>5, <1>6, <1>7 DEF Moves

\* A frame is recorded: its rate is that of all recent frames, and it is over or
\* under the budget as it was judged.
LEMMA FrameRecorded ==
  ASSUME BitrateInv, NEW step \in Steps, NEW size \in FrameSizes,
         RecordFrame(Now + step, size)
  PROVE  /\ log' \in Seq(Timed) /\ Len(log') = Len(log) + 1 /\ SteadyLog(log')
         /\ window' = RecentOf(log') /\ window' \in Seq(Timed)
         /\ AdjustQuality(Rate(log', Len(log) + 1))
         /\ log'[Len(log) + 1].target = target_bps
         /\ \A i \in 1..Len(log) : Rate(log', i) = Rate(log, i) /\ log'[i] = log[i]
<1> DEFINE f == [ts |-> Now + step, size |-> size, target |-> target_bps]
           n == Len(log) + 1
<1> USE DEF BitrateInv
<1>1. /\ log \in Seq(Timed) /\ Len(log) \in Nat /\ n \in Nat /\ SteadyLog(log)
      /\ \A i \in 1..Len(log) : log[i] \in Timed
  BY DEF BitrateTypeOK, Timed
<1>2. Now \in Nat /\ (log # <<>> => Now = log[Len(log)].ts)
  <2>1. CASE log = <<>>
    BY <2>1 DEF Now
  <2>2. CASE log # <<>>
    <3>1. Len(log) \in 1..Len(log)
      BY <1>1, <2>2
    <3>2. log[Len(log)].ts \in Nat
      BY <1>1, <3>1 DEF Timed, FramesOf
    <3> QED  BY <2>2, <3>2 DEF Now, Last
  <2> QED  BY <2>1, <2>2
<1>3. step \in Nat /\ Now + step \in Nat
  BY <1>2, BitrateAssumption
<1>4. f \in Timed /\ f.ts = Now + step /\ f.target = target_bps
  BY <1>3 DEF Timed, FramesOf, BitrateTypeOK
<1>5. log = <<>> \/ f.ts >= log[Len(log)].ts
  BY <1>2, <1>3, <1>4, BitrateAssumption
<1>6. /\ log' = Append(log, f)
      /\ window' = Evict(Append(window, f), f.ts - WindowMs)
      /\ AdjustQuality(Measured(window'))
  BY <1>4 DEF RecordFrame
<1> HIDE DEF f
<1>7. log' \in Seq(Timed) /\ Len(log') = n /\ log'[n] = f
  BY <1>1, <1>4, <1>6
<1>8. SteadyLog(log')
  BY <1>1, <1>4, <1>5, <1>6, AppendSteady
<1>9. PICK k \in 1..n : /\ Append(window, f) = SubSeq(log', k, n)
                        /\ \A j \in 1..n : Recent(log', n, j) => j >= k
  BY <1>1, <1>4, <1>5, <1>6, WindowWithNew
<1>10. Evict(SubSeq(log', k, n), log'[n].ts - WindowMs) = RecentOf(log')
  BY <1>1, <1>7, <1>8, <1>9, EvictsTheOld
<1>11. window' = RecentOf(log')
  BY <1>6, <1>7, <1>9, <1>10
<1> HIDE DEF n
<1>12. n \in 1..n /\ log' # <<>>
  BY <1>1, <1>7 DEF n
<1>13. RecentOf(log') = SubSeq(log', FirstRecent(log', n), n)
  BY <1>7, <1>12 DEF RecentOf
<1>14. Measured(window') = Rate(log', n)
  BY <1>11, <1>13 DEF Rate
<1>15. window' \in Seq(Timed)
  <2>1. FirstRecent(log', n) \in 1..n
    BY <1>7, <1>8, <1>12, FirstRecentExists
  <2>2. FirstRecent(log', n) \in Int /\ n \in Int
        /\ \A j \in FirstRecent(log', n)..n : log'[j] \in Timed
    BY <1>7, <1>12, <2>1
  <2> QED  BY <1>11, <1>13, <2>2, SubSeqProperties
<1>16. \A i \in 1..Len(log) : Rate(log', i) = Rate(log, i) /\ log'[i] = log[i]
  BY <1>1, <1>4, <1>6, RatesStay
<1> QED  BY <1>4, <1>6, <1>7, <1>8, <1>11, <1>14, <1>15, <1>16 DEF n

LEMMA RecordKeepsRate ==
  ASSUME BitrateInv, NEW step \in Steps, NEW size \in FrameSizes,
         RecordFrame(Now + step, size)
  PROVE  /\ BitrateInv'
         /\ quality' < quality =>
              /\ Len(log') - moved >= 3
              /\ \A i \in LastOnes(log', 3) : Rate(log', i) > log'[i].target
         /\ quality' > quality =>
              /\ Len(log') - moved >= 5
              /\ \A i \in LastOnes(log', 5) :
                   Rate(log', i) < (log'[i].target * 3) \div 4
<1> DEFINE n == Len(log)
           rate == Rate(log', n + 1)
<1> USE DEF BitrateInv
<1>1. /\ log' \in Seq(Timed) /\ Len(log') = n + 1 /\ SteadyLog(log')
      /\ window' = RecentOf(log') /\ window' \in Seq(Timed)
      /\ AdjustQuality(rate)
      /\ log'[n + 1].target = target_bps
      /\ \A i \in 1..n : Rate(log', i) = Rate(log, i) /\ log'[i] = log[i]
  BY FrameRecorded
<1>2. /\ n \in Nat /\ moved \in 0..n /\ over \in 0..2 /\ under \in 0..4
      /\ over <= n - moved /\ under <= n - moved
  BY DEF BitrateTypeOK, CountsInARow
<1>3. /\ moved' = (IF quality' # quality THEN n + 1 ELSE moved)
      /\ target_bps' = target_bps /\ retargets' = retargets
  BY <1>1 DEF RecordFrame
<1>4. quality \in Int /\ quality' \in {5 * m : m \in 2..20} /\ quality' \in Int
  BY <1>1, QualityMoves
<1> DEFINE Over(i) == Rate(log', i) > log'[i].target
           Under(i) == Rate(log', i) < (log'[i].target * 3) \div 4
<1> HIDE DEF n, rate
<1>5. /\ \A i \in n - over + 1..n : Over(i)
      /\ \A i \in n - under + 1..n : Under(i)
  <2>1. \A i \in n - over + 1..n : i \in 1..n
    BY <1>2
  <2>2. \A i \in n - under + 1..n : i \in 1..n
    BY <1>2
  <2> QED  BY <1>1, <2>1, <2>2 DEF CountsInARow, LastOnes, n
<1>6. n + 1 \in Nat /\ n + 1 - 0 + 1 > n + 1
      /\ \A c \in Nat : LastOnes(log', c) = n + 1 - c + 1..n + 1
  BY <1>1, <1>2 DEF LastOnes
<1> DEFINE Cut == quality' < quality =>
              /\ Len(log') - moved >= 3
              /\ \A i \in LastOnes(log', 3) : Over(i)
           Raised == quality' > quality =>
              /\ Len(log') - moved >= 5
              /\ \A i \in LastOnes(log', 5) : Under(i)
           Counted == /\ moved' \in 0..n + 1 /\ over' \in 0..2 /\ under' \in 0..4
                      /\ over' <= n + 1 - moved' /\ under' <= n + 1 - moved'
                      /\ \A i \in LastOnes(log', over') : Over(i)
                      /\ \A i \in LastOnes(log', under') : Under(i)
<1>7. ASSUME TooMuch(rate) PROVE Cut /\ Raised /\ Counted
  <2>1. quality' <= quality /\ Over(n + 1) /\ under' = 0
    BY <1>1, <1>7, QualityMoves DEF TooMuch, rate
  <2>2. \A i \in n + 1 - (over + 1) + 1..n + 1 : Over(i)
    BY <1>2, <1>5, <2>1
  <2> HIDE DEF Over, Under
  <2>3. CASE over + 1 >= 3
    <3>1. over' = 0 /\ over = 2
      BY <1>2, <1>7, <2>3 DEF TooMuch
    <3>2. Cut /\ Raised
      BY <1>1, <1>2, <1>4, <1>6, <2>1, <2>2, <3>1
    <3>3. Counted
      BY <1>2, <1>3, <1>6, <2>1, <3>1
    <3> QED  BY <3>2, <3>3
  <2>4. CASE over + 1 < 3
    <3>1. over' = over + 1 /\ quality' = quality
      BY <1>2, <1>7, <2>4 DEF TooMuch
    <3>2. Cut /\ Raised
      BY <1>4, <3>1
    <3>3. Counted
      BY <1>2, <1>3, <1>6, <2>1, <2>2, <2>4, <3>1
    <3> QED  BY <3>2, <3>3
  <2> QED  BY <1>2, <2>3, <2>4
<1>8. ASSUME TooLittle(rate) PROVE Cut /\ Raised /\ Counted
  <2>1. quality' >= quality /\ Under(n + 1) /\ over' = 0
    BY <1>1, <1>8, QualityMoves DEF TooLittle, rate
  <2>2. \A i \in n + 1 - (under + 1) + 1..n + 1 : Under(i)
    BY <1>2, <1>5, <2>1
  <2> HIDE DEF Over, Under
  <2>3. CASE under + 1 >= 5
    <3>1. under' = 0 /\ under = 4
      BY <1>2, <1>8, <2>3 DEF TooLittle
    <3>2. Len(log') - moved >= 5
      BY <1>1, <1>2, <3>1
    <3>3. LastOnes(log', 5) = n + 1 - (under + 1) + 1..n + 1
      BY <1>1, <1>6, <3>1
    <3>4. Cut /\ Raised
      <4>1. \A i \in LastOnes(log', 5) : Under(i)
        BY <2>2, <3>3
      <4>2. ~ (quality' < quality)
        BY <1>4, <2>1
      <4> QED  BY <3>2, <4>1, <4>2
    <3>5. Counted
      BY <1>2, <1>3, <1>6, <2>1, <3>1
    <3> QED  BY <3>4, <3>5
  <2>4. CASE under + 1 < 5
    <3>1. under' = under + 1 /\ quality' = quality
      BY <1>2, <1>8, <2>4 DEF TooLittle
    <3>2. Cut /\ Raised
      BY <1>4, <3>1
    <3>3. Counted
      BY <1>2, <1>3, <1>6, <2>1, <2>2, <2>4, <3>1
    <3> QED  BY <3>2, <3>3
  <2> QED  BY <1>2, <2>3, <2>4
<1>9. ASSUME OnTarget(rate) PROVE Cut /\ Raised /\ Counted
  <2>1. over' = 0 /\ under' = 0 /\ quality' = quality
    BY <1>9 DEF OnTarget
  <2> HIDE DEF Over, Under
  <2>2. Cut /\ Raised
    BY <1>4, <2>1
  <2>3. Counted
    BY <1>2, <1>3, <1>6, <2>1
  <2> QED  BY <2>2, <2>3
<1> HIDE DEF Cut, Raised, Counted
<1>10. Cut /\ Raised /\ Counted
  BY <1>1, <1>7, <1>8, <1>9 DEF AdjustQuality
<1>11. BitrateTypeOK'
  BY <1>1, <1>3, <1>4, <1>10 DEF Counted, BitrateTypeOK, Timed
<1>12. CountsInARow'
  <2>1. over' <= Len(log') - moved' /\ under' <= Len(log') - moved'
    <3>1. /\ over' <= n + 1 - moved' /\ under' <= n + 1 - moved'
          /\ moved' \in 0..n + 1 /\ over' \in 0..2 /\ under' \in 0..4
      BY <1>10 DEF Counted
    <3>2. Len(log') = n + 1
      BY <1>1
    <3> DEFINE l2 == Len(log')
               m2 == moved'
    <3>3. l2 = n + 1 /\ m2 \in 0..n + 1 /\ over' <= n + 1 - m2 /\ under' <= n + 1 - m2
      BY <3>1, <3>2
    <3> HIDE DEF l2, m2
    <3>4. over' <= l2 - m2 /\ under' <= l2 - m2
      BY <1>2, <3>1, <3>3
    <3> QED  BY <3>4 DEF l2, m2
  <2>2. /\ \A i \in LastOnes(log', over') : Over(i)
        /\ \A i \in LastOnes(log', under') : Under(i)
    BY <1>10 DEF Counted
  <2> QED  BY <2>1, <2>2 DEF CountsInARow
<1> QED  BY <1>1, <1>10, <1>11, <1>12 DEF Cut, Raised

LEMMA BitrateStep ==
  ASSUME BitrateInv, [BitrateNext]_bitrateVars
  PROVE  /\ BitrateInv'
         /\ quality' < quality =>
              /\ Len(log') - moved >= 3
              /\ \A i \in LastOnes(log', 3) : Rate(log', i) > log'[i].target
         /\ quality' > quality =>
              /\ Len(log') - moved >= 5
              /\ \A i \in LastOnes(log', 5) :
                   Rate(log', i) < (log'[i].target * 3) \div 4
<1>1. quality \in Int
  BY DEF BitrateInv, BitrateTypeOK
<1>2. CASE UNCHANGED bitrateVars
  BY <1>1, <1>2 DEF bitrateVars, BitrateInv, BitrateTypeOK, CountsInARow, RecentOf
<1>3. ASSUME NEW target \in Targets, SetTarget(target)
      PROVE  BitrateInv' /\ quality' = quality
  <2>1. /\ target_bps' \in Targets /\ retargets' \in 0..MaxRetargets
        /\ UNCHANGED <<quality, window, over, under, log, moved>>
    BY <1>3, BitrateAssumption DEF SetTarget, BitrateInv, BitrateTypeOK
  <2> QED  BY <2>1 DEF BitrateInv, BitrateTypeOK, CountsInARow, RecentOf
<1> QED  BY <1>1, <1>2, <1>3, RecordKeepsRate DEF BitrateNext

LEMMA BitrateStarts == BitrateInit => BitrateInv
<1> SUFFICES ASSUME BitrateInit PROVE BitrateInv
  OBVIOUS
<1>1. <<>> \in Seq(FramesOf(Targets)) /\ Len(<<>>) = 0 /\ 80 = 5 * 16
  OBVIOUS
<1>2. BitrateTypeOK
  BY <1>1, BitrateAssumption DEF BitrateInit, BitrateTypeOK
<1>3. SteadyLog(log) /\ window = RecentOf(log) /\ CountsInARow
  BY <1>1 DEF BitrateInit, SteadyLog, RecentOf, CountsInARow, LastOnes
<1> QED  BY <1>2, <1>3 DEF BitrateInv

\* However frames and new targets follow each other: the quality is cut only on
\* three frames in a row over the budget of their time, and raised only on five
\* below three quarters of it, by the rate of all frames really sent within the
\* window (bitrate.rs:36-57, 80-100).
THEOREM QualityMovesOnEvidence == BitrateSpec => QualityOnEvidence
<1>1. BitrateInv /\ [BitrateNext]_bitrateVars =>
        [/\ quality' < quality =>
              /\ Len(log') - moved >= 3
              /\ \A i \in LastOnes(log', 3) : Rate(log', i) > log'[i].target
         /\ quality' > quality =>
              /\ Len(log') - moved >= 5
              /\ \A i \in LastOnes(log', 5) :
                   Rate(log', i) < (log'[i].target * 3) \div 4]_bitrateVars
  BY BitrateStep
<1>2. BitrateInv /\ [BitrateNext]_bitrateVars => BitrateInv'
  BY BitrateStep
<1> QED  BY <1>1, <1>2, BitrateStarts, PTL DEF BitrateSpec, QualityOnEvidence

-----------------------------------------------------------------------------
(* The parts together                                                      *)

\* Each part keeps its own invariant, in focus or not.
PartsInv ==
  /\ IInv /\ PowerInv /\ NegotiationInv /\ DiscoveryInv
  /\ HeldAfter /\ BitrateInv /\ ServiceInv /\ MetricsInv

LEMMA PartsStart == Init => PartsInv
  BY InitIInv, PowerStarts, NegotiationStarts, DiscoveryStarts, GdiStarts, BitrateStarts,
     ServiceStarts, MetricsStarts
  DEF Init, PartsInv

LEMMA PartsKeep == PartsInv /\ [Next]_vars => PartsInv'
<1> SUFFICES ASSUME PartsInv, [Next]_vars PROVE PartsInv'
  OBVIOUS
<1>1. /\ [WallNext]_wallVars /\ [PowerNext]_powerVars
      /\ [NegotiationNext]_negotiationVars /\ [DiscoveryNext]_discoveryVars
      /\ [GdiNext]_gdiVars /\ [BitrateNext]_bitrateVars
      /\ [ServiceNext]_serviceVars /\ [MetricsNext]_metricsVars
  BY DEF Next, vars
<1>2. IInv' /\ PowerInv' /\ NegotiationInv' /\ DiscoveryInv'
  BY <1>1, NextIInv, PowerStep, NegotiationStep, DiscoveryStep DEF PartsInv
<1>3. HeldAfter' /\ BitrateInv' /\ ServiceInv' /\ MetricsInv'
  BY <1>1, GdiStep, BitrateStep, ServiceStep, MetricsStep DEF PartsInv
<1> QED  BY <1>2, <1>3 DEF PartsInv

\* The state of every part keeps its type, for any clients, displays, times,
\* addresses, screens, targets, viewers and tasks (wall.rs:16-18, power.rs:20-23,
\* negotiation.rs:21-23, discovery.rs:40-43, gdi.rs:20-25, bitrate.rs:7-20,
\* metrics.rs:11-26).
THEOREM HostTypeCorrect == Spec => []TypeOK
<1>1. PartsInv => TypeOK
  BY DEF PartsInv, TypeOK, IInv, PowerInv, NegotiationInv, DiscoveryInv, HeldAfter,
         BitrateInv, ServiceInv, MetricsInv
<1> QED  BY <1>1, PartsStart, PartsKeep, PTL DEF Spec
=============================================================================
