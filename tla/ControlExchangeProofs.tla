------------------------ MODULE ControlExchangeProofs ------------------------
(***************************************************************************)
(* Proofs about ControlExchange, for any timestamps, any of the viewers    *)
(* it knows and a network that may or may not fail.  The inductive         *)
(* invariant follows each direction of the stream: what is on its way is   *)
(* a stretch of what its sender set out to write, and it starts where the  *)
(* reader has got to.                                                      *)
(***************************************************************************)
EXTENDS ControlExchange, SequenceTheorems, TLAPS

-----------------------------------------------------------------------------
(* Stretches of a message                                                  *)

\* Queue q holds what comes after the first n units of message.
Follows(q, n, message) == \A i \in 1..Len(q) : q[i] = message[n + i]

LEMMA FollowsRead ==
  ASSUME NEW q \in Seq(Units), NEW n \in Nat, NEW message,
         Follows(q, n, message), q # <<>>
  PROVE  /\ Tail(q) \in Seq(Units)
         /\ Len(q) \in Nat /\ Len(q) > 0
         /\ Len(Tail(q)) = Len(q) - 1
         /\ Follows(Tail(q), n + 1, message)
         /\ Head(q) = message[n + 1]
         /\ Head(q) \in Units
<1>1. /\ Len(q) \in Nat /\ Len(q) > 0 /\ Tail(q) \in Seq(Units)
      /\ Len(Tail(q)) = Len(q) - 1 /\ Head(q) \in Units
      /\ \A i \in 1..Len(Tail(q)) : Tail(q)[i] = q[i + 1]
      /\ Head(q) = q[1]
  BY HeadTailProperties, EmptySeq, LenProperties
<1>2. ASSUME NEW i \in 1..Len(Tail(q))
      PROVE  Tail(q)[i] = message[(n + 1) + i]
  <2>1. i + 1 \in 1..Len(q) /\ n + (i + 1) = (n + 1) + i
    BY <1>1, <1>2
  <2> QED  BY <1>1, <1>2, <2>1 DEF Follows
<1>3. Head(q) = message[n + 1]
  BY <1>1 DEF Follows
<1> QED  BY <1>1, <1>2, <1>3 DEF Follows

LEMMA FollowsWrite ==
  ASSUME NEW q \in Seq(Units), NEW n \in Nat, NEW message, NEW e \in Units,
         Follows(q, n, message), e = message[n + Len(q) + 1]
  PROVE  /\ Append(q, e) \in Seq(Units)
         /\ Len(q) \in Nat
         /\ Len(Append(q, e)) = Len(q) + 1
         /\ Follows(Append(q, e), n, message)
<1>1. /\ Append(q, e) \in Seq(Units) /\ Len(q) \in Nat
      /\ Len(Append(q, e)) = Len(q) + 1
      /\ \A i \in 1..Len(q) : Append(q, e)[i] = q[i]
      /\ Append(q, e)[Len(q) + 1] = e
  BY AppendProperties, LenProperties
<1>2. ASSUME NEW i \in 1..(Len(q) + 1)
      PROVE  Append(q, e)[i] = message[n + i]
  <2>1. CASE i \in 1..Len(q)
    BY <1>1, <2>1 DEF Follows
  <2>2. CASE i = Len(q) + 1
    BY <1>1, <2>2
  <2> QED  BY <1>1, <2>1, <2>2
<1> QED  BY <1>1, <1>2 DEF Follows

LEMMA FollowsNothing ==
  ASSUME NEW n, NEW message
  PROVE  /\ <<>> \in Seq(Units)
         /\ Len(<<>>) = 0
         /\ Follows(<<>>, n, message)
  BY DEF Follows

\* A delivery moves the head of what is on its way to the end of what has
\* arrived: together they hold the same stretch.
LEMMA FollowsMove ==
  ASSUME NEW a \in Seq(Units), NEW b \in Seq(Units), NEW n \in Nat, NEW message,
         b # <<>>
  PROVE  /\ Append(a, Head(b)) \in Seq(Units) /\ Tail(b) \in Seq(Units)
         /\ Len(Append(a, Head(b))) + Len(Tail(b)) = Len(a) + Len(b)
         /\ Follows(a, n, message) /\ Follows(b, n + Len(a), message) =>
              /\ Follows(Append(a, Head(b)), n, message)
              /\ Follows(Tail(b), n + Len(Append(a, Head(b))), message)
<1>1. /\ Len(a) \in Nat /\ Len(b) \in Nat /\ Len(b) > 0
      /\ Head(b) \in Units /\ Tail(b) \in Seq(Units) /\ Len(Tail(b)) = Len(b) - 1
      /\ Append(a, Head(b)) \in Seq(Units) /\ Len(Append(a, Head(b))) = Len(a) + 1
  BY HeadTailProperties, AppendProperties, LenProperties, EmptySeq
<1>2. Len(Append(a, Head(b))) + Len(Tail(b)) = Len(a) + Len(b)
  BY <1>1
<1>3. ASSUME Follows(a, n, message), Follows(b, n + Len(a), message)
      PROVE  /\ Follows(Append(a, Head(b)), n, message)
             /\ Follows(Tail(b), n + Len(Append(a, Head(b))), message)
  <2>1. n + Len(a) \in Nat /\ n + (Len(a) + 1) = (n + Len(a)) + 1
    BY <1>1
  <2>2. /\ Follows(Tail(b), (n + Len(a)) + 1, message)
        /\ Head(b) = message[(n + Len(a)) + 1]
    BY <1>3, <2>1, FollowsRead
  <2>3. Head(b) = message[n + Len(a) + 1]
    BY <2>2
  <2>4. Follows(Append(a, Head(b)), n, message)
    BY <1>1, <1>3, <2>3, FollowsWrite
  <2> QED  BY <1>1, <2>1, <2>2, <2>4
<1> QED  BY <1>1, <1>2, <1>3

\* A read takes the next unit, and the stretch goes on after it.
LEMMA FollowsTake ==
  ASSUME NEW a \in Seq(Units), NEW b \in Seq(Units), NEW n \in Nat, NEW message,
         a # <<>>, Follows(a, n, message), Follows(b, n + Len(a), message)
  PROVE  /\ Head(a) = message[n + 1] /\ Head(a) \in Units
         /\ Follows(Tail(a), n + 1, message)
         /\ Follows(b, (n + 1) + Len(Tail(a)), message)
         /\ (n + 1) + (Len(Tail(a)) + Len(b)) = n + (Len(a) + Len(b))
<1>1. /\ Len(a) \in Nat /\ Len(a) > 0 /\ Len(Tail(a)) = Len(a) - 1
      /\ Head(a) = message[n + 1] /\ Head(a) \in Units
      /\ Follows(Tail(a), n + 1, message)
  BY FollowsRead
<1>2. Len(b) \in Nat
  BY LenProperties
<1>3. (n + 1) + (Len(a) - 1) = n + Len(a)
  BY <1>1
<1>4. (n + 1) + ((Len(a) - 1) + Len(b)) = n + (Len(a) + Len(b))
  BY <1>1, <1>2
<1> QED  BY <1>1, <1>3, <1>4

-----------------------------------------------------------------------------
(* What a viewer may set out to write                                      *)

Plans == {PingPlan(t) : t \in Stamps} \cup OtherPlans

\* The kinds of a plan's units tell which plan it is.
LEMMA PlanShape ==
  ASSUME NEW p \in Plans
  PROVE  /\ Len(p) \in 1..3
         /\ \A i \in 1..Len(p) : p[i] \in Units
         /\ p[1].kind \notin {"control", "video", "input"} => p = Unknown
         /\ p[1].kind \in {"video", "input"} => p \in Unanswered
         /\ Len(p) >= 2 /\ p[2].kind # "fits" => p = TooLarge
         /\ Len(p) = 3 /\ p[3].kind = "garbage" => p = Garbage
         /\ Len(p) = 3 /\ p[3].kind = "ping" =>
              /\ p \in {PingPlan(t) : t \in Stamps}
              /\ p[3].stamp \in Stamps
         /\ Len(p) = 3 /\ p[3].kind \notin {"ping", "garbage"} => p \in Unanswered
         /\ p \in {PingPlan(t) : t \in Stamps} => p \notin Unanswered
<1> USE ExchangeAssumption DEF Unit, Ping, Units
<1>0. /\ Video[1].kind = "video" /\ Len(Video) = 1
      /\ Input[1].kind = "input" /\ Len(Input) = 1
      /\ Len(OtherMessage) = 3 /\ OtherMessage[3].kind = "keepAlive"
  BY DEF Video, Input, OtherMessage
<1>1. CASE p \in {PingPlan(t) : t \in Stamps}
  <2>1. PICK t \in Stamps : p = PingPlan(t)
    BY <1>1
  <2>2. /\ Len(p) = 3 /\ p[1] = Unit("control") /\ p[2] = Unit("fits") /\ p[3] = Ping(t)
        /\ p[3].kind = "ping" /\ \A i \in 1..3 : p[i] \in Units
    BY <2>1 DEF PingPlan
  <2>3. p \notin Unanswered
    BY <1>0, <2>2 DEF Unanswered
  <2> QED  BY <1>1, <2>2, <2>3
<1>2. CASE p \in {Video, Input}
  <2>1. Len(p) = 1 /\ p[1].kind \in {"video", "input"} /\ p[1] \in Units /\ p \in Unanswered
    BY <1>2 DEF Video, Input, Unanswered
  <2>2. \A q \in {PingPlan(t) : t \in Stamps} : Len(q) = 3
    BY DEF PingPlan
  <2> QED  BY <2>1, <2>2
<1>3. CASE p = Unknown
  BY <1>3, <1>0 DEF Unknown, PingPlan, Unanswered
<1>4. CASE p \in {TooLarge, Truncated}
  BY <1>4, <1>0 DEF TooLarge, Truncated, PingPlan, Unanswered
<1>5. CASE p = OtherMessage
  <2>1. /\ Len(p) = 3 /\ p[1].kind = "control" /\ p[2].kind = "fits"
        /\ p[3].kind = "keepAlive" /\ \A i \in 1..3 : p[i] \in Units
        /\ p \in Unanswered
    BY <1>5 DEF OtherMessage, Unanswered
  <2>2. \A q \in {PingPlan(t) : t \in Stamps} : q[3].kind = "ping"
    BY DEF PingPlan
  <2> QED  BY <2>1, <2>2
<1>6. CASE p = Garbage
  BY <1>6, <1>0 DEF Garbage, PingPlan, Unanswered
<1> QED  BY <1>1, <1>2, <1>3, <1>4, <1>5, <1>6 DEF Plans, OtherPlans

-----------------------------------------------------------------------------
(* The inductive invariant                                                 *)

Shape ==
  /\ plan \in Plans
  /\ written \in 0..Len(plan)
  /\ viewer = "writing" => written < Len(plan)
  /\ viewer \in ViewerStates
  /\ host \in HostStates
  /\ buf \in [Sides -> Seq(Units)]
  /\ arrived \in [Sides -> Seq(Units)]
  /\ conn \in [Sides -> {"open", "closed"}]
  /\ stamp \in Stamps \cup {0}
  /\ got \in Units

HostPast == [accept |-> 0, readLen |-> 1, readBody |-> 2]
OnWayToHost == Len(arrived["host"]) + Len(buf["viewer"])

\* While the host reads, it has before it the plan from where it stopped, and
\* all that was written unless the viewer's end has gone.
RequestInOrder ==
  host \in HostReads =>
    /\ HostPast[host] + OnWayToHost <= written
    /\ conn["viewer"] = "open" => HostPast[host] + OnWayToHost = written
    /\ Follows(arrived["host"], HostPast[host], plan)
    /\ Follows(buf["viewer"], HostPast[host] + Len(arrived["host"]), plan)

\* The host decodes a stamp only from a viewer's Ping, and answers only that.
StampFromPing ==
  /\ stamp # 0 =>
       /\ IsPing /\ stamp = plan[3].stamp
       /\ host \notin HostReads
  /\ host \in HostWrites => stamp # 0

Reply == <<Unit("fits"), Pong(stamp)>>
MayHaveReplied ==
  IF stamp = 0 THEN 0
  ELSE IF host \in {"dropOk", "ok"} THEN 2
  ELSE IF host \in {"replyBody", "dropErr", "err", "dropCut", "cut"} THEN 1 ELSE 0

ViewerPast == [writing |-> 0, readLen |-> 0, readBody |-> 1, done |-> 2]
OnWayToViewer == Len(arrived["viewer"]) + Len(buf["host"])

\* A viewer that has not failed has before it the reply from where it stopped,
\* as far as the host has written it.
ReplyInOrder ==
  viewer # "failed" =>
    /\ ViewerPast[viewer] + OnWayToViewer <= MayHaveReplied
    /\ conn["host"] = "open" /\ host = "replyBody" =>
         ViewerPast[viewer] + OnWayToViewer = 1
    /\ conn["host"] = "open" /\ host = "dropOk" /\ stamp # 0 =>
         ViewerPast[viewer] + OnWayToViewer = 2
    /\ Follows(arrived["viewer"], ViewerPast[viewer], Reply)
    /\ Follows(buf["host"], ViewerPast[viewer] + Len(arrived["viewer"]), Reply)
    /\ viewer = "done" => got = Pong(stamp)

ErrorJust ==
  host = "dropErr" => conn["host"] = "closed" \/ plan \in {Unknown, TooLarge, Garbage}

\* The host ends with Ok after its reply, or where none is due.
OkJust == host \in {"dropOk", "ok"} => stamp # 0 \/ plan \in Unanswered

IInv ==
  /\ Shape
  /\ RequestInOrder
  /\ StampFromPing
  /\ ReplyInOrder
  /\ ErrorJust
  /\ OkJust

-----------------------------------------------------------------------------
(* The steps                                                               *)

\* What the invariant says of the lengths.
LEMMA Lengths ==
  ASSUME Shape
  PROVE  /\ \A s \in Sides : /\ Len(buf[s]) \in Nat /\ Len(arrived[s]) \in Nat
                            /\ buf[s] \in Seq(Units) /\ arrived[s] \in Seq(Units)
         /\ "host" \in Sides /\ "viewer" \in Sides /\ Sides = {"host", "viewer"}
         /\ written \in Nat /\ Len(plan) \in 1..3
         /\ host \in HostReads => HostPast[host] \in 0..2
         /\ viewer # "failed" => ViewerPast[viewer] \in 0..2
         /\ MayHaveReplied \in 0..2
<1>1. Sides = {"host", "viewer"}
  BY DEF Sides
<1>2. \A s \in Sides : buf[s] \in Seq(Units) /\ arrived[s] \in Seq(Units)
  BY DEF Shape
<1>3. written \in Nat /\ Len(plan) \in 1..3
  BY PlanShape DEF Shape
<1>4. host \in HostReads => HostPast[host] \in 0..2
  BY DEF HostReads, HostPast
<1>5. viewer # "failed" => ViewerPast[viewer] \in 0..2
  BY DEF Shape, ViewerStates, ViewerPast
<1>6. MayHaveReplied \in 0..2
  BY DEF MayHaveReplied
<1> QED  BY <1>1, <1>2, <1>3, <1>4, <1>5, <1>6, LenProperties

LEMMA InitKeeps ==
  ASSUME Init
  PROVE  IInv
<1>1. plan \in Plans
  BY DEF Init, Plans
<1>2. Len(plan) \in 1..3
  BY <1>1, PlanShape
<1>3. /\ arrived["host"] = <<>> /\ arrived["viewer"] = <<>>
      /\ buf["host"] = <<>> /\ buf["viewer"] = <<>>
      /\ <<>> \in Seq(Units) /\ Len(<<>>) = 0
  BY DEF Init, Sides
<1>4. buf \in [Sides -> Seq(Units)] /\ arrived \in [Sides -> Seq(Units)]
  BY <1>3 DEF Init
<1>5. Shape
  <2>1. written \in 0..Len(plan) /\ written < Len(plan) /\ stamp \in Stamps \cup {0}
    BY <1>2 DEF Init
  <2>2. viewer \in ViewerStates /\ host \in HostStates /\ got \in Units
    BY DEF Init, ViewerStates, HostStates, HostReads, Units, Unit
  <2>3. conn \in [Sides -> {"open", "closed"}]
    BY DEF Init
  <2> QED  BY <1>1, <1>4, <2>1, <2>2, <2>3 DEF Shape
<1>6. \A n : Follows(<<>>, n, plan) /\ Follows(<<>>, n, Reply)
  BY FollowsNothing
<1>7. RequestInOrder
  <2>1. HostPast[host] = 0
    BY DEF Init, HostPast
  <2>2. Len(arrived["host"]) = 0 /\ Len(buf["viewer"]) = 0
    BY <1>3
  <2>3. OnWayToHost = 0
    BY <2>2 DEF OnWayToHost
  <2> QED  BY <1>3, <1>6, <2>1, <2>3 DEF Init, RequestInOrder
<1>8. StampFromPing
  BY DEF Init, StampFromPing, HostWrites
<1>9. ReplyInOrder
  <2>1. ViewerPast[viewer] = 0 /\ MayHaveReplied = 0
    BY DEF Init, ViewerPast, MayHaveReplied
  <2>2. Len(arrived["viewer"]) = 0 /\ Len(buf["host"]) = 0
    BY <1>3
  <2>3. OnWayToViewer = 0
    BY <2>2 DEF OnWayToViewer
  <2> QED  BY <1>3, <1>6, <2>1, <2>3 DEF Init, ReplyInOrder
<1> QED  BY <1>5, <1>7, <1>8, <1>9 DEF Init, IInv, ErrorJust, OkJust

LEMMA DeliverToHost ==
  ASSUME IInv, Deliver("viewer")
  PROVE  IInv'
<1> USE DEF IInv
<1>1. /\ buf["viewer"] \in Seq(Units) /\ arrived["host"] \in Seq(Units)
      /\ "host" \in Sides /\ "viewer" \in Sides
      /\ host \in HostReads => HostPast[host] \in Nat
  BY Lengths
<1>2. /\ buf["viewer"] # <<>>
      /\ buf'["viewer"] = Tail(buf["viewer"]) /\ buf'["host"] = buf["host"]
      /\ arrived'["host"] = Append(arrived["host"], Head(buf["viewer"]))
      /\ arrived'["viewer"] = arrived["viewer"]
      /\ UNCHANGED <<plan, written, viewer, host, conn, stamp, got>>
  BY <1>1 DEF Deliver, Peer, Shape
<1>3. /\ arrived'["host"] \in Seq(Units) /\ buf'["viewer"] \in Seq(Units)
      /\ OnWayToHost' = OnWayToHost
  BY <1>1, <1>2, FollowsMove DEF OnWayToHost
<1>4. Shape'
  BY <1>2, <1>3 DEF Shape, Deliver, Peer
<1>5. RequestInOrder'
  <2>1. ASSUME host \in HostReads
        PROVE  /\ Follows(arrived'["host"], HostPast[host], plan)
               /\ Follows(buf'["viewer"], HostPast[host] + Len(arrived'["host"]), plan)
    <3>1. /\ HostPast[host] \in Nat
          /\ Follows(arrived["host"], HostPast[host], plan)
          /\ Follows(buf["viewer"], HostPast[host] + Len(arrived["host"]), plan)
      BY <1>1, <2>1 DEF RequestInOrder
    <3>2. LET a == arrived["host"]
              b == buf["viewer"]
          IN  /\ Follows(Append(a, Head(b)), HostPast[host], plan)
              /\ Follows(Tail(b), HostPast[host] + Len(Append(a, Head(b))), plan)
      BY <1>1, <1>2, <3>1, FollowsMove
    <3> QED  BY <1>2, <3>2
  <2> QED  BY <1>2, <1>3, <2>1 DEF RequestInOrder
<1>6. StampFromPing' /\ ErrorJust' /\ OkJust'
  BY <1>2 DEF StampFromPing, ErrorJust, OkJust, IsPing
<1>7. ReplyInOrder'
  BY <1>2 DEF ReplyInOrder, OnWayToViewer, MayHaveReplied, Reply
<1> QED  BY <1>4, <1>5, <1>6, <1>7

LEMMA DeliverToViewer ==
  ASSUME IInv, Deliver("host")
  PROVE  IInv'
<1> USE DEF IInv
<1>1. /\ buf["host"] \in Seq(Units) /\ arrived["viewer"] \in Seq(Units)
      /\ "host" \in Sides /\ "viewer" \in Sides
      /\ viewer # "failed" => ViewerPast[viewer] \in Nat
  BY Lengths
<1>2. /\ buf["host"] # <<>>
      /\ buf'["host"] = Tail(buf["host"]) /\ buf'["viewer"] = buf["viewer"]
      /\ arrived'["viewer"] = Append(arrived["viewer"], Head(buf["host"]))
      /\ arrived'["host"] = arrived["host"]
      /\ UNCHANGED <<plan, written, viewer, host, conn, stamp, got>>
  BY <1>1 DEF Deliver, Peer, Shape
<1>3. /\ arrived'["viewer"] \in Seq(Units) /\ buf'["host"] \in Seq(Units)
      /\ OnWayToViewer' = OnWayToViewer
  BY <1>1, <1>2, FollowsMove DEF OnWayToViewer
<1>4. Shape'
  BY <1>2, <1>3 DEF Shape, Deliver, Peer
<1>5. ReplyInOrder'
  <2>1. ASSUME viewer # "failed"
        PROVE  /\ Follows(arrived'["viewer"], ViewerPast[viewer], Reply)
               /\ Follows(buf'["host"], ViewerPast[viewer] + Len(arrived'["viewer"]), Reply)
    <3>1. /\ ViewerPast[viewer] \in Nat
          /\ Follows(arrived["viewer"], ViewerPast[viewer], Reply)
          /\ Follows(buf["host"], ViewerPast[viewer] + Len(arrived["viewer"]), Reply)
      BY <1>1, <2>1 DEF ReplyInOrder
    <3>2. LET a == arrived["viewer"]
              b == buf["host"]
          IN  /\ Follows(Append(a, Head(b)), ViewerPast[viewer], Reply)
              /\ Follows(Tail(b), ViewerPast[viewer] + Len(Append(a, Head(b))), Reply)
      BY <1>1, <1>2, <3>1, FollowsMove
    <3> QED  BY <1>2, <3>2
  <2>2. Reply' = Reply /\ MayHaveReplied' = MayHaveReplied
    BY <1>2 DEF Reply, MayHaveReplied
  <2> QED  BY <1>2, <1>3, <2>1, <2>2 DEF ReplyInOrder
<1>6. StampFromPing' /\ ErrorJust' /\ OkJust'
  BY <1>2 DEF StampFromPing, ErrorJust, OkJust, IsPing
<1>7. RequestInOrder'
  BY <1>2 DEF RequestInOrder, OnWayToHost
<1> QED  BY <1>4, <1>5, <1>6, <1>7

\* A side's end goes: of what is on its way, only that side's share is lost.
LEMMA CloseParts ==
  ASSUME IInv, NEW side \in Sides, CloseSide(side)
  PROVE  /\ buf' \in [Sides -> Seq(Units)] /\ conn' \in [Sides -> {"open", "closed"}]
         /\ buf'[side] = <<>> /\ conn'[side] = "closed"
         /\ \A s \in Sides \ {side} : buf'[s] = buf[s] /\ conn'[s] = conn[s]
  BY DEF IInv, Shape, CloseSide

LEMMA PartOfSum ==
  ASSUME NEW a \in Nat, NEW b \in Nat, NEW c \in Nat, NEW m \in Nat, a + (b + c) <= m
  PROVE  a + b <= m
  OBVIOUS

LEMMA NextInSum ==
  ASSUME NEW a \in Nat, NEW b \in Nat, NEW c \in Nat
  PROVE  /\ (a + (b + c)) + 1 = (a + b) + c + 1
         /\ a + (b + (c + 1)) = (a + (b + c)) + 1
  OBVIOUS

LEMMA CloseKeepsRequest ==
  ASSUME IInv, NEW side \in Sides, CloseSide(side),
         UNCHANGED <<plan, written>>, arrived'["host"] = arrived["host"],
         host' = host \/ host' \notin HostReads
  PROVE  RequestInOrder'
<1>1. /\ Len(arrived["host"]) \in Nat /\ Len(buf["viewer"]) \in Nat
      /\ written \in Nat
      /\ host \in HostReads => HostPast[host] \in Nat
      /\ "host" \in Sides /\ "viewer" \in Sides /\ Sides = {"host", "viewer"}
  BY Lengths DEF IInv
<1>2. SUFFICES ASSUME host' = host, host \in HostReads
               PROVE  RequestInOrder'
  BY DEF RequestInOrder
<1>3. RequestInOrder
  BY DEF IInv
<1>4. CASE side = "viewer"
  <2>1. buf'["viewer"] = <<>> /\ conn'["viewer"] = "closed"
    BY <1>4, CloseParts
  <2>2. Len(buf'["viewer"]) = 0
    BY <2>1
  <2>3. Follows(buf'["viewer"], HostPast[host] + Len(arrived["host"]), plan)
    BY <2>1, FollowsNothing
  <2>4. OnWayToHost' = Len(arrived["host"])
    BY <1>1, <2>2 DEF OnWayToHost
  <2>5. HostPast[host] + Len(arrived["host"]) <= written
    <3>1. HostPast[host] + (Len(arrived["host"]) + Len(buf["viewer"])) <= written
      BY <1>2, <1>3 DEF RequestInOrder, OnWayToHost
    <3>2. HostPast[host] \in Nat
      BY <1>1, <1>2
    <3> QED  BY <1>1, <3>1, <3>2, PartOfSum
  <2> QED  BY <1>2, <1>3, <2>1, <2>3, <2>4, <2>5 DEF RequestInOrder
<1>5. CASE side = "host"
  <2>1. buf'["viewer"] = buf["viewer"] /\ conn'["viewer"] = conn["viewer"]
    BY <1>1, <1>5, CloseParts
  <2>2. OnWayToHost' = OnWayToHost
    BY <2>1 DEF OnWayToHost
  <2> QED  BY <1>2, <1>3, <2>1, <2>2 DEF RequestInOrder
<1> QED  BY <1>1, <1>4, <1>5

LEMMA CloseKeepsReply ==
  ASSUME IInv, NEW side \in Sides, CloseSide(side),
         UNCHANGED <<arrived, stamp, got>>,
         viewer' = viewer \/ viewer' = "failed",
         MayHaveReplied' = MayHaveReplied,
         host' = "replyBody" => host = "replyBody",
         host' = "dropOk" => host = "dropOk"
  PROVE  ReplyInOrder'
<1>1. /\ Len(arrived["viewer"]) \in Nat /\ Len(buf["host"]) \in Nat
      /\ MayHaveReplied \in Nat
      /\ viewer # "failed" => ViewerPast[viewer] \in Nat
      /\ "host" \in Sides /\ "viewer" \in Sides /\ Sides = {"host", "viewer"}
  BY Lengths DEF IInv
<1>2. SUFFICES ASSUME viewer' = viewer, viewer # "failed"
               PROVE  ReplyInOrder'
  BY DEF ReplyInOrder
<1>3. ReplyInOrder /\ Reply' = Reply
  BY DEF IInv, Reply
<1>4. CASE side = "host"
  <2>1. buf'["host"] = <<>> /\ conn'["host"] = "closed"
    BY <1>4, CloseParts
  <2>2. Len(buf'["host"]) = 0
    BY <2>1
  <2>3. Follows(buf'["host"], ViewerPast[viewer] + Len(arrived["viewer"]), Reply)
    BY <2>1, FollowsNothing
  <2>4. OnWayToViewer' = Len(arrived["viewer"])
    BY <1>1, <2>2 DEF OnWayToViewer
  <2>5. ViewerPast[viewer] + Len(arrived["viewer"]) <= MayHaveReplied
    <3>1. ViewerPast[viewer] + (Len(arrived["viewer"]) + Len(buf["host"])) <= MayHaveReplied
      BY <1>2, <1>3 DEF ReplyInOrder, OnWayToViewer
    <3>2. ViewerPast[viewer] \in Nat
      BY <1>1, <1>2
    <3> QED  BY <1>1, <3>1, <3>2, PartOfSum
  <2> QED  BY <1>2, <1>3, <2>1, <2>3, <2>4, <2>5 DEF ReplyInOrder
<1>5. CASE side = "viewer"
  <2>1. buf'["host"] = buf["host"] /\ conn'["host"] = conn["host"]
    BY <1>1, <1>5, CloseParts
  <2>2. OnWayToViewer' = OnWayToViewer
    BY <2>1 DEF OnWayToViewer
  <2> QED  BY <1>2, <1>3, <2>1, <2>2 DEF ReplyInOrder
<1> QED  BY <1>1, <1>4, <1>5

LEMMA CloseKeeps ==
  ASSUME IInv, NEW side \in Sides, LearnClosed(side) \/ IdleTimeout(side)
  PROVE  IInv'
<1>1. /\ CloseSide(side)
      /\ UNCHANGED <<plan, written, viewer, host, arrived, stamp, got>>
  BY DEF LearnClosed, IdleTimeout
<1>2. MayHaveReplied' = MayHaveReplied
  BY <1>1 DEF MayHaveReplied
<1>3. RequestInOrder' /\ ReplyInOrder'
  BY <1>1, <1>2, CloseKeepsRequest, CloseKeepsReply
<1>4. Shape'
  BY <1>1, CloseParts DEF IInv, Shape
<1>5. StampFromPing'
  BY <1>1 DEF IInv, StampFromPing, IsPing
<1>6. ErrorJust' /\ OkJust'
  BY <1>1, CloseParts DEF IInv, ErrorJust, OkJust, Sides
<1> QED  BY <1>3, <1>4, <1>5, <1>6 DEF IInv

-----------------------------------------------------------------------------
(* The viewer's steps                                                      *)

\* read_exact on either side.
LEMMA ReadParts ==
  ASSUME IInv, NEW side \in Sides, Read(side)
  PROVE  /\ arrived' \in [Sides -> Seq(Units)]
         /\ arrived[side] # <<>>
         /\ arrived'[side] = Tail(arrived[side])
         /\ \A s \in Sides \ {side} : arrived'[s] = arrived[s]
<1>1. arrived \in [Sides -> Seq(Units)] /\ arrived[side] # <<>>
  BY DEF IInv, Shape, Read
<1>2. Tail(arrived[side]) \in Seq(Units)
  BY <1>1, HeadTailProperties
<1> QED  BY <1>1, <1>2 DEF Read

LEMMA ReadsReply ==
  ASSUME IInv, viewer \in ViewerReads, Read("viewer")
  PROVE  LET a == arrived'["viewer"]
             past == ViewerPast[viewer] + 1
         IN  /\ Front("viewer") = Reply[past]
             /\ Front("viewer") \in Units
             /\ Follows(a, past, Reply)
             /\ Follows(buf["host"], past + Len(a), Reply)
             /\ past + (Len(a) + Len(buf["host"])) = ViewerPast[viewer] + OnWayToViewer
<1>1. /\ arrived["viewer"] \in Seq(Units) /\ buf["host"] \in Seq(Units)
      /\ ViewerPast[viewer] \in Nat /\ viewer # "failed" /\ "viewer" \in Sides
  BY Lengths DEF IInv, ViewerReads
<1>2. /\ Follows(arrived["viewer"], ViewerPast[viewer], Reply)
      /\ Follows(buf["host"], ViewerPast[viewer] + Len(arrived["viewer"]), Reply)
  BY <1>1 DEF IInv, ReplyInOrder
<1>3. arrived["viewer"] # <<>> /\ arrived'["viewer"] = Tail(arrived["viewer"])
  BY <1>1, ReadParts
<1>4. LET a == arrived["viewer"]
          past == ViewerPast[viewer] + 1
      IN  /\ Head(a) = Reply[past] /\ Head(a) \in Units
          /\ Follows(Tail(a), past, Reply)
          /\ Follows(buf["host"], past + Len(Tail(a)), Reply)
          /\ past + (Len(Tail(a)) + Len(buf["host"])) =
               ViewerPast[viewer] + (Len(a) + Len(buf["host"]))
  BY <1>1, <1>2, <1>3, FollowsTake
<1> QED  BY <1>3, <1>4 DEF Front, OnWayToViewer

LEMMA ViewerFailsKeeps ==
  ASSUME IInv, viewer' = "failed", CloseSide("viewer"),
         arrived' \in [Sides -> Seq(Units)], arrived'["host"] = arrived["host"],
         UNCHANGED <<plan, written, host, stamp, got>>
  PROVE  IInv'
<1>1. "viewer" \in Sides /\ "host" \in Sides \ {"viewer"}
  BY DEF Sides
<1>2. Shape'
  BY <1>1, CloseParts DEF IInv, Shape, ViewerStates
<1>3. RequestInOrder'
  BY <1>1, CloseKeepsRequest
<1>4. ReplyInOrder'
  BY DEF ReplyInOrder
<1>5. StampFromPing'
  BY DEF IInv, StampFromPing, IsPing
<1>6. ErrorJust' /\ OkJust'
  BY <1>1, CloseParts DEF IInv, ErrorJust, OkJust
<1> QED  BY <1>2, <1>3, <1>4, <1>5, <1>6 DEF IInv

LEMMA ViewerWriteKeeps ==
  ASSUME IInv, ViewerWrite
  PROVE  IInv'
<1>1. /\ buf["viewer"] \in Seq(Units) /\ "host" \in Sides /\ "viewer" \in Sides
      /\ Len(buf["viewer"]) \in Nat /\ Len(arrived["host"]) \in Nat
      /\ written \in Nat /\ Len(plan) \in 1..3 /\ plan \in Plans
      /\ written < Len(plan)
  BY Lengths DEF IInv, Shape, ViewerWrite
<1>2. written + 1 \in 1..Len(plan) /\ plan[written + 1] \in Units
  BY <1>1, PlanShape
<1>3. /\ conn["viewer"] = "open" /\ written' = written + 1
      /\ buf'["viewer"] = Append(buf["viewer"], plan[written + 1])
      /\ buf'["host"] = buf["host"]
      /\ viewer = "writing"
      /\ viewer' = IF written' = Len(plan) THEN "readLen" ELSE "writing"
      /\ UNCHANGED <<plan, host, stamp, got, arrived, conn>>
  BY <1>1 DEF IInv, Shape, ViewerWrite, Write
<1>4. /\ Append(buf["viewer"], plan[written + 1]) \in Seq(Units)
      /\ Len(Append(buf["viewer"], plan[written + 1])) = Len(buf["viewer"]) + 1
  BY <1>1, <1>2, AppendProperties
<1>5. Shape'
  <2>1. buf' \in [Sides -> Seq(Units)]
    BY <1>3, <1>4 DEF IInv, Shape, ViewerWrite, Write
  <2>2. written' \in 0..Len(plan) /\ (viewer' = "writing" => written' < Len(plan))
    BY <1>1, <1>3
  <2>3. viewer' \in ViewerStates
    BY <1>3 DEF ViewerStates
  <2> QED  BY <1>3, <2>1, <2>2, <2>3 DEF IInv, Shape
<1>6. RequestInOrder'
  <2> SUFFICES ASSUME host \in HostReads
               PROVE  RequestInOrder'
    BY <1>3 DEF RequestInOrder
  <2>1. HostPast[host] \in Nat
    BY Lengths DEF IInv
  <2>2. /\ HostPast[host] + (Len(arrived["host"]) + Len(buf["viewer"])) = written
        /\ Follows(arrived["host"], HostPast[host], plan)
        /\ Follows(buf["viewer"], HostPast[host] + Len(arrived["host"]), plan)
    BY <1>3 DEF IInv, RequestInOrder, OnWayToHost
  <2>3. written + 1 = (HostPast[host] + Len(arrived["host"])) + Len(buf["viewer"]) + 1
    BY <1>1, <2>1, <2>2, NextInSum
  <2>4. HostPast[host] + Len(arrived["host"]) \in Nat
    BY <1>1, <2>1
  <2>5. Follows(Append(buf["viewer"], plan[written + 1]),
                HostPast[host] + Len(arrived["host"]), plan)
    BY <1>1, <1>2, <2>2, <2>3, <2>4, FollowsWrite
  <2>6. HostPast[host] + (Len(arrived["host"]) + (Len(buf["viewer"]) + 1)) = written + 1
    BY <1>1, <2>1, <2>2, NextInSum
  <2>7. written + 1 <= written + 1
    BY <1>1
  <2> QED  BY <1>3, <1>4, <2>2, <2>5, <2>6, <2>7 DEF RequestInOrder, OnWayToHost
<1>7. ReplyInOrder'
  <2>1. ViewerPast[viewer'] = ViewerPast[viewer] /\ viewer' \notin {"done", "failed"}
    BY <1>3 DEF ViewerPast
  <2>2. OnWayToViewer' = OnWayToViewer /\ MayHaveReplied' = MayHaveReplied /\ Reply' = Reply
    BY <1>3 DEF OnWayToViewer, MayHaveReplied, Reply
  <2> QED  BY <1>3, <2>1, <2>2 DEF IInv, ReplyInOrder
<1>8. StampFromPing' /\ ErrorJust' /\ OkJust'
  BY <1>3 DEF IInv, StampFromPing, IsPing, ErrorJust, OkJust
<1> QED  BY <1>5, <1>6, <1>7, <1>8 DEF IInv

LEMMA ViewerReadLenKeeps ==
  ASSUME IInv, ViewerReadLen
  PROVE  IInv'
<1>1. /\ viewer = "readLen" /\ Read("viewer") /\ "viewer" \in Sides
      /\ "host" \in Sides \ {"viewer"} /\ viewer \in ViewerReads
      /\ UNCHANGED <<plan, written, host, stamp, got>>
  BY DEF ViewerReadLen, Sides, ViewerReads
<1>2. arrived' \in [Sides -> Seq(Units)] /\ arrived'["host"] = arrived["host"]
  BY <1>1, ReadParts
<1>3. CASE viewer' = "readBody" /\ UNCHANGED <<buf, conn>>
  <2>1. Shape'
    BY <1>1, <1>2, <1>3 DEF IInv, Shape, ViewerStates
  <2>2. RequestInOrder'
    BY <1>1, <1>2, <1>3 DEF IInv, RequestInOrder, OnWayToHost
  <2>3. ViewerPast[viewer'] = ViewerPast[viewer] + 1
    BY <1>1, <1>3 DEF ViewerPast
  <2>4. /\ MayHaveReplied' = MayHaveReplied /\ Reply' = Reply
        /\ viewer' \notin {"failed", "done"} /\ viewer # "failed"
    BY <1>1, <1>3 DEF MayHaveReplied, Reply
  <2>5. ViewerPast[viewer'] + OnWayToViewer' = ViewerPast[viewer] + OnWayToViewer
    BY <1>1, <1>3, <2>3, ReadsReply DEF OnWayToViewer
  <2>6. ReplyInOrder'
    BY <1>1, <1>3, <2>3, <2>4, <2>5, ReadsReply DEF IInv, ReplyInOrder
  <2>7. StampFromPing' /\ ErrorJust' /\ OkJust'
    BY <1>1, <1>3 DEF IInv, StampFromPing, IsPing, ErrorJust, OkJust
  <2> QED  BY <2>1, <2>2, <2>6, <2>7 DEF IInv
<1>4. CASE viewer' = "failed" /\ CloseSide("viewer")
  BY <1>1, <1>2, <1>4, ViewerFailsKeeps
<1> QED  BY <1>3, <1>4 DEF ViewerReadLen

\* The second unit of the reply is the Pong, and it is there only if the host
\* has written all of the reply.
LEMMA ViewerReadBodyKeeps ==
  ASSUME IInv, ViewerReadBody
  PROVE  IInv'
<1>1. /\ viewer = "readBody" /\ viewer' = "done" /\ got' = Front("viewer")
      /\ Read("viewer") /\ CloseSide("viewer") /\ "viewer" \in Sides
      /\ "host" \in Sides \ {"viewer"} /\ viewer \in ViewerReads
      /\ UNCHANGED <<plan, written, host, stamp>>
  BY DEF ViewerReadBody, Sides, ViewerReads
<1>2. /\ arrived' \in [Sides -> Seq(Units)] /\ arrived'["host"] = arrived["host"]
      /\ arrived["viewer"] # <<>>
  BY <1>1, ReadParts
<1>3. /\ buf' \in [Sides -> Seq(Units)] /\ conn' \in [Sides -> {"open", "closed"}]
      /\ buf'["host"] = buf["host"] /\ conn'["host"] = conn["host"]
  BY <1>1, CloseParts
<1>4. ViewerPast[viewer] = 1 /\ ViewerPast[viewer'] = 2
  BY <1>1 DEF ViewerPast
<1>5. got' = Pong(stamp) /\ got' \in Units
  BY <1>1, <1>4, ReadsReply DEF Reply
<1>6. ReplyInOrder'
  <2>1. MayHaveReplied' = MayHaveReplied /\ Reply' = Reply
    BY <1>1 DEF MayHaveReplied, Reply
  <2>2. /\ ViewerPast[viewer] + 1 = 2
        /\ ViewerPast[viewer'] + OnWayToViewer' = ViewerPast[viewer] + OnWayToViewer
    <3>1. (ViewerPast[viewer] + 1) + (Len(arrived'["viewer"]) + Len(buf["host"]))
            = ViewerPast[viewer] + OnWayToViewer
      BY <1>1, ReadsReply
    <3>2. ViewerPast[viewer] + 1 = ViewerPast[viewer']
      BY <1>4
    <3>3. OnWayToViewer' = Len(arrived'["viewer"]) + Len(buf["host"])
      BY <1>3 DEF OnWayToViewer
    <3> QED  BY <1>4, <3>1, <3>2, <3>3
  <2>3. /\ Follows(arrived'["viewer"], ViewerPast[viewer'], Reply)
        /\ Follows(buf'["host"], ViewerPast[viewer'] + Len(arrived'["viewer"]), Reply)
    BY <1>1, <1>3, <1>4, <2>2, ReadsReply
  <2>4. Pong(stamp)' = Pong(stamp)
    BY <1>1 DEF Pong
  <2> QED  BY <1>1, <1>3, <1>5, <2>1, <2>2, <2>3, <2>4 DEF IInv, ReplyInOrder
<1>7. Shape'
  BY <1>1, <1>2, <1>3, <1>5 DEF IInv, Shape, ViewerStates
<1>8. RequestInOrder'
  BY <1>1, <1>2, CloseKeepsRequest
<1>9. StampFromPing' /\ ErrorJust' /\ OkJust'
  BY <1>1, <1>3 DEF IInv, StampFromPing, IsPing, ErrorJust, OkJust
<1> QED  BY <1>6, <1>7, <1>8, <1>9 DEF IInv

LEMMA ViewerKeeps ==
  ASSUME IInv, Viewer
  PROVE  IInv'
<1>1. CASE ViewerFails
  BY <1>1, ViewerFailsKeeps DEF ViewerFails, IInv, Shape
<1> QED  BY <1>1, ViewerWriteKeeps, ViewerReadLenKeeps, ViewerReadBodyKeeps DEF Viewer

-----------------------------------------------------------------------------
(* The host's steps                                                        *)

LEMMA ReadsRequest ==
  ASSUME IInv, host \in HostReads, Read("host")
  PROVE  LET a == arrived'["host"]
             past == HostPast[host] + 1
         IN  /\ Front("host") = plan[past] /\ past <= Len(plan)
             /\ Follows(a, past, plan)
             /\ Follows(buf["viewer"], past + Len(a), plan)
             /\ past + (Len(a) + Len(buf["viewer"])) = HostPast[host] + OnWayToHost
<1>1. /\ arrived["host"] \in Seq(Units) /\ buf["viewer"] \in Seq(Units)
      /\ HostPast[host] \in Nat /\ "host" \in Sides
  BY Lengths DEF IInv
<1>2. /\ Len(arrived["host"]) \in Nat /\ Len(buf["viewer"]) \in Nat
      /\ written \in Nat /\ Len(plan) \in Nat
  BY Lengths DEF IInv
<1>3. /\ Follows(arrived["host"], HostPast[host], plan)
      /\ Follows(buf["viewer"], HostPast[host] + Len(arrived["host"]), plan)
  BY DEF IInv, RequestInOrder
<1>4. arrived["host"] # <<>> /\ arrived'["host"] = Tail(arrived["host"])
  BY <1>1, ReadParts
<1>5. LET a == arrived["host"]
          past == HostPast[host] + 1
      IN  /\ Head(a) = plan[past] /\ Head(a) \in Units
          /\ Follows(Tail(a), past, plan)
          /\ Follows(buf["viewer"], past + Len(Tail(a)), plan)
          /\ past + (Len(Tail(a)) + Len(buf["viewer"])) =
               HostPast[host] + (Len(a) + Len(buf["viewer"]))
  BY <1>1, <1>3, <1>4, FollowsTake
<1>6. HostPast[host] + 1 <= Len(plan)
  <2>1. Len(arrived["host"]) > 0
    BY <1>1, <1>3, <1>4, FollowsRead
  <2>2. HostPast[host] + Len(arrived["host"]) <= written
    <3>1. HostPast[host] + (Len(arrived["host"]) + Len(buf["viewer"])) <= written
      BY DEF IInv, RequestInOrder, OnWayToHost
    <3> QED  BY <1>1, <1>2, <3>1, PartOfSum
  <2>3. written <= Len(plan)
    BY DEF IInv, Shape
  <2> QED  BY <1>1, <1>2, <2>1, <2>2, <2>3
<1> QED  BY <1>4, <1>5, <1>6 DEF Front, OnWayToHost

\* The reading goes on.
LEMMA HostReadsOn ==
  ASSUME IInv, host \in HostReads, Read("host"),
         host' \in HostReads, HostPast[host'] = HostPast[host] + 1,
         UNCHANGED <<plan, written, buf, conn>>
  PROVE  RequestInOrder'
<1>1. HostPast[host'] + OnWayToHost' = HostPast[host] + OnWayToHost
  BY ReadsRequest DEF OnWayToHost
<1>2. /\ Follows(arrived'["host"], HostPast[host'], plan)
      /\ Follows(buf["viewer"], HostPast[host'] + Len(arrived'["host"]), plan)
  BY ReadsRequest
<1> QED  BY <1>1, <1>2 DEF IInv, RequestInOrder

\* Before the reply, a viewer that has not failed has read nothing and has
\* nothing before it.
LEMMA NothingRepliedYet ==
  ASSUME IInv, MayHaveReplied = 0, viewer # "failed"
  PROVE  /\ ViewerPast[viewer] = 0 /\ viewer # "done"
         /\ Len(arrived["viewer"]) = 0 /\ Len(buf["host"]) = 0
         /\ OnWayToViewer = 0
<1>1. /\ Len(arrived["viewer"]) \in Nat /\ Len(buf["host"]) \in Nat
      /\ ViewerPast[viewer] \in Nat
  BY Lengths DEF IInv
<1>2. ViewerPast[viewer] + (Len(arrived["viewer"]) + Len(buf["host"])) <= 0
  BY DEF IInv, ReplyInOrder, OnWayToViewer
<1>3. ASSUME NEW a \in Nat, NEW b \in Nat, NEW c \in Nat, a + (b + c) <= 0
      PROVE  a = 0 /\ b = 0 /\ c = 0 /\ b + c = 0
  BY <1>3
<1>4. ViewerPast[viewer] = 0 /\ Len(arrived["viewer"]) = 0 /\ Len(buf["host"]) = 0
      /\ OnWayToViewer = 0
  BY <1>1, <1>2, <1>3 DEF OnWayToViewer
<1> QED  BY <1>4 DEF ViewerPast

LEMMA NoReplyKeeps ==
  ASSUME IInv, MayHaveReplied = 0, host' # "replyBody",
         host' = "dropOk" => stamp' = 0,
         arrived'["viewer"] = arrived["viewer"], buf'["host"] = buf["host"],
         viewer' = viewer
  PROVE  ReplyInOrder'
<1> SUFFICES ASSUME viewer # "failed"
             PROVE  ReplyInOrder'
  BY DEF ReplyInOrder
<1>1. /\ ViewerPast[viewer] = 0 /\ viewer # "done"
      /\ Len(arrived["viewer"]) = 0 /\ Len(buf["host"]) = 0
      /\ OnWayToViewer = 0
  BY NothingRepliedYet
<1>2. \A n, message : /\ Follows(arrived["viewer"], n, message)
                      /\ Follows(buf["host"], n, message)
  BY <1>1 DEF Follows
<1>3. OnWayToViewer' = 0
  BY <1>1 DEF OnWayToViewer
<1>4. MayHaveReplied' \in 0..2
  BY DEF MayHaveReplied
<1>5. 0 + 0 <= MayHaveReplied'
  BY <1>4
<1> QED  BY <1>1, <1>2, <1>3, <1>5 DEF ReplyInOrder

LEMMA HostReadKeeps ==
  ASSUME IInv, host \in HostReads, Read("host"),
         UNCHANGED <<plan, written, viewer, buf, conn, got>>,
         host' \in HostStates, host' # "replyBody", stamp' \in Stamps \cup {0},
         host' \in HostReads => HostPast[host'] = HostPast[host] + 1,
         host' = "dropOk" => stamp' = 0,
         StampFromPing', ErrorJust', OkJust'
  PROVE  IInv'
<1>1. "host" \in Sides /\ "viewer" \in Sides \ {"host"}
  BY DEF Sides
<1>2. arrived' \in [Sides -> Seq(Units)] /\ arrived'["viewer"] = arrived["viewer"]
  BY <1>1, ReadParts
<1>3. Shape'
  BY <1>2 DEF IInv, Shape
<1>4. RequestInOrder'
  <2>1. CASE host' \in HostReads
    BY <2>1, HostReadsOn
  <2>2. CASE host' \notin HostReads
    BY <2>2 DEF RequestInOrder
  <2> QED  BY <2>1, <2>2
<1>5. MayHaveReplied = 0
  BY DEF IInv, StampFromPing, MayHaveReplied
<1>6. ReplyInOrder'
  BY <1>2, <1>5, NoReplyKeeps
<1> QED  BY <1>3, <1>4, <1>6 DEF IInv

LEMMA HostAcceptKeeps ==
  ASSUME IInv, HostAccept
  PROVE  IInv'
<1>1. /\ host = "accept" /\ host \in HostReads /\ Read("host") /\ HostPast[host] = 0
      /\ UNCHANGED <<plan, written, viewer, buf, conn, stamp, got>>
  BY DEF HostAccept, HostReads, HostPast
<1>2. Front("host") = plan[1]
  <2>1. Front("host") = plan[HostPast[host] + 1]
    BY <1>1, ReadsRequest
  <2> QED  BY <1>1, <2>1
<1>3. \/ host' = "readLen"
      \/ host' = "dropOk" /\ plan[1].kind \in {"video", "input"}
      \/ host' = "dropErr" /\ plan[1].kind \notin {"control", "video", "input"}
  BY <1>2 DEF HostAccept
<1>4. (host' = "dropErr" => plan = Unknown) /\ (host' = "dropOk" => plan \in Unanswered)
  BY <1>3, PlanShape DEF IInv, Shape
<1>5. stamp = 0 /\ stamp' = 0 /\ stamp' \in Stamps \cup {0}
  BY <1>1 DEF IInv, StampFromPing
<1>6. host' \in HostStates /\ host' \notin HostWrites
  BY <1>3 DEF HostStates, HostReads, HostWrites, Leaving
<1>7. host' \in HostReads => HostPast[host'] = HostPast[host] + 1
  BY <1>1, <1>3 DEF HostReads, HostPast
<1>8. StampFromPing' /\ ErrorJust' /\ OkJust'
  BY <1>1, <1>3, <1>4, <1>5, <1>6 DEF StampFromPing, HostWrites, ErrorJust, OkJust
<1> QED  BY <1>1, <1>5, <1>6, <1>7, <1>8, HostReadKeeps DEF HostWrites

LEMMA HostReadLenKeeps ==
  ASSUME IInv, HostReadLen
  PROVE  IInv'
<1>1. /\ host = "readLen" /\ host \in HostReads /\ Read("host") /\ HostPast[host] = 1
      /\ UNCHANGED <<plan, written, viewer, buf, conn, stamp, got>>
  BY DEF HostReadLen, HostReads, HostPast
<1>2. Front("host") = plan[2] /\ 2 <= Len(plan)
  <2>1. /\ Front("host") = plan[HostPast[host] + 1]
        /\ HostPast[host] + 1 <= Len(plan)
    BY <1>1, ReadsRequest
  <2> QED  BY <1>1, <2>1
<1>3. host' = "readBody" \/ (host' = "dropErr" /\ plan[2].kind # "fits")
  BY <1>2 DEF HostReadLen
<1>4. host' = "dropErr" => plan = TooLarge
  <2>1. Len(plan) >= 2
    BY <1>2, PlanShape DEF IInv, Shape
  <2> QED  BY <1>3, <2>1, PlanShape DEF IInv, Shape
<1>5. stamp = 0 /\ stamp' = 0 /\ stamp' \in Stamps \cup {0}
  BY <1>1 DEF IInv, StampFromPing
<1>6. host' \in HostStates /\ host' \notin HostWrites
  BY <1>3 DEF HostStates, HostReads, HostWrites, Leaving
<1>7. host' \in HostReads => HostPast[host'] = HostPast[host] + 1
  BY <1>1, <1>3 DEF HostReads, HostPast
<1>8. StampFromPing' /\ ErrorJust' /\ OkJust'
  BY <1>1, <1>3, <1>4, <1>5, <1>6 DEF StampFromPing, HostWrites, ErrorJust, OkJust
<1> QED  BY <1>1, <1>5, <1>6, <1>7, <1>8, HostReadKeeps DEF HostWrites

LEMMA HostReadBodyKeeps ==
  ASSUME IInv, HostReadBody
  PROVE  IInv'
<1>1. /\ host = "readBody" /\ host \in HostReads /\ Read("host") /\ HostPast[host] = 2
      /\ UNCHANGED <<plan, written, viewer, buf, conn, got>>
  BY DEF HostReadBody, HostReads, HostPast
<1>2. Front("host") = plan[3] /\ Len(plan) = 3
  <2>1. /\ Front("host") = plan[HostPast[host] + 1]
        /\ HostPast[host] + 1 <= Len(plan)
    BY <1>1, ReadsRequest
  <2>2. Len(plan) \in 1..3
    BY Lengths DEF IInv
  <2> QED  BY <1>1, <2>1, <2>2
<1>3. \/ host' = "replyLen" /\ plan[3].kind = "ping" /\ stamp' = plan[3].stamp
      \/ host' = "dropErr" /\ plan[3].kind = "garbage" /\ stamp' = stamp
      \/ /\ host' = "dropOk" /\ stamp' = stamp
         /\ plan[3].kind \notin {"ping", "garbage"}
  BY <1>2 DEF HostReadBody
<1>4. (host' = "dropErr" => plan = Garbage) /\ (host' = "dropOk" => plan \in Unanswered)
  BY <1>2, <1>3, PlanShape DEF IInv, Shape
<1>5. stamp = 0
  BY <1>1 DEF IInv, StampFromPing
<1>6. \/ host' = "replyLen" /\ stamp' \in Stamps /\ IsPing /\ stamp' = plan[3].stamp
      \/ host' \in {"dropErr", "dropOk"} /\ stamp' = 0
  BY <1>2, <1>3, <1>5, PlanShape DEF IInv, Shape, IsPing
<1>7. host' \in HostStates /\ host' \notin HostReads \cup {"replyBody"}
  BY <1>3 DEF HostStates, HostReads, HostWrites, Leaving
<1>8. stamp' \in Stamps \cup {0}
  BY <1>6
<1>9. StampFromPing'
  BY <1>1, <1>6, <1>7, ExchangeAssumption DEF StampFromPing, HostWrites, IsPing
<1>10. ErrorJust' /\ OkJust'
  BY <1>1, <1>3, <1>4 DEF ErrorJust, OkJust
<1> QED  BY <1>1, <1>6, <1>7, <1>8, <1>9, <1>10, HostReadKeeps

\* The host writes unit n + 1 of its reply when n units of it are on their way
\* or read.
LEMMA HostWritesReply ==
  ASSUME IInv, NEW n \in Nat, NEW e \in Units, e = Reply[n + 1], Write("host", e),
         viewer # "failed" => ViewerPast[viewer] + OnWayToViewer = n,
         MayHaveReplied' = n + 1, host' = "replyBody" => n = 0,
         host' = "dropOk" => n = 1,
         UNCHANGED <<viewer, stamp, got>>
  PROVE  /\ ReplyInOrder'
         /\ buf' \in [Sides -> Seq(Units)] /\ buf'["viewer"] = buf["viewer"]
         /\ UNCHANGED <<arrived, conn>>
<1>1. /\ "host" \in Sides /\ "viewer" \in Sides
      /\ buf["host"] \in Seq(Units) /\ Len(buf["host"]) \in Nat
      /\ Len(arrived["viewer"]) \in Nat
  BY Lengths DEF IInv
<1>2. /\ Append(buf["host"], e) \in Seq(Units)
      /\ Len(Append(buf["host"], e)) = Len(buf["host"]) + 1
  BY <1>1, AppendProperties
<1>3. /\ buf' \in [Sides -> Seq(Units)] /\ buf'["viewer"] = buf["viewer"]
      /\ buf'["host"] = Append(buf["host"], e)
      /\ UNCHANGED <<arrived, conn>>
  BY <1>1, <1>2 DEF IInv, Shape, Write
<1>4. ReplyInOrder'
  <2> SUFFICES ASSUME viewer # "failed"
               PROVE  ReplyInOrder'
    BY DEF ReplyInOrder
  <2>1. ViewerPast[viewer] \in Nat
    BY Lengths DEF IInv
  <2>2. ViewerPast[viewer] + (Len(arrived["viewer"]) + Len(buf["host"])) = n
    BY DEF OnWayToViewer
  <2>3. /\ Follows(arrived["viewer"], ViewerPast[viewer], Reply)
        /\ Follows(buf["host"], ViewerPast[viewer] + Len(arrived["viewer"]), Reply)
    BY DEF IInv, ReplyInOrder
  <2>4. /\ n + 1 = (ViewerPast[viewer] + Len(arrived["viewer"])) + Len(buf["host"]) + 1
        /\ ViewerPast[viewer] + (Len(arrived["viewer"]) + (Len(buf["host"]) + 1)) = n + 1
    BY <1>1, <2>1, <2>2, NextInSum
  <2>5. ViewerPast[viewer] + Len(arrived["viewer"]) \in Nat
    BY <1>1, <2>1
  <2>6. Follows(Append(buf["host"], e), ViewerPast[viewer] + Len(arrived["viewer"]), Reply)
    BY <1>1, <2>3, <2>4, <2>5, FollowsWrite
  <2>7. ViewerPast[viewer'] + OnWayToViewer' = n + 1
    BY <1>2, <1>3, <2>4 DEF OnWayToViewer
  <2>8. Reply' = Reply /\ Pong(stamp)' = Pong(stamp)
    BY DEF Reply, Pong
  <2>9. n + 1 <= n + 1 /\ (n = 0 => n + 1 = 1) /\ (n = 1 => n + 1 = 2)
    OBVIOUS
  <2>10. ViewerPast[viewer'] + OnWayToViewer' <= MayHaveReplied'
    BY <2>7, <2>9
  <2>11. /\ host' = "replyBody" => ViewerPast[viewer'] + OnWayToViewer' = 1
         /\ host' = "dropOk" => ViewerPast[viewer'] + OnWayToViewer' = 2
    BY <2>7, <2>9
  <2>12. viewer' = "done" => got' = Pong(stamp)'
    BY <2>8 DEF IInv, ReplyInOrder
  <2> QED  BY <1>3, <2>3, <2>6, <2>8, <2>10, <2>11, <2>12 DEF ReplyInOrder
<1> QED  BY <1>3, <1>4

LEMMA HostReplyLenKeeps ==
  ASSUME IInv, HostReplyLen
  PROVE  IInv'
<1>1. /\ host = "replyLen" /\ host' = "replyBody" /\ Write("host", Unit("fits"))
      /\ UNCHANGED <<plan, written, viewer, stamp, got>>
  BY DEF HostReplyLen
<1>2. stamp # 0 /\ MayHaveReplied = 0 /\ MayHaveReplied' = 0 + 1
  BY <1>1 DEF IInv, StampFromPing, HostWrites, MayHaveReplied
<1>3. viewer # "failed" => ViewerPast[viewer] + OnWayToViewer = 0
  BY <1>2, NothingRepliedYet
<1>4. Unit("fits") \in Units /\ Unit("fits") = Reply[0 + 1]
  BY DEF Unit, Units, Reply
<1>5. /\ ReplyInOrder'
      /\ buf' \in [Sides -> Seq(Units)] /\ UNCHANGED <<arrived, conn>>
  BY <1>1, <1>2, <1>3, <1>4, HostWritesReply
<1>6. Shape'
  BY <1>1, <1>5 DEF IInv, Shape, HostStates, HostWrites
<1>7. RequestInOrder' /\ ErrorJust' /\ OkJust'
  BY <1>1, <1>2 DEF RequestInOrder, ErrorJust, OkJust, HostReads, HostWrites
<1>8. StampFromPing'
  BY <1>1, <1>2 DEF IInv, StampFromPing, IsPing, HostReads, HostWrites
<1> QED  BY <1>5, <1>6, <1>7, <1>8 DEF IInv

LEMMA HostReplyBodyKeeps ==
  ASSUME IInv, HostReplyBody
  PROVE  IInv'
<1>1. /\ host = "replyBody" /\ host' = "dropOk" /\ Write("host", Pong(stamp))
      /\ conn["host"] = "open"
      /\ UNCHANGED <<plan, written, viewer, stamp, got>>
  BY DEF HostReplyBody, Write
<1>2. stamp # 0 /\ MayHaveReplied' = 1 + 1
  BY <1>1 DEF IInv, StampFromPing, HostWrites, MayHaveReplied
<1>3. viewer # "failed" => ViewerPast[viewer] + OnWayToViewer = 1
  BY <1>1 DEF IInv, ReplyInOrder
<1>4. Pong(stamp) \in Units /\ Pong(stamp) = Reply[1 + 1]
  BY DEF IInv, Shape, Pong, Units, Reply
<1>5. /\ ReplyInOrder'
      /\ buf' \in [Sides -> Seq(Units)] /\ UNCHANGED <<arrived, conn>>
  BY <1>1, <1>2, <1>3, <1>4, HostWritesReply
<1>6. Shape'
  BY <1>1, <1>5 DEF IInv, Shape, HostStates, Leaving
<1>7. RequestInOrder' /\ ErrorJust' /\ OkJust'
  BY <1>1, <1>2 DEF RequestInOrder, ErrorJust, OkJust, HostReads, HostWrites
<1>8. StampFromPing'
  BY <1>1, <1>2 DEF IInv, StampFromPing, IsPing, HostReads, HostWrites
<1> QED  BY <1>5, <1>6, <1>7, <1>8 DEF IInv

LEMMA HostFailsKeeps ==
  ASSUME IInv, HostFails
  PROVE  IInv'
<1>1. /\ host \in HostReads \cup HostWrites /\ host' = "dropErr"
      /\ conn["host"] = "closed"
      /\ UNCHANGED <<plan, written, viewer, buf, arrived, conn, stamp, got>>
  BY DEF HostFails, NothingToRead
<1>2. Shape'
  BY <1>1 DEF IInv, Shape, HostStates, Leaving
<1>3. RequestInOrder' /\ ErrorJust' /\ OkJust'
  BY <1>1 DEF RequestInOrder, ErrorJust, OkJust, HostReads, HostWrites
<1>4. StampFromPing'
  BY <1>1 DEF IInv, StampFromPing, HostWrites, IsPing, HostReads
<1>5. ReplyInOrder'
  <2>1. CASE MayHaveReplied = 0
    BY <1>1, <2>1, NoReplyKeeps
  <2>2. CASE MayHaveReplied # 0
    <3>1. MayHaveReplied' = MayHaveReplied
      BY <1>1, <2>2 DEF MayHaveReplied, IInv, StampFromPing, HostWrites
    <3>2. Reply' = Reply /\ OnWayToViewer' = OnWayToViewer
      BY <1>1 DEF Reply, OnWayToViewer
    <3> QED  BY <1>1, <3>1, <3>2 DEF IInv, ReplyInOrder
  <2> QED  BY <2>1, <2>2
<1> QED  BY <1>2, <1>3, <1>4, <1>5 DEF IInv

\* A session that is cut may have written the length of its reply.
LEMMA HostCutKeeps ==
  ASSUME IInv, HostCut
  PROVE  IInv'
<1>1. /\ host \in HostReads \cup HostWrites /\ host' = "dropCut"
      /\ UNCHANGED <<plan, written, viewer, buf, arrived, conn, stamp, got>>
  BY DEF HostCut
<1>2. Shape'
  BY <1>1 DEF IInv, Shape, HostStates, Leaving
<1>3. RequestInOrder' /\ ErrorJust' /\ OkJust'
  BY <1>1 DEF RequestInOrder, ErrorJust, OkJust, HostReads
<1>4. StampFromPing'
  BY <1>1 DEF IInv, StampFromPing, IsPing, HostReads, HostWrites
<1>5. ReplyInOrder'
  <2>1. CASE MayHaveReplied = 0
    BY <1>1, <2>1, NoReplyKeeps
  <2>2. CASE MayHaveReplied # 0
    <3>1. MayHaveReplied' = MayHaveReplied
      BY <1>1, <2>2 DEF MayHaveReplied, IInv, StampFromPing, HostWrites
    <3>2. Reply' = Reply /\ OnWayToViewer' = OnWayToViewer
      BY <1>1 DEF Reply, OnWayToViewer
    <3> QED  BY <1>1, <3>1, <3>2 DEF IInv, ReplyInOrder
  <2> QED  BY <2>1, <2>2
<1> QED  BY <1>2, <1>3, <1>4, <1>5 DEF IInv

LEMMA HostDropKeeps ==
  ASSUME IInv, HostDrop
  PROVE  IInv'
<1>1. /\ host \in {"dropOk", "dropErr", "dropCut"} /\ host' = Leaving[host]
      /\ CloseSide("host") /\ "host" \in Sides
      /\ UNCHANGED <<plan, written, viewer, arrived, stamp, got>>
  BY DEF HostDrop, Leaving, Sides
<1>2. \/ host = "dropOk" /\ host' = "ok"
      \/ host = "dropErr" /\ host' = "err"
      \/ host = "dropCut" /\ host' = "cut"
  BY DEF HostDrop, Leaving
<1>3. Shape'
  BY <1>1, <1>2, CloseParts DEF IInv, Shape, HostStates
<1>4. host' \notin HostReads /\ MayHaveReplied' = MayHaveReplied
  BY <1>1, <1>2 DEF HostReads, MayHaveReplied
<1>5. RequestInOrder' /\ ReplyInOrder'
  BY <1>1, <1>2, <1>4, CloseKeepsReply DEF RequestInOrder
<1>6. StampFromPing' /\ ErrorJust' /\ OkJust'
  BY <1>1, <1>2, <1>4 DEF IInv, StampFromPing, HostWrites, IsPing, ErrorJust, OkJust
<1> QED  BY <1>3, <1>5, <1>6 DEF IInv

-----------------------------------------------------------------------------
(* The theorems                                                            *)

\* The reply is all there only when the host has written all of it.
LEMMA AnsweredByHost ==
  ASSUME IInv, viewer = "done"
  PROVE  host \in {"dropOk", "ok"}
<1>1. ViewerPast[viewer] = 2 /\ viewer # "failed"
  BY DEF ViewerPast
<1>2. /\ Len(arrived["viewer"]) \in Nat /\ Len(buf["host"]) \in Nat
      /\ MayHaveReplied \in Nat
  BY Lengths DEF IInv
<1>3. 2 + (Len(arrived["viewer"]) + Len(buf["host"])) <= MayHaveReplied
  BY <1>1 DEF IInv, ReplyInOrder, OnWayToViewer
<1>4. 2 + Len(arrived["viewer"]) <= MayHaveReplied
  BY <1>2, <1>3, PartOfSum
<1>5. MayHaveReplied # 0 /\ MayHaveReplied # 1
  BY <1>2, <1>4
<1> QED  BY <1>5 DEF MayHaveReplied

LEMMA StepKeeps ==
  ASSUME IInv, [Next]_vars
  PROVE  IInv'
<1>1. CASE \E side \in Sides : Deliver(side)
  BY <1>1, DeliverToHost, DeliverToViewer DEF Sides
<1>2. CASE \E side \in Sides : LearnClosed(side) \/ IdleTimeout(side)
  BY <1>2, CloseKeeps
<1>3. CASE Host
  BY <1>3, HostAcceptKeeps, HostReadLenKeeps, HostReadBodyKeeps, HostReplyLenKeeps,
     HostReplyBodyKeeps, HostFailsKeeps, HostDropKeeps DEF Host
<1>4. CASE UNCHANGED vars
  BY <1>4 DEF vars, IInv, Shape, RequestInOrder, StampFromPing, ReplyInOrder,
     ErrorJust, OkJust, IsPing, OnWayToHost, OnWayToViewer, MayHaveReplied, Reply
<1> QED  BY <1>1, <1>2, <1>3, <1>4, ViewerKeeps, HostCutKeeps DEF Next

LEMMA Invariance == SafeSpec => []IInv
<1>1. Init => IInv
  BY InitKeeps
<1>2. IInv /\ [Next]_vars => IInv'
  BY StepKeeps
<1> QED  BY <1>1, <1>2, PTL DEF SafeSpec

\* Neither side ever holds anything but the units of the protocol, and no side
\* writes beyond its plan (main.rs:119-221).
THEOREM TypeCorrect == SafeSpec => []TypeOK
<1>1. IInv => TypeOK
  BY DEF IInv, Shape, TypeOK
<1> QED  BY <1>1, Invariance, PTL

LEMMA AnswersRightNow == IInv => PongAnswersPing
<1> SUFFICES ASSUME IInv PROVE PongAnswersPing
  OBVIOUS
<1>1. host \in HostWrites => IsPing
  BY DEF IInv, StampFromPing
<1>2. CASE viewer = "done" /\ stamp = 0
  <2>1. MayHaveReplied = 0
    BY <1>2 DEF MayHaveReplied
  <2> QED  BY <1>2, <2>1, NothingRepliedYet
<1>3. viewer = "done" => got = Pong(stamp)
  BY DEF IInv, ReplyInOrder
<1>4. stamp # 0 => IsPing /\ stamp = plan[3].stamp
  BY DEF IInv, StampFromPing
<1> QED  BY <1>1, <1>2, <1>3, <1>4 DEF PongAnswersPing

\* A reply that is written and not yet all read has its Pong still to come.
LEMMA PongToCome ==
  ASSUME IInv, host = "dropOk", stamp # 0, conn["host"] = "open",
         viewer \notin {"done", "failed"}
  PROVE  OnItsWay(Pong(stamp))
<1> DEFINE a == arrived["viewer"]
           b == buf["host"]
           past == ViewerPast[viewer]
<1>1. /\ a \in Seq(Units) /\ b \in Seq(Units) /\ Len(a) \in Nat /\ Len(b) \in Nat
      /\ past \in 0..1
  BY Lengths DEF IInv, Shape, ViewerStates, ViewerPast
<1>2. /\ past + (Len(a) + Len(b)) = 2
      /\ Follows(a, past, Reply) /\ Follows(b, past + Len(a), Reply)
  BY DEF IInv, ReplyInOrder, OnWayToViewer
<1>3. Reply[2] = Pong(stamp)
  BY DEF Reply
<1> HIDE DEF a, b, past
<1>4. CASE Len(b) > 0
  <2>1. Len(b) \in 1..Len(b) /\ (past + Len(a)) + Len(b) = 2 /\ Len(b) \in DOMAIN b
    BY <1>1, <1>2, <1>4
  <2>2. b[Len(b)] = Pong(stamp)
    BY <1>2, <1>3, <2>1 DEF Follows
  <2> QED  BY <2>1, <2>2 DEF OnItsWay, b
<1>5. CASE Len(b) = 0
  <2>1. Len(a) \in 1..Len(a) /\ past + Len(a) = 2 /\ Len(a) \in DOMAIN a
    BY <1>1, <1>2, <1>5
  <2>2. a[Len(a)] = Pong(stamp)
    BY <1>2, <1>3, <2>1 DEF Follows
  <2> QED  BY <2>1, <2>2 DEF OnItsWay, a
<1> QED  BY <1>1, <1>4, <1>5

LEMMA ResultJustNow == IInv => HostResultJust
<1> SUFFICES ASSUME IInv PROVE HostResultJust
  OBVIOUS
<1>1. stamp # 0 => IsPing /\ stamp = plan[3].stamp
  BY DEF IInv, StampFromPing
<1>2. host \in {"dropOk", "ok"} => IsPing \/ plan \in Unanswered
  BY <1>1 DEF IInv, OkJust
<1>3. ASSUME host = "dropOk", IsPing, conn["host"] = "open", viewer \notin {"done", "failed"}
      PROVE  OnItsWay(Pong(plan[3].stamp))
  <2>1. stamp # 0
    BY <1>3, PlanShape DEF IInv, OkJust, Shape, IsPing
  <2> QED  BY <1>1, <1>3, <2>1, PongToCome
<1> QED  BY <1>2, <1>3, AnsweredByHost DEF IInv, ErrorJust, HostResultJust

\* Whoever connects, and wherever the network fails: the host answers nothing
\* but a Ping, and a viewer that finishes has the Pong to its own Ping
\* (main.rs:205-213, 142-152).
THEOREM AnswersRight == SafeSpec => []PongAnswersPing
  BY AnswersRightNow, Invariance, PTL

\* A viewer that has its answer leaves a host whose session ended with Ok; a
\* session ends with Ok only if its Pong is written, or the viewer sent what is
\* not answered; and it ends in an error, which main counts, only if the connection
\* was lost or the viewer is not one of QuicView's (main.rs:90-102, 184-221).
THEOREM ResultJust == SafeSpec => []HostResultJust
  BY ResultJustNow, Invariance, PTL
=============================================================================
