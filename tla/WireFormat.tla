------------------------------ MODULE WireFormat ------------------------------
(***************************************************************************)
(* The encodings of crates/quicview-protocol: InputEvent (input.rs) and    *)
(* FrameHeader (frame.rs), one after the other on a stream whose bytes     *)
(* arrive in pieces of any length.  Numbers are big-endian, a float is the *)
(* number that its bits are.  A writer of a later version has names of its *)
(* own ("later") for what this version's reader does not know.             *)
(***************************************************************************)
EXTENDS Integers, Sequences, SequencesExt

CONSTANTS
  Coordinates,     \* positions of the pointer, i32
  Codes,           \* key codes and the bits of scroll amounts, u32
  Payloads,        \* payload lengths, u32
  MaxItems         \* bound: items written to the stream

TopByte(n) == n \div (256 * 256 * 256)

\* Numbers fit into the four bytes that they are written as.
ASSUME WireAssumption ==
  /\ \A n \in Coordinates : n \in Int /\ TopByte(n) \in -128..127
  /\ \A n \in Codes \cup Payloads : n \in Nat /\ TopByte(n) \in 0..255
  /\ MaxItems \in Nat

VARIABLES
  stream,          \* "input" or "video"
  underway,        \* bytes written and not yet arrived
  unread,          \* bytes arrived and not yet decoded
  reader,          \* "reading", or the error decode() ended with: "truncated" or "refused"
  sent,            \* history: what was encoded
  got              \* history: what was decoded

wireVars == <<stream, underway, unread, reader, sent, got>>

-----------------------------------------------------------------------------
(* Names that are numbers on the wire                                      *)

Buttons == <<"left", "right", "middle", "back", "forward">>
Kinds == <<"full", "delta", "cursor">>
Formats == <<"bgra8", "rgba8", "rgb8", "nv12">>
Actions == {"press", "release"}

\* The name of a later version takes the first free number.
Names(known) == Range(known) \cup {"later"}
Number(known, name) ==
  IF name = "later" THEN Len(known) ELSE (CHOOSE i \in DOMAIN known : known[i] = name) - 1
Known(known, byte) == byte < Len(known)
Name(known, byte) == known[byte + 1]

Word(n) == <<TopByte(n) % 256, (n \div (256 * 256)) % 256, (n \div 256) % 256, n % 256>>
Unsigned(b, at) == ((b[at] * 256 + b[at + 1]) * 256 + b[at + 2]) * 256 + b[at + 3]
Signed(b, at) ==
  LET top == IF b[at] < 128 THEN b[at] ELSE b[at] - 256
  IN  ((top * 256 + b[at + 1]) * 256 + b[at + 2]) * 256 + b[at + 3]

-----------------------------------------------------------------------------
(* Input events                                                            *)

Button(name, action) == [name |-> name, action |-> action]
NoButton == Button("none", "none")
MouseEvent(x, y, button) == [type |-> "mouse", x |-> x, y |-> y, button |-> button]
KeyEvent(code, action, mods) ==
  [type |-> "key", keycode |-> code, action |-> action, modifiers |-> mods]
ScrollEvent(dx, dy) == [type |-> "scroll", dx |-> dx, dy |-> dy]
LaterEvent == [type |-> "later"]

InputItems ==
  {MouseEvent(x, y, b) : x, y \in Coordinates,
                         b \in {NoButton} \cup {Button(n, a) : n \in Names(Buttons), a \in Actions}}
  \cup {KeyEvent(c, a, m) : c \in Codes, a \in Actions, m \in {0, 9}}
  \cup {ScrollEvent(dx, dy) : dx, dy \in Codes}
  \cup {LaterEvent}

ButtonByte(b) ==
  IF b = NoButton THEN 255
  ELSE Number(Buttons, b.name) + (IF b.action = "press" THEN 128 ELSE 0)

EncodeEvent(e) ==
  CASE e.type = "mouse" -> <<0>> \o Word(e.x) \o Word(e.y) \o <<ButtonByte(e.button)>>
    [] e.type = "key" -> <<1>> \o Word(e.keycode)
                           \o <<IF e.action = "press" THEN 1 ELSE 0, e.modifiers>>
    [] e.type = "scroll" -> <<2>> \o Word(e.dx) \o Word(e.dy)
    [] e.type = "later" -> <<3>>

\* What decode() returns and how many bytes it takes from its source.
Decoded(item, taken) == [result |-> "ok", item |-> item, taken |-> taken]
Failed(error, taken) == [result |-> error, item |-> LaterEvent, taken |-> taken]

\* Mutant: the button is looked up before the byte for none is recognised.
DecodeMouseByButton(b) ==
  LET byte == b[10]
      action == IF byte >= 128 THEN "press" ELSE "release"
  IN  IF Len(b) - 1 < 9 THEN Failed("truncated", 1)
      ELSE IF ~Known(Buttons, byte % 128) THEN Failed("refused", 10)
      ELSE Decoded(MouseEvent(Signed(b, 2), Signed(b, 6),
                              Button(Name(Buttons, byte % 128), action)), 10)

\* The bytes are numbered from the tag on, which is taken before the length of
\* the rest is looked at.
DecodeMouse(b) ==
  LET byte == b[10]
      action == IF byte >= 128 THEN "press" ELSE "release"
  IN  IF Len(b) - 1 < 9 THEN Failed("truncated", 1)
      ELSE IF byte = 255 THEN Decoded(MouseEvent(Signed(b, 2), Signed(b, 6), NoButton), 10)
      ELSE IF ~Known(Buttons, byte % 128) THEN Failed("refused", 10)
      ELSE Decoded(MouseEvent(Signed(b, 2), Signed(b, 6),
                              Button(Name(Buttons, byte % 128), action)), 10)

DecodeKey(b) ==
  IF Len(b) - 1 < 6 THEN Failed("truncated", 1)
  ELSE Decoded(KeyEvent(Unsigned(b, 2), IF b[6] = 1 THEN "press" ELSE "release", b[7]), 7)

DecodeScroll(b) ==
  IF Len(b) - 1 < 8 THEN Failed("truncated", 1)
  ELSE Decoded(ScrollEvent(Unsigned(b, 2), Unsigned(b, 6)), 9)

DecodeEvent(b) ==
  CASE b[1] = 0 -> DecodeMouse(b)
    [] b[1] = 1 -> DecodeKey(b)
    [] b[1] = 2 -> DecodeScroll(b)
    [] OTHER -> Failed("refused", 1)

-----------------------------------------------------------------------------
(* Frame headers                                                           *)

FrameHeaderSize == 24
MaxPayload == 64 * 1024 * 1024

Header(kind, format, len) ==
  [type |-> "header", kind |-> kind, display |-> 1, sequence |-> 258, width |-> 1920,
   height |-> 1080, format |-> format, payload |-> len]

Headers == {Header(k, f, n) : k \in Names(Kinds), f \in Names(Formats), n \in Payloads}

EncodeHeader(h) ==
  <<Number(Kinds, h.kind)>> \o Word(h.display) \o Word(h.sequence) \o Word(h.width)
    \o Word(h.height) \o <<Number(Formats, h.format), 0, 0>> \o Word(h.payload)

\* Nothing is taken from a source that has less than a header.
DecodeHeader(b) ==
  IF Len(b) < FrameHeaderSize THEN Failed("short", 0)
  ELSE IF ~Known(Kinds, b[1]) THEN Failed("refused", 1)
  ELSE IF ~Known(Formats, b[18]) THEN Failed("refused", 18)
  ELSE IF Unsigned(b, 21) > MaxPayload THEN Failed("refused", FrameHeaderSize)
  ELSE Decoded([type |-> "header", kind |-> Name(Kinds, b[1]), display |-> Unsigned(b, 2),
                sequence |-> Unsigned(b, 6), width |-> Unsigned(b, 10),
                height |-> Unsigned(b, 14), format |-> Name(Formats, b[18]),
                payload |-> Unsigned(b, 21)], FrameHeaderSize)

-----------------------------------------------------------------------------
Items == IF stream = "input" THEN InputItems ELSE Headers
Encoding(item) == IF stream = "input" THEN EncodeEvent(item) ELSE EncodeHeader(item)
Decoding(b) == IF stream = "input" THEN DecodeEvent(b) ELSE DecodeHeader(b)

WireTypeOK ==
  /\ stream \in {"input", "video"}
  /\ underway \in Seq(0..255) /\ unread \in Seq(0..255)
  /\ reader \in {"reading", "truncated", "refused"}
  /\ sent \in Seq(Items) /\ Len(sent) <= MaxItems
  /\ got \in Seq(Items)

WireInit ==
  /\ stream \in {"input", "video"}
  /\ underway = <<>> /\ unread = <<>>
  /\ reader = "reading"
  /\ sent = <<>> /\ got = <<>>

Write(item) ==
  /\ Len(sent) < MaxItems
  /\ underway' = underway \o Encoding(item)
  /\ sent' = Append(sent, item)
  /\ UNCHANGED <<stream, unread, reader, got>>

Arrive(n) ==
  /\ reader = "reading"
  /\ unread' = unread \o SubSeq(underway, 1, n)
  /\ underway' = SubSeq(underway, n + 1, Len(underway))
  /\ UNCHANGED <<stream, reader, sent, got>>

\* A reader tries again when a header was short and stops at any other error.
Read ==
  LET d == Decoding(unread)
  IN  /\ reader = "reading"
      /\ unread # <<>>
      /\ d.result # "short"
      /\ unread' = SubSeq(unread, d.taken + 1, Len(unread))
      /\ \/ d.result = "ok" /\ got' = Append(got, d.item) /\ UNCHANGED reader
         \/ d.result # "ok" /\ reader' = d.result /\ UNCHANGED got
      /\ UNCHANGED <<stream, underway, sent>>

WireNext ==
  \/ \E item \in Items : Write(item)
  \/ \E n \in 1..Len(underway) : Arrive(n)
  \/ Read

WireSpec == WireInit /\ [][WireNext]_wireVars

-----------------------------------------------------------------------------
\* What this version's reader cannot take (frame.rs:18-27, 84-89, 110-118, input.rs:127-136, 171).
Foreign(item) ==
  CASE item.type = "header" ->
         item.kind = "later" \/ item.format = "later" \/ item.payload > MaxPayload
    [] item.type = "mouse" -> item.button.name = "later"
    [] OTHER -> item.type = "later"

\* However the bytes arrive, decode() (input.rs:110-173, frame.rs:64-98) gives
\* back what encode() was given, in order and completely; it refuses an item
\* only for what this version does not know or allow, and calls an event
\* truncated only when a part of it is still on its way.
ReadsWhatWasWritten ==
  /\ IsPrefix(got, sent)
  /\ reader = "reading" /\ underway = <<>> /\ unread = <<>> => got = sent
  /\ reader = "refused" => Len(got) < Len(sent) /\ Foreign(sent[Len(got) + 1])
  /\ reader = "truncated" => stream = "input" /\ underway # <<>>
=============================================================================
